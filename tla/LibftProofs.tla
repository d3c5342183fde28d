----------------------------- MODULE LibftProofs -----------------------------
(***************************************************************************)
(* Theorems about libft.                                                   *)
(*                                                                         *)
(* ft_memmove copies as if at once, for regions of every length that       *)
(* overlap in any way: what the loop has copied is right, and the          *)
(* direction is such that no byte is overwritten before it has been copied *)
(* (Progress).                                                             *)
(*                                                                         *)
(* The output functions, for a buffer of every size: what waits is in      *)
(* order (Waiting), only what was written at once is ahead of a character  *)
(* printed earlier (Ahead), none is lost or doubled (Counted); each of the *)
(* functions of libft keeps this (Sound), and a call is made of them.      *)
(*                                                                         *)
(* The lists, for any number of nodes and malloc failing at any call: the  *)
(* nodes are those of disjoint chains, each ending in NULL, and of what    *)
(* failures left behind (Whole); the pointers are to the chains, and the   *)
(* call in progress is where its step says (ListsAre).                     *)
(*                                                                         *)
(* The functions that write to memory, for a memory of every size: each    *)
(* loop stops at the first place of some kind (Search, First), which gives *)
(* what is written where (Filled), and that is what C wants.               *)
(***************************************************************************)
EXTENDS Libft, FiniteSetTheorems, WellFoundedInduction, TLAPS

Inv == TypeOK /\ Progress

LEMMA InitInv == Init => Inv
BY SizeAssumption DEF Init, Inv, TypeOK, Progress, Backwards, Addr

LEMMA DownInv == ASSUME Inv, CopyDown PROVE Inv'
<1>1. dst + i - 1 \in Addr /\ src + i - 1 \in Addr /\ i - 1 \in 0 .. len
  BY SizeAssumption DEF Inv, TypeOK, CopyDown, Backwards, Addr
<1>2. TypeOK'
  BY <1>1 DEF Inv, TypeOK, CopyDown
<1>3. mem[src + i - 1] = before[src + i - 1]
  BY <1>1 DEF Inv, TypeOK, Progress, CopyDown, Backwards
<1>4. ASSUME NEW p \in Addr
      PROVE mem'[p] = IF p \in dst + i' .. dst + len - 1 THEN before[src + (p - dst)] ELSE before[p]
  <2>1. CASE p = dst + i - 1
    BY <1>1, <1>3, <2>1 DEF Inv, TypeOK, CopyDown, Addr
  <2>2. CASE p # dst + i - 1
    <3>1. mem'[p] = mem[p]
      BY <2>2 DEF Inv, TypeOK, CopyDown
    <3>2. p \in dst + i' .. dst + len - 1 <=> p \in dst + i .. dst + len - 1
      BY <2>2 DEF Inv, TypeOK, CopyDown, Addr
    <3>. QED BY <3>1, <3>2 DEF Inv, Progress, CopyDown, Backwards
  <2>. QED BY <2>1, <2>2
<1>5. Progress'
  BY <1>4 DEF Inv, TypeOK, Progress, CopyDown, Backwards
<1>. QED BY <1>2, <1>5 DEF Inv

LEMMA UpInv == ASSUME Inv, CopyUp PROVE Inv'
<1>0. src > dst
  BY DEF Inv, TypeOK, CopyUp, Backwards
<1>1. dst + i \in Addr /\ src + i \in Addr /\ i + 1 \in 0 .. len
  BY SizeAssumption DEF Inv, TypeOK, CopyUp, Addr
<1>2. TypeOK'
  BY <1>1 DEF Inv, TypeOK, CopyUp
<1>3. mem[src + i] = before[src + i]
  BY <1>0, <1>1 DEF Inv, TypeOK, Progress
<1>4. ASSUME NEW p \in Addr
      PROVE mem'[p] = IF p \in dst .. dst + i' - 1 THEN before[src + (p - dst)] ELSE before[p]
  <2>1. CASE p = dst + i
    BY <1>1, <1>3, <2>1 DEF Inv, TypeOK, CopyUp, Addr
  <2>2. CASE p # dst + i
    <3>1. mem'[p] = mem[p]
      BY <2>2 DEF Inv, TypeOK, CopyUp
    <3>2. p \in dst .. dst + i' - 1 <=> p \in dst .. dst + i - 1
      BY <2>2 DEF Inv, TypeOK, CopyUp, Addr
    <3>. QED BY <1>0, <3>1, <3>2 DEF Inv, Progress, CopyUp
  <2>. QED BY <2>1, <2>2
<1>5. Progress'
  BY <1>0, <1>4 DEF Inv, TypeOK, Progress, CopyUp
<1>. QED BY <1>2, <1>5 DEF Inv

LEMMA InvIsInvariant == Spec => []Inv
<1>1. Inv /\ UNCHANGED vars => Inv'
  BY DEF Inv, TypeOK, Progress, vars
<1>2. Inv /\ [Next]_vars => Inv'
  BY <1>1, DownInv, UpInv DEF Next
<1>. QED BY <1>2, InitInv, PTL DEF Spec

(* However long the regions are and however they overlap, the copy is what *)
(* a copy through a second buffer would be (ft_memmove, ft_memcpy).        *)
THEOREM CopyExact == Spec => []CopiedAtOnce
<1>1. Inv => CopiedAtOnce
  BY DEF Inv, TypeOK, Progress, CopiedAtOnce, Done, Backwards
<1>. QED BY <1>1, InvIsInvariant, PTL

(* Among the parts of the library the copy is on its own: where another    *)
(* part is followed it never starts.                                       *)
CopyInv == IF part = "copy" THEN Inv ELSE NoCopy

(* The same among the other functions of the library (ft_memmove).         *)
THEOREM LibftCopies == LibftSpec => []CopiedAtOnce
<1>1. LibftInit => CopyInv
  BY InitInv DEF LibftInit, CopyInv
<1>2. CopyInv /\ UNCHANGED allvars => CopyInv'
  BY DEF CopyInv, Inv, TypeOK, Progress, NoCopy, allvars, vars
<1>3. ASSUME CopyInv, LibftNext PROVE CopyInv'
  <2>1. CASE Only("copy") /\ Next
    BY <1>3, <2>1, DownInv, UpInv DEF CopyInv, Only, Next
  <2>2. CASE part # "copy" /\ part' = part /\ UNCHANGED vars
    BY <1>3, <2>2 DEF CopyInv, NoCopy, vars
  <2>3. (Only("copy") /\ Next) \/ (part # "copy" /\ part' = part /\ UNCHANGED vars)
    BY <1>3 DEF LibftNext, Only
  <2>. QED BY <2>1, <2>2, <2>3
<1>4. CopyInv /\ [LibftNext]_allvars => CopyInv'
  BY <1>2, <1>3
<1>5. CopyInv => CopiedAtOnce
  <2>1. Inv => CopiedAtOnce
    BY DEF Inv, TypeOK, Progress, CopiedAtOnce, Done, Backwards
  <2>2. NoCopy => CopiedAtOnce
    BY DEF NoCopy, CopiedAtOnce, Done, Backwards
  <2>. QED BY <2>1, <2>2 DEF CopyInv
<1>. QED BY <1>1, <1>4, <1>5, PTL DEF LibftSpec
-----------------------------------------------------------------------------
(* Induction over the characters of a text.                                *)
LEMMA LeastOf ==
  ASSUME NEW T, T \subseteq Nat, T # {}
  PROVE  \E x \in T : \A y \in T : x <= y
<1>1. IsWellFoundedOn(OpToRel(<, Nat), Nat)
  BY NatLessThanWellFounded
<1>2. PICK x \in T : \A y \in T : ~(<<y, x>> \in OpToRel(<, Nat))
  BY <1>1, WFMin
<1>3. \A y \in T : ~(y < x)
  BY <1>2 DEF OpToRel
<1> QED
  BY <1>3

LEMMA SetInduction ==
  ASSUME NEW T, 0 \in T, \A k \in Nat : k \in T => k + 1 \in T
  PROVE  \A k \in Nat : k \in T
<1> SUFFICES ASSUME NEW m \in Nat, m \notin T PROVE FALSE
  OBVIOUS
<1> DEFINE U == {k \in Nat : k \notin T}
<1>1. PICK x \in U : \A y \in U : x <= y
  BY LeastOf
<1>2. x # 0 /\ x - 1 \in Nat /\ x - 1 \notin U
  BY <1>1
<1> QED BY <1>1, <1>2

(* h holds the states of the loop of ft_putstr_buf over the first n        *)
(* characters of a text.                                                   *)
Loop(h, s, text, n) ==
  h = [k \in 0 .. n |-> IF k = 0 THEN s ELSE Channel!ft_putchar_buf(h[k - 1], text[k])]

LEMMA LoopDefined ==
  ASSUME NEW s, NEW text
  PROVE  \A n \in Nat : \E h : Loop(h, s, text, n)
<1> DEFINE T == {n \in Nat : \E h : Loop(h, s, text, n)}
<1>1. 0 \in T
  <2>1. Loop([k \in 0 .. 0 |-> s], s, text, 0)
    BY DEF Loop
  <2>. QED BY <2>1
<1>2. ASSUME NEW n \in Nat, n \in T PROVE n + 1 \in T
  <2>1. PICK f : Loop(f, s, text, n)
    BY <1>2
  <2> DEFINE g == [k \in 0 .. n + 1 |-> IF k <= n THEN f[k] ELSE Channel!ft_putchar_buf(f[n], text[n + 1])]
  <2>2. \A k \in 0 .. n + 1 : g[k] = IF k = 0 THEN s ELSE Channel!ft_putchar_buf(g[k - 1], text[k])
    <3> TAKE k \in 0 .. n + 1
    <3>1. CASE k = n + 1
      BY <3>1
    <3>2. CASE k <= n /\ k # 0
      <4>1. g[k] = f[k] /\ g[k - 1] = f[k - 1] /\ k \in 0 .. n
        BY <3>2
      <4>2. f[k] = Channel!ft_putchar_buf(f[k - 1], text[k])
        BY <2>1, <3>2, <4>1 DEF Loop
      <4>. QED BY <4>1, <4>2, <3>2
    <3>3. CASE k = 0
      BY <2>1, <3>3 DEF Loop
    <3>. QED BY <3>1, <3>2, <3>3
  <2>3. Loop(g, s, text, n + 1)
    BY <2>2 DEF Loop
  <2> HIDE DEF g
  <2>. QED BY <2>3
<1> HIDE DEF T
<1>3. \A n \in Nat : n \in T
  BY <1>1, <1>2, SetInduction
<1>. QED BY <1>3 DEF T

LEMMA PutstrIsLoop ==
  ASSUME NEW s, NEW C, NEW text \in Seq(C)
  PROVE  \E h : Loop(h, s, text, Len(text)) /\ Channel!ft_putstr_buf(s, text) = h[Len(text)]
<1>1. \E h : Loop(h, s, text, Len(text))
  <2>1. Len(text) \in Nat
    OBVIOUS
  <2>2. \A n \in Nat : \E h : Loop(h, s, text, n)
    BY LoopDefined
  <2>. QED BY <2>1, <2>2
<1>2. PICK put : put = CHOOSE h : Loop(h, s, text, Len(text))
  OBVIOUS
<1>3. Loop(put, s, text, Len(text))
  BY <1>1, <1>2
<1>4. Channel!ft_putstr_buf(s, text) = put[Len(text)]
  BY <1>2 DEF Channel!ft_putstr_buf, Loop
<1>. QED BY <1>3, <1>4

(* The characters, the descriptors they can be for, what is written.       *)
AnyFd == Fds \cup {0, 1, 2}
Char == [number : Nat, fd : AnyFd]
Output == [fd : AnyFd, char : Char]

(* What waits in the buffer b is in order, for the descriptor of the       *)
(* buffer, and was not written at once.                                    *)
Waiting(b, fd, p, dir, dro) ==
  /\ \A k \in 1 .. Len(b) :
       /\ b[k].number \in 1 .. p /\ b[k].number \notin dir
       /\ b[k].number \notin dro /\ b[k].fd = fd
  /\ \A j, k \in 1 .. Len(b) : j < k => b[j].number < b[k].number

(* What is written is for its descriptor, and only a character written at  *)
(* once is ahead of one that was printed earlier.                          *)
Ahead(w, b, p, dir) ==
  /\ \A k \in 1 .. Len(w) : w[k].fd = w[k].char.fd /\ w[k].char.number \in 1 .. p
  /\ \A j, k \in 1 .. Len(w) :
       j < k /\ w[j].char.number > w[k].char.number
         => w[j].char.number \in dir /\ w[k].char.number \notin dir
  /\ \A j \in 1 .. Len(w), k \in 1 .. Len(b) :
       w[j].char.number > b[k].number => w[j].char.number \in dir

(* No character is lost or doubled.                                        *)
Counted(w, b, p, dro) ==
  /\ \A n \in 1 .. p : \/ \E k \in 1 .. Len(w) : w[k].char.number = n
                       \/ \E k \in 1 .. Len(b) : b[k].number = n
                       \/ n \in dro
  /\ Len(w) + Len(b) + Cardinality(dro) = p

LEMMA Concatenated ==
  ASSUME NEW u \in Seq(Output), NEW x \in Seq(Output)
  PROVE  /\ u \o x \in Seq(Output) /\ Len(u \o x) = Len(u) + Len(x)
         /\ \A k \in 1 .. Len(u) : (u \o x)[k] = u[k]
         /\ \A k \in 1 .. Len(x) : (u \o x)[Len(u) + k] = x[k]
OBVIOUS

(* What a write of the texts b for the descriptor fd puts out.             *)
Entries(b, fd) == [k \in DOMAIN b |-> [fd |-> fd, char |-> b[k]]]

LEMMA EntriesAre ==
  ASSUME NEW b \in Seq(Char), NEW fd \in AnyFd
  PROVE  /\ Entries(b, fd) \in Seq(Output) /\ Len(Entries(b, fd)) = Len(b)
         /\ \A k \in 1 .. Len(b) : Entries(b, fd)[k].fd = fd /\ Entries(b, fd)[k].char = b[k]
<1>1. DOMAIN b = 1 .. Len(b) /\ Len(b) \in Nat /\ \A k \in 1 .. Len(b) : b[k] \in Char
  OBVIOUS
<1>2. \A k \in 1 .. Len(b) : [fd |-> fd, char |-> b[k]] \in Output
  BY <1>1 DEF Output
<1>3. PICK y : y = Entries(b, fd)
  OBVIOUS
<1>4. y \in [1 .. Len(b) -> Output] /\ \A k \in 1 .. Len(b) : y[k] = [fd |-> fd, char |-> b[k]]
  BY <1>1, <1>2, <1>3 DEF Entries
<1>5. y \in Seq(Output) /\ Len(y) = Len(b)
  BY <1>1, <1>4
<1>. QED BY <1>3, <1>4, <1>5

LEMMA Flushed ==
  ASSUME NEW w \in Seq(Output), NEW b \in Seq(Char), NEW fd \in AnyFd, NEW p \in Nat,
         NEW dir, NEW dro, Waiting(b, fd, p, dir, dro), Ahead(w, b, p, dir),
         NEW e, Len(e) = 0
  PROVE  /\ w \o Entries(b, fd) \in Seq(Output) /\ Ahead(w \o Entries(b, fd), e, p, dir)
         /\ Counted(w, b, p, dro) => Counted(w \o Entries(b, fd), e, p, dro)
<1>0. PICK v : v = w \o Entries(b, fd)
  OBVIOUS
<1>2. PICK L \in Nat, B \in Nat : L = Len(w) /\ B = Len(b)
  OBVIOUS
<1>1. PICK x : x = Entries(b, fd)
  OBVIOUS
<1>3. x \in Seq(Output) /\ Len(x) = B /\ \A k \in 1 .. B : x[k].fd = fd /\ x[k].char = b[k]
  BY <1>1, <1>2, EntriesAre
<1>4. /\ v \in Seq(Output) /\ Len(v) = L + B
      /\ \A k \in 1 .. L : v[k] = w[k]
      /\ \A k \in 1 .. B : v[L + k] = x[k]
  <2>1. /\ v \in Seq(Output) /\ Len(v) = Len(w) + Len(x)
        /\ \A k \in 1 .. Len(w) : v[k] = w[k]
        /\ \A k \in 1 .. Len(x) : v[Len(w) + k] = x[k]
    <3>1. v = w \o x
      BY <1>0, <1>1
    <3>2. x \in Seq(Output)
      BY <1>3
    <3>3. /\ w \o x \in Seq(Output) /\ Len(w \o x) = Len(w) + Len(x)
          /\ \A k \in 1 .. Len(w) : (w \o x)[k] = w[k]
          /\ \A k \in 1 .. Len(x) : (w \o x)[Len(w) + k] = x[k]
      BY <3>2, Concatenated, Zenon
    <3>. QED BY <3>1, <3>3, Zenon
  <2>. QED BY <1>2, <1>3, <2>1
<1>5. \A k \in 1 .. L + B : k \in 1 .. L \/ k - L \in 1 .. B
  OBVIOUS
<1>6. \A k \in 1 .. L + B : k - L \in 1 .. B => v[k].fd = fd /\ v[k].char = b[k - L]
  <2> TAKE k \in 1 .. L + B
  <2> HAVE k - L \in 1 .. B
  <2>1. L + (k - L) = k
    OBVIOUS
  <2>2. v[L + (k - L)] = x[k - L]
    BY <1>4
  <2>. QED BY <1>3, <2>1, <2>2
<1>7. \A k \in 1 .. L + B : v[k].fd = v[k].char.fd /\ v[k].char.number \in 1 .. p
  <2> TAKE k \in 1 .. L + B
  <2>1. CASE k \in 1 .. L
    <3>1. v[k] = w[k]
      BY <2>1, <1>4
    <3>. QED BY <2>1, <3>1, <1>2 DEF Ahead
  <2>2. CASE k - L \in 1 .. B
    <3>1. v[k].fd = fd /\ v[k].char = b[k - L]
      BY <2>2, <1>6
    <3>. QED BY <2>2, <3>1, <1>2 DEF Waiting
  <2>. QED BY <2>1, <2>2, <1>5
<1>8. ASSUME NEW j \in 1 .. L + B, NEW k \in 1 .. L + B, j < k, v[j].char.number > v[k].char.number
      PROVE  v[j].char.number \in dir /\ v[k].char.number \notin dir
  <2>1. CASE k \in 1 .. L
    <3>1. j \in 1 .. L
      BY <1>8, <2>1
    <3>2. v[j] = w[j] /\ v[k] = w[k]
      BY <2>1, <3>1, <1>4
    <3>. QED BY <1>8, <2>1, <3>1, <3>2, <1>2 DEF Ahead
  <2>2. CASE k - L \in 1 .. B
    <3>1. v[k].char = b[k - L]
      BY <2>2, <1>6
    <3>2. CASE j \in 1 .. L
      <4>1. v[j] = w[j]
        BY <3>2, <1>4
      <4>2. v[j].char.number \in dir
        BY <1>8, <2>2, <3>1, <3>2, <4>1, <1>2 DEF Ahead
      <4>3. b[k - L].number \notin dir
        BY <2>2, <1>2, Zenon DEF Waiting
      <4>. QED BY <3>1, <4>2, <4>3, Zenon
    <3>3. CASE j - L \in 1 .. B
      <4>1. v[j].char = b[j - L]
        BY <3>3, <1>6
      <4>2. b[j - L].number \in 1 .. p /\ b[k - L].number \in 1 .. p
        BY <2>2, <3>3, <1>2, Zenon DEF Waiting
      <4>3. j - L < k - L
        BY <1>8
      <4>4. b[j - L].number < b[k - L].number
        BY <2>2, <3>3, <4>3, <1>2, Zenon DEF Waiting
      <4>5. b[j - L].number > b[k - L].number
        BY <1>8, <3>1, <4>1, Zenon
      <4>. QED BY <4>2, <4>4, <4>5
    <3>. QED BY <3>2, <3>3, <1>5
  <2>. QED BY <2>1, <2>2, <1>5
<1>9. Ahead(v, e, p, dir)
  <2>1. Len(v) = L + B /\ Len(e) = 0
    BY <1>4
  <2>2. \A j, k \in 1 .. L + B : j < k /\ v[j].char.number > v[k].char.number
             => v[j].char.number \in dir /\ v[k].char.number \notin dir
    BY <1>8
  <2>3. \A j \in 1 .. Len(v), k \in 1 .. Len(e) :
          v[j].char.number > e[k].number => v[j].char.number \in dir
    BY <2>1
  <2>. QED BY <1>7, <2>1, <2>2, <2>3 DEF Ahead
<1>10. ASSUME Counted(w, b, p, dro) PROVE Counted(v, e, p, dro)
  <2>1. ASSUME NEW n \in 1 .. p, n \notin dro PROVE \E k \in 1 .. L + B : v[k].char.number = n
    <3>1. CASE \E k \in 1 .. L : w[k].char.number = n
      <4>1. PICK k \in 1 .. L : w[k].char.number = n
        BY <3>1
      <4>2. v[k] = w[k]
        BY <1>4
      <4>3. k \in 1 .. L + B
        OBVIOUS
      <4>. QED BY <4>1, <4>2, <4>3
    <3>2. CASE \E k \in 1 .. B : b[k].number = n
      <4>1. PICK k \in 1 .. B : b[k].number = n
        BY <3>2
      <4>2. L + k \in 1 .. L + B /\ (L + k) - L = k
        OBVIOUS
      <4>3. v[L + k].char = b[k]
        BY <4>2, <1>6
      <4>. QED BY <4>1, <4>2, <4>3
    <3>. QED BY <1>2, <1>10, <2>1, <3>1, <3>2 DEF Counted
  <2>2. Len(v) = L + B /\ Len(e) = 0
    BY <1>4
  <2>3. L + B + Cardinality(dro) = p
    BY <1>2, <1>10 DEF Counted
  <2>4. \A n \in 1 .. p : (\E k \in 1 .. L + B : v[k].char.number = n) \/ n \in dro
    BY <2>1
  <2>. QED BY <2>2, <2>3, <2>4 DEF Counted
<1>. QED BY <1>0, <1>4, <1>9, <1>10

(* One more character waits.                                               *)
LEMMA Stored ==
  ASSUME NEW w \in Seq(Output), NEW b \in Seq(Char), NEW fd \in AnyFd, NEW p \in Nat,
         NEW dir, NEW dro, dir \subseteq 1 .. p, dro \subseteq 1 .. p,
         Waiting(b, fd, p, dir, dro), Ahead(w, b, p, dir),
         NEW c \in Char, c.number = p + 1, c.fd = fd
  PROVE  /\ Append(b, c) \in Seq(Char) /\ Len(Append(b, c)) = Len(b) + 1
         /\ Waiting(Append(b, c), fd, p + 1, dir, dro) /\ Ahead(w, Append(b, c), p + 1, dir)
         /\ Counted(w, b, p, dro) => Counted(w, Append(b, c), p + 1, dro)
<1>1. PICK a : a = Append(b, c)
  OBVIOUS
<1>2. PICK L \in Nat, B \in Nat : L = Len(w) /\ B = Len(b)
  OBVIOUS
<1>3. a \in Seq(Char) /\ Len(a) = B + 1 /\ a[B + 1] = c /\ \A k \in 1 .. B : a[k] = b[k]
  BY <1>1, <1>2
<1>4. \A k \in 1 .. B + 1 : k \in 1 .. B \/ k = B + 1
  OBVIOUS
<1>5. \A k \in 1 .. B : b[k].number \in 1 .. p /\ b[k].number \notin dir /\ b[k].number \notin dro /\ b[k].fd = fd
  BY <1>2 DEF Waiting
<1>6. p + 1 \notin dir /\ p + 1 \notin dro
  OBVIOUS
<1>7. ASSUME NEW k \in 1 .. B + 1
      PROVE  /\ a[k].number \in 1 .. p + 1 /\ a[k].number \notin dir
             /\ a[k].number \notin dro /\ a[k].fd = fd
  <2>1. CASE k \in 1 .. B
    <3>1. a[k] = b[k]
      BY <2>1, <1>3
    <3>. QED BY <2>1, <3>1, <1>5
  <2>2. CASE k = B + 1
    BY <2>2, <1>3, <1>6
  <2>. QED BY <2>1, <2>2, <1>4
<1>8. ASSUME NEW j \in 1 .. B + 1, NEW k \in 1 .. B + 1, j < k PROVE a[j].number < a[k].number
  <2>1. j \in 1 .. B /\ a[j] = b[j]
    <3>1. j \in 1 .. B
      BY <1>8
    <3>. QED BY <3>1, <1>3
  <2>2. CASE k \in 1 .. B
    <3>1. a[k] = b[k]
      BY <2>2, <1>3
    <3>. QED BY <1>8, <2>1, <2>2, <3>1, <1>2 DEF Waiting
  <2>3. CASE k = B + 1
    BY <2>1, <2>3, <1>3, <1>5
  <2>. QED BY <2>2, <2>3, <1>4
<1>9. Waiting(a, fd, p + 1, dir, dro)
  <2>1. \A k \in 1 .. Len(a) : /\ a[k].number \in 1 .. p + 1 /\ a[k].number \notin dir
                               /\ a[k].number \notin dro /\ a[k].fd = fd
    BY <1>3, <1>7
  <2>2. \A j, k \in 1 .. Len(a) : j < k => a[j].number < a[k].number
    BY <1>3, <1>8
  <2>. QED BY <2>1, <2>2 DEF Waiting
<1>10. \A k \in 1 .. L : w[k].fd = w[k].char.fd /\ w[k].char.number \in 1 .. p
  BY <1>2 DEF Ahead
<1>11. Ahead(w, a, p + 1, dir)
  <2>1. \A k \in 1 .. Len(w) : w[k].fd = w[k].char.fd /\ w[k].char.number \in 1 .. p + 1
    BY <1>2, <1>10
  <2>2. \A j, k \in 1 .. Len(w) :
          j < k /\ w[j].char.number > w[k].char.number
            => w[j].char.number \in dir /\ w[k].char.number \notin dir
    BY DEF Ahead
  <2>3. ASSUME NEW j \in 1 .. Len(w), NEW k \in 1 .. Len(a), w[j].char.number > a[k].number
        PROVE  w[j].char.number \in dir
    <3>1. CASE k \in 1 .. B
      <4>1. a[k] = b[k]
        BY <3>1, <1>3
      <4>. QED BY <2>3, <3>1, <4>1, <1>2 DEF Ahead
    <3>2. CASE k = B + 1
      BY <2>3, <3>2, <1>2, <1>3, <1>10
    <3>. QED BY <3>1, <3>2, <1>3, <1>4
  <2>4. \A j \in 1 .. Len(w), k \in 1 .. Len(a) :
          w[j].char.number > a[k].number => w[j].char.number \in dir
    BY <2>3
  <2>. QED BY <2>1, <2>2, <2>4 DEF Ahead
<1>12. ASSUME Counted(w, b, p, dro) PROVE Counted(w, a, p + 1, dro)
  <2>1. ASSUME NEW n \in 1 .. p + 1, n \notin dro, ~ \E k \in 1 .. L : w[k].char.number = n
        PROVE  \E k \in 1 .. B + 1 : a[k].number = n
    <3>1. CASE n = p + 1
      <4>1. B + 1 \in 1 .. B + 1 /\ a[B + 1].number = n
        BY <3>1, <1>3
      <4>. QED BY <4>1
    <3>2. CASE n \in 1 .. p
      <4>1. PICK k \in 1 .. B : b[k].number = n
        BY <2>1, <3>2, <1>2, <1>12 DEF Counted
      <4>2. k \in 1 .. B + 1 /\ a[k] = b[k]
        <5>1. k \in 1 .. B + 1
          OBVIOUS
        <5>. QED BY <5>1, <1>3
      <4>. QED BY <4>1, <4>2
    <3>. QED BY <3>1, <3>2
  <2>2. L + B + Cardinality(dro) = p
    BY <1>2, <1>12 DEF Counted
  <2>3. Cardinality(dro) \in Int
    <3>1. IsFiniteSet(1 .. p)
      BY FS_Interval
    <3>2. IsFiniteSet(dro)
      BY <3>1, FS_Subset
    <3>. QED BY <3>2, FS_CardinalityType
  <2>4. L + (B + 1) + Cardinality(dro) = p + 1
    BY <2>2, <2>3
  <2>5. \A n \in 1 .. p + 1 : \/ \E k \in 1 .. L : w[k].char.number = n
                              \/ \E k \in 1 .. B + 1 : a[k].number = n
                              \/ n \in dro
    BY <2>1
  <2>. QED BY <1>2, <1>3, <2>4, <2>5 DEF Counted
<1>. QED BY <1>1, <1>2, <1>3, <1>9, <1>11, <1>12

(* The characters p + 1 to p + n, for one descriptor.                      *)
Following(text, p, fd) ==
  \A k \in 1 .. Len(text) : text[k].number = p + k /\ text[k].fd = fd

Also(dir, p, n) == dir \cup (p + 1 .. p + n)

(* Characters are written at once, before those that wait.                 *)
LEMMA WrittenAtOnce ==
  ASSUME NEW w \in Seq(Output), NEW b \in Seq(Char), NEW own \in AnyFd, NEW p \in Nat,
         NEW dir, NEW dro, dir \subseteq 1 .. p, dro \subseteq 1 .. p,
         Waiting(b, own, p, dir, dro), Ahead(w, b, p, dir),
         NEW fd \in AnyFd, NEW text \in Seq(Char), Following(text, p, fd)
  PROVE  /\ w \o Entries(text, fd) \in Seq(Output) /\ Also(dir, p, Len(text)) \subseteq 1 .. p + Len(text)
         /\ Waiting(b, own, p + Len(text), Also(dir, p, Len(text)), dro)
         /\ Ahead(w \o Entries(text, fd), b, p + Len(text), Also(dir, p, Len(text)))
         /\ Counted(w, b, p, dro) => Counted(w \o Entries(text, fd), b, p + Len(text), dro)
<1>00. PICK n \in Nat : n = Len(text)
  OBVIOUS
<1>0. PICK v, all : v = w \o Entries(text, fd) /\ all = Also(dir, p, n)
  OBVIOUS
<1>1. PICK x : x = Entries(text, fd)
  OBVIOUS
<1>2. PICK L \in Nat, B \in Nat : L = Len(w) /\ B = Len(b)
  OBVIOUS
<1>3. \A k \in 1 .. n : text[k].number = p + k /\ text[k].fd = fd
  BY <1>00 DEF Following
<1>4. x \in Seq(Output) /\ Len(x) = n /\ \A k \in 1 .. n : x[k].fd = fd /\ x[k].char = text[k]
  BY <1>00, <1>1, <1>3, EntriesAre
<1>5. /\ v \in Seq(Output) /\ Len(v) = L + n
      /\ \A k \in 1 .. L : v[k] = w[k]
      /\ \A k \in 1 .. n : v[L + k] = x[k]
  <2>1. v = w \o x
    BY <1>0, <1>1
  <2>2. x \in Seq(Output)
    BY <1>4
  <2>3. /\ w \o x \in Seq(Output) /\ Len(w \o x) = Len(w) + Len(x)
        /\ \A k \in 1 .. Len(w) : (w \o x)[k] = w[k]
        /\ \A k \in 1 .. Len(x) : (w \o x)[Len(w) + k] = x[k]
    BY <2>2, Concatenated, Zenon
  <2>4. /\ v \in Seq(Output) /\ Len(v) = Len(w) + Len(x)
        /\ \A k \in 1 .. Len(w) : v[k] = w[k]
        /\ \A k \in 1 .. Len(x) : v[Len(w) + k] = x[k]
    BY <2>1, <2>3, Zenon
  <2>. QED BY <1>2, <1>4, <2>4
<1>6. \A k \in 1 .. L + n : k \in 1 .. L \/ k - L \in 1 .. n
  BY <1>3
<1>7. \A k \in 1 .. L + n : k - L \in 1 .. n => v[k].fd = fd /\ v[k].char.fd = fd /\ v[k].char.number = p + (k - L)
  <2> TAKE k \in 1 .. L + n
  <2> HAVE k - L \in 1 .. n
  <2>1. L + (k - L) = k
    OBVIOUS
  <2>2. v[L + (k - L)] = x[k - L]
    BY <1>5
  <2>3. v[k].fd = fd /\ v[k].char = text[k - L]
    BY <2>1, <2>2, <1>4
  <2>. QED BY <2>3, <1>3
<1>8. /\ \A m \in all : m \in 1 .. p => m \in dir
      /\ \A k \in 1 .. n : p + k \in all
      /\ dir \subseteq all /\ all \subseteq 1 .. p + n
  BY <1>0 DEF Also
<1>9. \A k \in 1 .. L : w[k].fd = w[k].char.fd /\ w[k].char.number \in 1 .. p
  BY <1>2 DEF Ahead
<1>10. \A k \in 1 .. B : b[k].number \in 1 .. p /\ b[k].number \notin dir /\ b[k].number \notin dro /\ b[k].fd = own
  BY <1>2 DEF Waiting
<1>11. Waiting(b, own, p + n, all, dro)
  <2>1. \A k \in 1 .. Len(b) : /\ b[k].number \in 1 .. p + n /\ b[k].number \notin all
                               /\ b[k].number \notin dro /\ b[k].fd = own
    BY <1>2, <1>3, <1>8, <1>10
  <2>2. \A j, k \in 1 .. Len(b) : j < k => b[j].number < b[k].number
    BY DEF Waiting
  <2>. QED BY <2>1, <2>2 DEF Waiting
<1>12. ASSUME NEW k \in 1 .. L + n PROVE v[k].fd = v[k].char.fd /\ v[k].char.number \in 1 .. p + n
  <2>1. CASE k \in 1 .. L
    <3>1. v[k] = w[k]
      BY <2>1, <1>5
    <3>. QED BY <2>1, <3>1, <1>3, <1>9
  <2>2. CASE k - L \in 1 .. n
    <3>1. v[k].fd = fd /\ v[k].char.fd = fd /\ v[k].char.number = p + (k - L)
      BY <2>2, <1>7
    <3>2. p + (k - L) \in 1 .. p + n
      BY <2>2, <1>3
    <3>. QED BY <3>1, <3>2
  <2>. QED BY <2>1, <2>2, <1>6
<1>13. ASSUME NEW j \in 1 .. L + n, NEW k \in 1 .. L + n, j < k, v[j].char.number > v[k].char.number
       PROVE  v[j].char.number \in all /\ v[k].char.number \notin all
  <2>1. CASE k \in 1 .. L
    <3>1. j \in 1 .. L
      BY <1>3, <1>13, <2>1
    <3>2. v[j] = w[j] /\ v[k] = w[k]
      BY <2>1, <3>1, <1>5
    <3>3. w[j].char.number \in dir /\ w[k].char.number \notin dir
      BY <1>13, <2>1, <3>1, <3>2, <1>2 DEF Ahead
    <3>. QED BY <2>1, <3>2, <3>3, <1>8, <1>9
  <2>2. CASE k - L \in 1 .. n
    <3>1. v[k].char.number = p + (k - L)
      BY <2>2, <1>7
    <3>2. CASE j \in 1 .. L
      <4>1. v[j] = w[j]
        BY <3>2, <1>5
      <4>2. w[j].char.number \in 1 .. p
        BY <3>2, <1>9
      <4>. QED BY <1>13, <2>2, <3>1, <4>1, <4>2
    <3>3. CASE j - L \in 1 .. n
      <4>1. v[j].char.number = p + (j - L)
        BY <3>3, <1>7
      <4>. QED BY <1>13, <2>2, <3>1, <3>3, <4>1
    <3>. QED BY <3>2, <3>3, <1>6
  <2>. QED BY <2>1, <2>2, <1>6
<1>14. ASSUME NEW j \in 1 .. L + n, NEW k \in 1 .. B, v[j].char.number > b[k].number
       PROVE  v[j].char.number \in all
  <2>1. CASE j \in 1 .. L
    <3>1. v[j] = w[j]
      BY <2>1, <1>5
    <3>2. w[j].char.number \in dir
      BY <1>14, <2>1, <3>1, <1>2 DEF Ahead
    <3>. QED BY <3>1, <3>2, <1>8
  <2>2. CASE j - L \in 1 .. n
    BY <2>2, <1>7, <1>8
  <2>. QED BY <2>1, <2>2, <1>6
<1>15. Ahead(v, b, p + n, all)
  <2>1. Len(v) = L + n /\ Len(b) = B
    BY <1>2, <1>5
  <2>2. \A k \in 1 .. L + n : v[k].fd = v[k].char.fd /\ v[k].char.number \in 1 .. p + n
    BY <1>12
  <2>3. \A j, k \in 1 .. L + n : j < k /\ v[j].char.number > v[k].char.number
             => v[j].char.number \in all /\ v[k].char.number \notin all
    BY <1>13
  <2>4. \A j \in 1 .. L + n, k \in 1 .. B : v[j].char.number > b[k].number => v[j].char.number \in all
    BY <1>14
  <2>. QED BY <2>1, <2>2, <2>3, <2>4 DEF Ahead
<1>16. ASSUME Counted(w, b, p, dro) PROVE Counted(v, b, p + n, dro)
  <2>1. ASSUME NEW m \in 1 .. p + n, m \notin dro, ~ \E k \in 1 .. B : b[k].number = m
        PROVE  \E k \in 1 .. L + n : v[k].char.number = m
    <3>1. CASE m \in 1 .. p
      <4>1. PICK k \in 1 .. L : w[k].char.number = m
        BY <2>1, <3>1, <1>2, <1>16 DEF Counted
      <4>2. k \in 1 .. L + n
        BY <1>3
      <4>3. v[k] = w[k]
        BY <1>5
      <4>. QED BY <4>1, <4>2, <4>3
    <3>2. CASE m \in p + 1 .. p + n
      <4>1. PICK k : k = L + (m - p)
        OBVIOUS
      <4>2. k \in 1 .. L + n /\ k - L \in 1 .. n /\ p + (k - L) = m
        BY <3>2, <4>1, <1>3
      <4>3. v[k].char.number = m
        BY <4>2, <1>7
      <4>. QED BY <4>2, <4>3
    <3>. QED BY <3>1, <3>2, <1>3
  <2>2. L + B + Cardinality(dro) = p
    BY <1>2, <1>16 DEF Counted
  <2>3. Cardinality(dro) \in Int
    <3>1. IsFiniteSet(1 .. p)
      BY FS_Interval
    <3>2. IsFiniteSet(dro)
      BY <3>1, FS_Subset
    <3>. QED BY <3>2, FS_CardinalityType
  <2>6. PICK C \in Int : C = Cardinality(dro)
    BY <2>3
  <2>7. L + B + C = p
    BY <2>2, <2>6
  <2>8. (L + n) + B + C = p + n
    BY <2>7
  <2>4. (L + n) + B + Cardinality(dro) = p + n
    BY <2>6, <2>8
  <2>5. \A m \in 1 .. p + n : \/ \E k \in 1 .. L + n : v[k].char.number = m
                              \/ \E k \in 1 .. B : b[k].number = m
                              \/ m \in dro
    BY <2>1
  <2>. QED BY <1>2, <1>5, <2>4, <2>5 DEF Counted
<1>. QED BY <1>00, <1>0, <1>5, <1>8, <1>11, <1>15, <1>16

(* The buffer is replaced: what waited is dropped.                         *)
NumbersOf(b) == {b[k].number : k \in 1 .. Len(b)}

LEMMA Dropped ==
  ASSUME NEW w \in Seq(Output), NEW b \in Seq(Char), NEW fd \in AnyFd, NEW p \in Nat,
         NEW dir, NEW dro, dro \subseteq 1 .. p,
         Waiting(b, fd, p, dir, dro), Ahead(w, b, p, dir), NEW e, Len(e) = 0
  PROVE  /\ dro \cup NumbersOf(b) \subseteq 1 .. p
         /\ Ahead(w, e, p, dir)
         /\ Counted(w, b, p, dro) => Counted(w, e, p, dro \cup NumbersOf(b))
<1>1. PICK B \in Nat : B = Len(b)
  OBVIOUS
<1>2. /\ \A k \in 1 .. B : b[k].number \in 1 .. p /\ b[k].number \notin dro
      /\ \A j, k \in 1 .. B : j < k => b[j].number < b[k].number
  BY <1>1 DEF Waiting
<1>3. PICK N : N = NumbersOf(b)
  OBVIOUS
<1>4. N \subseteq 1 .. p /\ N \cap dro = {} /\ \A n : n \in N <=> \E k \in 1 .. B : b[k].number = n
  BY <1>1, <1>2, <1>3 DEF NumbersOf
<1>5. IsFiniteSet(dro) /\ IsFiniteSet(N)
  <2>1. IsFiniteSet(1 .. p)
    BY FS_Interval
  <2>. QED BY <1>4, <2>1, FS_Subset
<1>6. Cardinality(N) = B
  <2> DEFINE f == [k \in 1 .. B |-> b[k].number]
  <2>1. f \in Bijection(1 .. B, N)
    <3>1. f \in [1 .. B -> N]
      BY <1>4
    <3>2. \A j, k \in 1 .. B : f[j] = f[k] => j = k
      BY <1>2
    <3>3. \A n \in N : \E k \in 1 .. B : f[k] = n
      BY <1>4
    <3> HIDE DEF f
    <3>4. f \in Injection(1 .. B, N)
      BY <3>1, <3>2 DEF Injection, IsInjective
    <3>5. f \in Surjection(1 .. B, N)
      BY <3>1, <3>3 DEF Surjection
    <3>. QED BY <3>4, <3>5 DEF Bijection
  <2>2. IsFiniteSet(1 .. B) /\ Cardinality(1 .. B) = B
    BY FS_Interval
  <2>. QED BY <2>1, <2>2, FS_Bijection DEF ExistsBijection
<1>7. Cardinality(dro \cup N) = Cardinality(dro) + B
  <2>1. Cardinality(dro \cap N) = 0
    BY <1>4, FS_EmptySet
  <2>2. Cardinality(dro) \in Nat
    BY <1>5, FS_CardinalityType
  <2>3. Cardinality(dro \cup N) = Cardinality(dro) + Cardinality(N) - Cardinality(dro \cap N)
    BY <1>5, FS_Union
  <2>. QED BY <1>6, <2>1, <2>2, <2>3
<1>8. Ahead(w, e, p, dir)
  <2>1. 1 .. Len(e) = {}
    OBVIOUS
  <2>. QED BY <2>1 DEF Ahead
<1>9. ASSUME Counted(w, b, p, dro) PROVE Counted(w, e, p, dro \cup N)
  <2>1. \A n \in 1 .. p : \/ \E k \in 1 .. Len(w) : w[k].char.number = n
                          \/ n \in dro \cup N
    BY <1>1, <1>4, <1>9 DEF Counted
  <2>2. Len(w) + B + Cardinality(dro) = p /\ Len(w) \in Nat /\ Cardinality(dro) \in Nat
    BY <1>1, <1>5, <1>9, FS_CardinalityType DEF Counted
  <2>3. Len(w) + Len(e) + Cardinality(dro \cup N) = p
    BY <1>7, <2>2
  <2>. QED BY <2>1, <2>3 DEF Counted
<1>. QED BY <1>3, <1>4, <1>8, <1>9

-----------------------------------------------------------------------------
(* The functions on the state of the buffer.                               *)
Channels == [store : {"NULL", "heap", "frame", "gone", "stray"}, size : Nat, buffer : Seq(Char),
             fd : AnyFd, out : Seq(Output)]

Owned(s) == s.store \in {"heap", "frame"}

(* p characters have been printed, those in dir written at once; those in  *)
(* dro waited when another buffer was installed.                           *)
Sound(s, p, dir, dro) ==
  /\ s \in Channels /\ p \in Nat /\ dir \subseteq 1 .. p /\ dro \subseteq 1 .. p
  /\ Waiting(s.buffer, s.fd, p, dir, dro) /\ Ahead(s.out, s.buffer, p, dir)
  /\ s.store # "stray" => Counted(s.out, s.buffer, p, dro)
  /\ Owned(s) => Len(s.buffer) < s.size
  /\ ~Owned(s) => Len(s.buffer) = 0

(* No function but ft_buf gives the buffer a block, and a character is     *)
(* stored elsewhere only when there is none.                               *)
SameBlock(s, t) ==
  t.size = s.size /\ (t.store = s.store \/ (~Owned(s) /\ t.store = "stray"))

LEMMA ChannelParts ==
  ASSUME NEW s \in Channels
  PROVE  /\ s.store \in {"NULL", "heap", "frame", "gone", "stray"} /\ s.size \in Nat
         /\ s.buffer \in Seq(Char) /\ s.fd \in AnyFd /\ s.out \in Seq(Output)
         /\ s = [store |-> s.store, size |-> s.size, buffer |-> s.buffer, fd |-> s.fd, out |-> s.out]
         /\ Len(s.buffer) \in Nat
BY DEF Channels

LEMMA WriteIs ==
  ASSUME NEW s \in Channels, NEW b, NEW fd
  PROVE  Channel!write(s, fd, b) =
           [store |-> s.store, size |-> s.size, buffer |-> s.buffer, fd |-> s.fd,
            out |-> s.out \o Entries(b, fd)]
<1>1. Channel!write(s, fd, b) = [s EXCEPT !.out = s.out \o Entries(b, fd)]
  BY DEF Channel!write, Entries
<1>2. PICK v : v = s.out \o Entries(b, fd)
  OBVIOUS
<1>3. Channel!write(s, fd, b) = [s EXCEPT !.out = v]
  BY <1>1, <1>2
<1>4. [s EXCEPT !.out = v] = [store |-> s.store, size |-> s.size, buffer |-> s.buffer, fd |-> s.fd, out |-> v]
  BY DEF Channels
<1>. QED BY <1>2, <1>3, <1>4

LEMMA FlushIs ==
  ASSUME NEW s \in Channels
  PROVE  Channel!ft_flush_buf(s) =
           [store |-> s.store, size |-> s.size, buffer |-> << >>, fd |-> s.fd,
            out |-> s.out \o Entries(s.buffer, s.fd)]
<1>1. PICK v : v = s.out \o Entries(s.buffer, s.fd)
  OBVIOUS
<1>2. PICK x : x = Channel!write(s, s.fd, s.buffer)
  OBVIOUS
<1>3. x = [store |-> s.store, size |-> s.size, buffer |-> s.buffer, fd |-> s.fd, out |-> v]
  BY <1>1, <1>2, WriteIs
<1>4. Channel!ft_flush_buf(s) = [x EXCEPT !.buffer = << >>]
  BY <1>2 DEF Channel!ft_flush_buf
<1>5. [x EXCEPT !.buffer = << >>] =
        [store |-> s.store, size |-> s.size, buffer |-> << >>, fd |-> s.fd, out |-> v]
  BY <1>3
<1>. QED BY <1>1, <1>4, <1>5

LEMMA FlushSound ==
  ASSUME NEW s, NEW p, NEW dir, NEW dro, Sound(s, p, dir, dro)
  PROVE  /\ Sound(Channel!ft_flush_buf(s), p, dir, dro)
         /\ SameBlock(s, Channel!ft_flush_buf(s))
         /\ Channel!ft_flush_buf(s).fd = s.fd
         /\ Len(Channel!ft_flush_buf(s).buffer) = 0
<1>1. s \in Channels /\ p \in Nat
  BY DEF Sound
<1>2. PICK t : t = Channel!ft_flush_buf(s)
  OBVIOUS
<1>3. PICK e : e = << >>
  OBVIOUS
<1>4. e \in Seq(Char) /\ Len(e) = 0
  BY <1>3
<1>5. PICK v : v = s.out \o Entries(s.buffer, s.fd)
  OBVIOUS
<1>6. t = [store |-> s.store, size |-> s.size, buffer |-> e, fd |-> s.fd, out |-> v]
  BY <1>1, <1>2, <1>3, <1>5, FlushIs
<1>7. Waiting(s.buffer, s.fd, p, dir, dro) /\ Ahead(s.out, s.buffer, p, dir)
  BY DEF Sound
<1>8. /\ v \in Seq(Output) /\ Ahead(v, e, p, dir)
      /\ Counted(s.out, s.buffer, p, dro) => Counted(v, e, p, dro)
  BY <1>1, <1>4, <1>5, <1>7, ChannelParts, Flushed
<1>9. t \in Channels
  BY <1>1, <1>4, <1>6, <1>8, ChannelParts DEF Channels
<1>10. t.store = s.store /\ t.size = s.size /\ t.buffer = e /\ t.fd = s.fd /\ t.out = v
  BY <1>6
<1>11. Waiting(e, s.fd, p, dir, dro)
  <2>1. 1 .. Len(e) = {}
    BY <1>4
  <2>. QED BY <2>1 DEF Waiting
<1>12. Owned(t) => Len(e) < t.size
  BY <1>1, <1>4, <1>10, ChannelParts DEF Sound, Owned
<1>13. Sound(t, p, dir, dro)
  BY <1>1, <1>4, <1>8, <1>9, <1>10, <1>11, <1>12 DEF Sound
<1>14. SameBlock(s, t)
  BY <1>10 DEF SameBlock
<1>. QED BY <1>2, <1>4, <1>10, <1>13, <1>14

LEMMA SetfdSound ==
  ASSUME NEW s, NEW p, NEW dir, NEW dro, Sound(s, p, dir, dro), NEW fd \in AnyFd
  PROVE  /\ Sound(Channel!ft_setfd_buf(s, fd), p, dir, dro)
         /\ SameBlock(s, Channel!ft_setfd_buf(s, fd))
         /\ Channel!ft_setfd_buf(s, fd).fd = fd
<1>1. s \in Channels /\ p \in Nat
  BY DEF Sound
<1>2. CASE s.fd = fd
  <2>1. Channel!ft_setfd_buf(s, fd) = s
    BY <1>2 DEF Channel!ft_setfd_buf
  <2>. QED BY <1>2, <2>1 DEF SameBlock
<1>3. CASE s.fd # fd
  <2>1. PICK u : u = Channel!ft_flush_buf(s)
    OBVIOUS
  <2>2. Sound(u, p, dir, dro) /\ SameBlock(s, u) /\ Len(u.buffer) = 0
    BY <2>1, FlushSound
  <2>3. u \in Channels
    BY <2>2 DEF Sound
  <2>4. PICK t : t = Channel!ft_setfd_buf(s, fd)
    OBVIOUS
  <2>5. t = [store |-> u.store, size |-> u.size, buffer |-> u.buffer, fd |-> fd, out |-> u.out]
    BY <1>3, <2>1, <2>3, <2>4, ChannelParts DEF Channel!ft_setfd_buf
  <2>6. t.store = u.store /\ t.size = u.size /\ t.buffer = u.buffer /\ t.fd = fd /\ t.out = u.out
    BY <2>5
  <2>7. t \in Channels
    BY <2>3, <2>5, ChannelParts DEF Channels
  <2>8. Waiting(u.buffer, fd, p, dir, dro)
    <3>1. 1 .. Len(u.buffer) = {}
      BY <2>2
    <3>. QED BY <3>1 DEF Waiting
  <2>9. Owned(t) <=> Owned(u)
    BY <2>6 DEF Owned
  <2>10. Sound(t, p, dir, dro)
    BY <2>2, <2>6, <2>7, <2>8, <2>9 DEF Sound
  <2>11. SameBlock(s, t)
    BY <2>2, <2>6 DEF SameBlock
  <2>. QED BY <2>4, <2>6, <2>10, <2>11
<1>. QED BY <1>2, <1>3

LEMMA PutcharSound ==
  ASSUME NEW s, NEW p, NEW dir, NEW dro, Sound(s, p, dir, dro),
         NEW c \in Char, c.number = p + 1, c.fd = s.fd
  PROVE  /\ Sound(Channel!ft_putchar_buf(s, c), p + 1, dir, dro)
         /\ SameBlock(s, Channel!ft_putchar_buf(s, c))
         /\ Channel!ft_putchar_buf(s, c).fd = s.fd
<1>1. s \in Channels /\ p \in Nat /\ p + 1 \in Nat /\ dir \subseteq 1 .. p /\ dro \subseteq 1 .. p
  BY DEF Sound
<1>2. dir \subseteq 1 .. p + 1 /\ dro \subseteq 1 .. p + 1
  BY <1>1
<1>3. Waiting(s.buffer, s.fd, p, dir, dro) /\ Ahead(s.out, s.buffer, p, dir)
  BY DEF Sound
<1>4. PICK a : a = Append(s.buffer, c)
  OBVIOUS
<1>5. /\ a \in Seq(Char) /\ Len(a) = Len(s.buffer) + 1
      /\ Waiting(a, s.fd, p + 1, dir, dro) /\ Ahead(s.out, a, p + 1, dir)
      /\ Counted(s.out, s.buffer, p, dro) => Counted(s.out, a, p + 1, dro)
  BY <1>1, <1>3, <1>4, ChannelParts, Stored
<1>6. CASE ~Owned(s)
  <2>1. PICK t : t = Channel!ft_putchar_buf(s, c)
    OBVIOUS
  <2>2. t = [store |-> "stray", size |-> s.size, buffer |-> s.buffer, fd |-> s.fd, out |-> s.out]
    BY <1>1, <1>6, <2>1, ChannelParts DEF Channel!ft_putchar_buf, Owned
  <2>3. t.store = "stray" /\ t.size = s.size /\ t.buffer = s.buffer /\ t.fd = s.fd /\ t.out = s.out
    BY <2>2
  <2>4. t \in Channels
    BY <1>1, <2>2, ChannelParts DEF Channels
  <2>5. Len(s.buffer) = 0 /\ 1 .. Len(s.buffer) = {}
    <3>1. Len(s.buffer) = 0
      BY <1>6 DEF Sound
    <3>. QED BY <3>1
  <2>6. Waiting(s.buffer, s.fd, p + 1, dir, dro)
    BY <2>5 DEF Waiting
  <2>7. Ahead(s.out, s.buffer, p + 1, dir)
    <3>1. \A k \in 1 .. Len(s.out) : s.out[k].fd = s.out[k].char.fd /\ s.out[k].char.number \in 1 .. p
      BY <1>3 DEF Ahead
    <3>2. \A k \in 1 .. Len(s.out) : s.out[k].fd = s.out[k].char.fd /\ s.out[k].char.number \in 1 .. p + 1
      BY <1>1, <3>1
    <3>. QED BY <1>3, <3>2 DEF Ahead
  <2>8. ~Owned(t)
    BY <2>3 DEF Owned
  <2>9. Sound(t, p + 1, dir, dro)
    BY <1>1, <1>2, <2>3, <2>4, <2>5, <2>6, <2>7, <2>8 DEF Sound
  <2>10. SameBlock(s, t)
    BY <1>6, <2>3 DEF SameBlock
  <2>. QED BY <2>1, <2>3, <2>9, <2>10
<1>7. CASE Owned(s)
  <2>1. PICK u : u = [store |-> s.store, size |-> s.size, buffer |-> a, fd |-> s.fd, out |-> s.out]
    OBVIOUS
  <2>2. u.store = s.store /\ u.size = s.size /\ u.buffer = a /\ u.fd = s.fd /\ u.out = s.out
    BY <2>1
  <2>3. u = [s EXCEPT !.buffer = Append(@, c)]
    <3>1. [s EXCEPT !.buffer = a] = u
      BY <1>1, <2>1, ChannelParts
    <3>. QED BY <1>4, <3>1
  <2>4. Channel!ft_putchar_buf(s, c) = IF Len(u.buffer) >= u.size THEN Channel!ft_flush_buf(u) ELSE u
    BY <1>7, <2>2, <2>3 DEF Channel!ft_putchar_buf, Owned
  <2>5. u \in Channels
    BY <1>1, <1>5, <2>1, ChannelParts DEF Channels
  <2>6. s.store # "stray" /\ u.store # "stray"
    BY <1>7, <2>2 DEF Owned
  <2>7. Counted(s.out, a, p + 1, dro)
    BY <1>5, <2>6 DEF Sound
  <2>8. CASE Len(a) < s.size
    <3>1. Channel!ft_putchar_buf(s, c) = u
      <4>1. ~(Len(u.buffer) >= u.size)
        BY <1>1, <1>5, <2>2, <2>8, ChannelParts
      <4>. QED BY <2>4, <4>1
    <3>2. Owned(u)
      BY <1>7, <2>2 DEF Owned
    <3>3. Sound(u, p + 1, dir, dro)
      BY <1>1, <1>2, <1>5, <2>2, <2>5, <2>7, <2>8, <3>2 DEF Sound
    <3>4. SameBlock(s, u)
      BY <2>2 DEF SameBlock
    <3>. QED BY <2>2, <3>1, <3>3, <3>4
  <2>9. CASE ~(Len(a) < s.size)
    <3>1. PICK t : t = Channel!ft_flush_buf(u)
      OBVIOUS
    <3>2. Channel!ft_putchar_buf(s, c) = t
      <4>1. Len(u.buffer) >= u.size
        BY <1>1, <1>5, <2>2, <2>9, ChannelParts
      <4>. QED BY <2>4, <3>1, <4>1
    <3>3. PICK e : e = << >>
      OBVIOUS
    <3>4. e \in Seq(Char) /\ Len(e) = 0
      BY <3>3
    <3>5. PICK v : v = s.out \o Entries(a, s.fd)
      OBVIOUS
    <3>6. t = [store |-> s.store, size |-> s.size, buffer |-> e, fd |-> s.fd, out |-> v]
      BY <2>2, <2>5, <3>1, <3>3, <3>5, FlushIs
    <3>7. /\ v \in Seq(Output) /\ Ahead(v, e, p + 1, dir) /\ Counted(v, e, p + 1, dro)
      BY <1>1, <1>5, <2>7, <3>4, <3>5, ChannelParts, Flushed
    <3>8. t \in Channels
      BY <1>1, <3>4, <3>6, <3>7, ChannelParts DEF Channels
    <3>9. t.store = s.store /\ t.size = s.size /\ t.buffer = e /\ t.fd = s.fd /\ t.out = v
      BY <3>6
    <3>10. Waiting(e, s.fd, p + 1, dir, dro)
      <4>1. 1 .. Len(e) = {}
        BY <3>4
      <4>. QED BY <4>1 DEF Waiting
    <3>11. Len(e) < t.size
      BY <1>1, <1>7, <3>4, <3>9, ChannelParts DEF Sound
    <3>12. Sound(t, p + 1, dir, dro)
      BY <1>1, <1>2, <3>4, <3>7, <3>8, <3>9, <3>10, <3>11 DEF Sound
    <3>13. SameBlock(s, t)
      BY <3>9 DEF SameBlock
    <3>. QED BY <3>2, <3>9, <3>12, <3>13
  <2>. QED BY <2>8, <2>9
<1>. QED BY <1>6, <1>7

LEMMA SameBlockTwice ==
  ASSUME NEW s, NEW t, NEW u, SameBlock(s, t), SameBlock(t, u)
  PROVE  SameBlock(s, u)
BY DEF SameBlock, Owned

LEMMA PutstrSound ==
  ASSUME NEW s, NEW p, NEW dir, NEW dro, Sound(s, p, dir, dro),
         NEW text \in Seq(Char), Following(text, p, s.fd)
  PROVE  /\ Sound(Channel!ft_putstr_buf(s, text), p + Len(text), dir, dro)
         /\ SameBlock(s, Channel!ft_putstr_buf(s, text))
         /\ Channel!ft_putstr_buf(s, text).fd = s.fd
<1>1. PICK n \in Nat : n = Len(text)
  OBVIOUS
<1>2. PICK h : Loop(h, s, text, n) /\ Channel!ft_putstr_buf(s, text) = h[n]
  BY <1>1, PutstrIsLoop
<1>3. h[0] = s /\ \A k \in 0 .. n : k + 1 \in 0 .. n => h[k + 1] = Channel!ft_putchar_buf(h[k], text[k + 1])
  BY <1>2 DEF Loop
<1>4. p \in Nat
  BY DEF Sound
<1> DEFINE After(k) == Sound(h[k], p + k, dir, dro) /\ SameBlock(s, h[k]) /\ h[k].fd = s.fd
           T == {k \in Nat : k <= n => After(k)}
<1>5. 0 \in T
  <2>1. SameBlock(s, s) /\ p + 0 = p
    BY <1>4 DEF SameBlock
  <2>. QED BY <1>3, <2>1
<1>6. ASSUME NEW k \in Nat, k \in T PROVE k + 1 \in T
  <2> SUFFICES ASSUME k + 1 <= n PROVE After(k + 1)
    OBVIOUS
  <2>1. After(k)
    BY <1>6
  <2>2. k + 1 \in 1 .. n /\ h[k + 1] = Channel!ft_putchar_buf(h[k], text[k + 1])
    BY <1>3
  <2>3. text[k + 1] \in Char /\ text[k + 1].number = (p + k) + 1 /\ text[k + 1].fd = h[k].fd
    BY <1>1, <1>4, <2>1, <2>2 DEF Following
  <2>4. /\ Sound(h[k + 1], (p + k) + 1, dir, dro) /\ SameBlock(h[k], h[k + 1])
        /\ h[k + 1].fd = h[k].fd
    BY <2>1, <2>2, <2>3, PutcharSound
  <2>5. (p + k) + 1 = p + (k + 1)
    BY <1>4
  <2>6. SameBlock(s, h[k + 1])
    BY <2>1, <2>4, SameBlockTwice
  <2>. QED BY <2>1, <2>4, <2>5, <2>6
<1> HIDE DEF T
<1>7. n \in T
  <2>1. \A k \in Nat : k \in T
    BY <1>5, <1>6, SetInduction
  <2>. QED BY <2>1
<1>8. After(n)
  BY <1>7 DEF T
<1>. QED BY <1>1, <1>2, <1>8

LEMMA DirectSound ==
  ASSUME NEW s, NEW p, NEW dir, NEW dro, Sound(s, p, dir, dro),
         NEW fd \in AnyFd, NEW text \in Seq(Char), Following(text, p, fd)
  PROVE  /\ Sound(Channel!ft_putstr_fd(s, text, fd), p + Len(text), Also(dir, p, Len(text)), dro)
         /\ SameBlock(s, Channel!ft_putstr_fd(s, text, fd))
         /\ Channel!ft_putstr_fd(s, text, fd).fd = s.fd
<1>1. s \in Channels /\ p \in Nat /\ dir \subseteq 1 .. p /\ dro \subseteq 1 .. p
  BY DEF Sound
<1>2. Waiting(s.buffer, s.fd, p, dir, dro) /\ Ahead(s.out, s.buffer, p, dir)
  BY DEF Sound
<1>3. PICK n \in Nat : n = Len(text)
  OBVIOUS
<1>4. PICK v : v = s.out \o Entries(text, fd)
  OBVIOUS
<1>5. /\ v \in Seq(Output) /\ Also(dir, p, n) \subseteq 1 .. p + n
      /\ Waiting(s.buffer, s.fd, p + n, Also(dir, p, n), dro)
      /\ Ahead(v, s.buffer, p + n, Also(dir, p, n))
      /\ Counted(s.out, s.buffer, p, dro) => Counted(v, s.buffer, p + n, dro)
  BY <1>1, <1>2, <1>3, <1>4, ChannelParts, WrittenAtOnce
<1>6. PICK t : t = Channel!ft_putstr_fd(s, text, fd)
  OBVIOUS
<1>7. t = [store |-> s.store, size |-> s.size, buffer |-> s.buffer, fd |-> s.fd, out |-> v]
  BY <1>1, <1>4, <1>6, WriteIs DEF Channel!ft_putstr_fd
<1>8. t.store = s.store /\ t.size = s.size /\ t.buffer = s.buffer /\ t.fd = s.fd /\ t.out = v
  BY <1>7
<1>9. t \in Channels
  BY <1>1, <1>5, <1>7, ChannelParts DEF Channels
<1>10. p + n \in Nat /\ dro \subseteq 1 .. p + n
  BY <1>1
<1>11. Owned(t) <=> Owned(s)
  BY <1>8 DEF Owned
<1>12. Sound(t, p + n, Also(dir, p, n), dro)
  BY <1>5, <1>8, <1>9, <1>10, <1>11 DEF Sound
<1>13. SameBlock(s, t)
  BY <1>8 DEF SameBlock
<1>. QED BY <1>3, <1>6, <1>8, <1>12, <1>13

(* The loop of the reports, with one write for every piece.                *)
Writes(h, s, text, n) ==
  h = [k \in 0 .. n |-> IF k = 0 THEN s ELSE Channel!ft_putstr_fd(h[k - 1], <<text[k]>>, 2)]

LEMMA WritesDefined ==
  ASSUME NEW s, NEW text
  PROVE  \A n \in Nat : \E h : Writes(h, s, text, n)
<1> DEFINE T == {n \in Nat : \E h : Writes(h, s, text, n)}
<1>1. 0 \in T
  <2>1. Writes([k \in 0 .. 0 |-> s], s, text, 0)
    BY DEF Writes
  <2>. QED BY <2>1
<1>2. ASSUME NEW n \in Nat, n \in T PROVE n + 1 \in T
  <2>1. PICK f : Writes(f, s, text, n)
    BY <1>2
  <2> DEFINE g == [k \in 0 .. n + 1 |-> IF k <= n THEN f[k] ELSE Channel!ft_putstr_fd(f[n], <<text[n + 1]>>, 2)]
  <2>2. \A k \in 0 .. n + 1 : g[k] = IF k = 0 THEN s ELSE Channel!ft_putstr_fd(g[k - 1], <<text[k]>>, 2)
    <3> TAKE k \in 0 .. n + 1
    <3>1. CASE k = n + 1
      BY <3>1
    <3>2. CASE k <= n /\ k # 0
      <4>1. g[k] = f[k] /\ g[k - 1] = f[k - 1] /\ k \in 0 .. n
        BY <3>2
      <4>2. f[k] = Channel!ft_putstr_fd(f[k - 1], <<text[k]>>, 2)
        BY <2>1, <3>2, <4>1 DEF Writes
      <4>. QED BY <4>1, <4>2, <3>2
    <3>3. CASE k = 0
      BY <2>1, <3>3 DEF Writes
    <3>. QED BY <3>1, <3>2, <3>3
  <2>3. Writes(g, s, text, n + 1)
    BY <2>2 DEF Writes
  <2> HIDE DEF g
  <2>. QED BY <2>3
<1> HIDE DEF T
<1>3. \A n \in Nat : n \in T
  BY <1>1, <1>2, SetInduction
<1>. QED BY <1>3 DEF T

LEMMA ReportIsLoop ==
  ASSUME NEW s, NEW C, NEW text \in Seq(C)
  PROVE  \E h : Writes(h, s, text, Len(text)) /\ Channel!Report(s, text) = h[Len(text)]
<1>1. \E h : Writes(h, s, text, Len(text))
  <2>1. Len(text) \in Nat
    OBVIOUS
  <2>2. \A n \in Nat : \E h : Writes(h, s, text, n)
    BY WritesDefined
  <2>. QED BY <2>1, <2>2
<1>2. PICK put : put = CHOOSE h : Writes(h, s, text, Len(text))
  OBVIOUS
<1>3. Writes(put, s, text, Len(text))
  BY <1>1, <1>2
<1>4. Channel!Report(s, text) = put[Len(text)]
  BY <1>2 DEF Channel!Report, Writes
<1>. QED BY <1>3, <1>4

LEMMA ReportSound ==
  ASSUME NEW s, NEW p, NEW dir, NEW dro, Sound(s, p, dir, dro),
         NEW text \in Seq(Char), Following(text, p, 2)
  PROVE  /\ Sound(Channel!Report(s, text), p + Len(text), Also(dir, p, Len(text)), dro)
         /\ SameBlock(s, Channel!Report(s, text))
<1>1. PICK n \in Nat : n = Len(text)
  OBVIOUS
<1>2. PICK h : Writes(h, s, text, n) /\ Channel!Report(s, text) = h[n]
  BY <1>1, ReportIsLoop
<1>3. h[0] = s /\ \A k \in 0 .. n : k + 1 \in 0 .. n => h[k + 1] = Channel!ft_putstr_fd(h[k], <<text[k + 1]>>, 2)
  BY <1>2 DEF Writes
<1>4. p \in Nat /\ dir \subseteq 1 .. p
  BY DEF Sound
<1> DEFINE After(k) == Sound(h[k], p + k, Also(dir, p, k), dro) /\ SameBlock(s, h[k])
           T == {k \in Nat : k <= n => After(k)}
<1>5. 0 \in T
  <2>1. SameBlock(s, s) /\ p + 0 = p
    BY <1>4 DEF SameBlock
  <2>2. Also(dir, p, 0) = dir
    BY <1>4 DEF Also
  <2>. QED BY <1>3, <2>1, <2>2
<1>6. ASSUME NEW k \in Nat, k \in T PROVE k + 1 \in T
  <2> SUFFICES ASSUME k + 1 <= n PROVE After(k + 1)
    OBVIOUS
  <2>1. After(k)
    BY <1>6
  <2>2. PICK c : c = text[k + 1]
    OBVIOUS
  <2>3. k + 1 \in 1 .. n /\ h[k + 1] = Channel!ft_putstr_fd(h[k], <<c>>, 2)
    BY <1>3, <2>2
  <2>4. c \in Char /\ c.number = p + (k + 1) /\ c.fd = 2
    BY <1>1, <1>4, <2>2, <2>3 DEF Following
  <2>5. <<c>> \in Seq(Char) /\ Len(<<c>>) = 1 /\ Following(<<c>>, p + k, 2)
    BY <1>4, <2>4 DEF Following
  <2>6. 2 \in AnyFd
    BY DEF AnyFd
  <2>7. /\ Sound(h[k + 1], (p + k) + 1, Also(Also(dir, p, k), p + k, 1), dro)
        /\ SameBlock(h[k], h[k + 1])
    BY <2>1, <2>3, <2>5, <2>6, DirectSound
  <2>8. (p + k) + 1 = p + (k + 1)
    BY <1>4
  <2>9. Also(Also(dir, p, k), p + k, 1) = Also(dir, p, k + 1)
    BY <1>4 DEF Also
  <2>10. SameBlock(s, h[k + 1])
    BY <2>1, <2>7, SameBlockTwice
  <2>. QED BY <2>7, <2>8, <2>9, <2>10
<1> HIDE DEF T
<1>7. n \in T
  <2>1. \A k \in Nat : k \in T
    BY <1>5, <1>6, SetInduction
  <2>. QED BY <2>1
<1>8. After(n)
  BY <1>7 DEF T
<1>. QED BY <1>1, <1>2, <1>8

LEMMA PrintIndSound ==
  ASSUME NEW s, NEW p, NEW dir, NEW dro, Sound(s, p, dir, dro), s.store # "stray",
         NEW text \in Seq(Char), Following(text, p, 1)
  PROVE  /\ Sound(Channel!print_ind(s, text), p + Len(text), dir, dro \cup NumbersOf(s.buffer))
         /\ Channel!print_ind(s, text).store = "gone"
<1>1. s \in Channels /\ p \in Nat /\ dir \subseteq 1 .. p /\ dro \subseteq 1 .. p
  BY DEF Sound
<1>2. Waiting(s.buffer, s.fd, p, dir, dro) /\ Ahead(s.out, s.buffer, p, dir)
  BY DEF Sound
<1>3. PICK e : e = << >>
  OBVIOUS
<1>4. e \in Seq(Char) /\ Len(e) = 0 /\ 1 .. Len(e) = {}
  BY <1>3
<1>5. PICK u : u = Channel!ft_buf(s, "frame", IndSize, 1)
  OBVIOUS
<1>6. u = [store |-> "frame", size |-> IndSize, buffer |-> e, fd |-> 1, out |-> s.out]
  BY <1>1, <1>3, <1>5 DEF Channel!ft_buf, Channels
<1>7. u.store = "frame" /\ u.size = IndSize /\ u.buffer = e /\ u.fd = 1 /\ u.out = s.out
  BY <1>6
<1>8. u \in Channels
  <2>1. 1 \in AnyFd
    BY DEF AnyFd
  <2>. QED BY <1>1, <1>4, <1>6, <2>1, BufferAssumption, ChannelParts DEF Channels
<1>9. PICK all : all = dro \cup NumbersOf(s.buffer)
  OBVIOUS
<1>10. /\ all \subseteq 1 .. p /\ Ahead(s.out, e, p, dir)
       /\ Counted(s.out, s.buffer, p, dro) => Counted(s.out, e, p, all)
  <2>1. s.out \in Seq(Output) /\ s.buffer \in Seq(Char) /\ s.fd \in AnyFd
    BY <1>1, ChannelParts
  <2>2. /\ dro \cup NumbersOf(s.buffer) \subseteq 1 .. p /\ Ahead(s.out, e, p, dir)
        /\ Counted(s.out, s.buffer, p, dro) => Counted(s.out, e, p, dro \cup NumbersOf(s.buffer))
    BY <1>1, <1>2, <1>4, <2>1, Dropped
  <2>. QED BY <1>9, <2>2
<1>11. Sound(u, p, dir, all) /\ Owned(u)
  <2>1. Waiting(e, 1, p, dir, all)
    BY <1>4 DEF Waiting
  <2>2. Owned(u) /\ Len(e) < u.size
    BY <1>4, <1>7, BufferAssumption DEF Owned
  <2>3. s.store # "stray" => Counted(s.out, e, p, all)
    BY <1>10 DEF Sound
  <2>. QED BY <1>1, <1>7, <1>8, <1>10, <2>1, <2>2, <2>3 DEF Sound
<1>12. PICK t : t = Channel!ft_putstr_buf(u, text)
  OBVIOUS
<1>13. Sound(t, p + Len(text), dir, all) /\ SameBlock(u, t)
  BY <1>7, <1>11, <1>12, PutstrSound
<1>14. PICK x : x = Channel!ft_flush_buf(t)
  OBVIOUS
<1>15. Sound(x, p + Len(text), dir, all) /\ SameBlock(t, x) /\ Len(x.buffer) = 0
  BY <1>13, <1>14, FlushSound
<1>16. x \in Channels /\ x.store # "stray"
  <2>1. SameBlock(u, x)
    BY <1>13, <1>15, SameBlockTwice
  <2>. QED BY <1>7, <1>11, <1>15, <2>1 DEF SameBlock, Sound
<1>17. PICK y : y = Channel!print_ind(s, text)
  OBVIOUS
<1>18. y = [x EXCEPT !.store = "gone"]
  BY <1>5, <1>12, <1>14, <1>17 DEF Channel!print_ind
<1>19. y = [store |-> "gone", size |-> x.size, buffer |-> x.buffer, fd |-> x.fd, out |-> x.out]
  BY <1>16, <1>18 DEF Channels
<1>20. y.store = "gone" /\ y.size = x.size /\ y.buffer = x.buffer /\ y.fd = x.fd /\ y.out = x.out
  BY <1>19
<1>21. y \in Channels
  BY <1>16, <1>19, ChannelParts DEF Channels
<1>22. ~Owned(y)
  BY <1>20 DEF Owned
<1>23. Sound(y, p + Len(text), dir, all)
  BY <1>15, <1>16, <1>20, <1>21, <1>22 DEF Sound
<1>. QED BY <1>9, <1>17, <1>20, <1>23
-----------------------------------------------------------------------------
(* The invariant: the state of the buffer is sound, and it is without a    *)
(* block of its own only when there is an excuse.                          *)
OutputInv ==
  part = "output" =>
    /\ Sound(st, printed, direct, dropped)
    /\ st.store \in {"NULL", "gone", "stray"} => excuse
    /\ st.store = "heap" => st.size = BufSize

LEMMA InitOutput == LibftInit => OutputInv
<1> SUFFICES ASSUME LibftInit, part = "output" PROVE OutputInv
  BY DEF OutputInv
<1>1. Channel!Init
  BY DEF LibftInit
<1>2. PICK malloc_works \in BOOLEAN : st = Channel!Installed(malloc_works) /\ excuse = ~malloc_works
  BY <1>1 DEF Channel!Init
<1>3. printed = 0 /\ direct = {} /\ dropped = {}
  BY <1>1 DEF Channel!Init
<1>4. PICK e : e = << >>
  OBVIOUS
<1>5. e \in Seq(Char) /\ e \in Seq(Output) /\ Len(e) = 0 /\ 1 .. Len(e) = {}
  BY <1>4
<1>6. \E size \in Nat, fd \in AnyFd, store \in {"heap", "NULL"} :
        /\ st = [store |-> store, size |-> size, buffer |-> e, fd |-> fd, out |-> e]
        /\ store = "heap" => size = BufSize
        /\ store = "NULL" => excuse
  <2>1. 0 \in AnyFd /\ 1 \in AnyFd
    BY DEF AnyFd
  <2>2. CASE malloc_works
    <3>1. st = [store |-> "heap", size |-> BufSize, buffer |-> e, fd |-> 1, out |-> e]
      BY <1>2, <1>4, <2>2 DEF Channel!Installed, Channel!ft_buf, Channel!Start
    <3>. QED BY <2>1, <3>1, BufferAssumption
  <2>3. CASE ~malloc_works
    <3>1. st = [store |-> "NULL", size |-> 0, buffer |-> e, fd |-> 0, out |-> e] /\ excuse
      BY <1>2, <1>4, <2>3 DEF Channel!Installed, Channel!Start
    <3>. QED BY <2>1, <3>1
  <2>. QED BY <2>2, <2>3
<1>7. PICK size \in Nat, fd \in AnyFd, store \in {"heap", "NULL"} :
        /\ st = [store |-> store, size |-> size, buffer |-> e, fd |-> fd, out |-> e]
        /\ store = "heap" => size = BufSize
        /\ store = "NULL" => excuse
  BY <1>6
<1>8. st.store = store /\ st.size = size /\ st.buffer = e /\ st.fd = fd /\ st.out = e
  BY <1>7
<1>9. st \in Channels
  BY <1>5, <1>7 DEF Channels
<1>10. Waiting(e, fd, 0, {}, {}) /\ Ahead(e, e, 0, {})
  BY <1>5 DEF Waiting, Ahead
<1>11. Counted(e, e, 0, {})
  <2>1. Cardinality({}) = 0
    BY FS_EmptySet
  <2>2. Len(e) + Len(e) + Cardinality({}) = 0
    BY <1>5, <2>1
  <2>3. 1 .. 0 = {}
    OBVIOUS
  <2>. QED BY <2>2, <2>3 DEF Counted
<1>12. Owned(st) => Len(e) < size
  BY <1>5, <1>7, <1>8, BufferAssumption DEF Owned
<1>13. Sound(st, printed, direct, dropped)
  BY <1>3, <1>5, <1>8, <1>9, <1>10, <1>11, <1>12 DEF Sound
<1>. QED BY <1>7, <1>8, <1>13 DEF OutputInv

(* The texts that are printed.                                             *)
LEMMA TextIs ==
  ASSUME printed \in Nat, NEW n \in Nat, NEW fd \in AnyFd
  PROVE  /\ Channel!Text(n, fd) \in Seq(Char) /\ Len(Channel!Text(n, fd)) = n
         /\ Following(Channel!Text(n, fd), printed, fd)
<1>1. PICK x : x = Channel!Text(n, fd)
  OBVIOUS
<1>2. x = [k \in 1 .. n |-> [number |-> printed + k, fd |-> fd]]
  BY <1>1 DEF Channel!Text
<1>3. \A k \in 1 .. n : [number |-> printed + k, fd |-> fd] \in Char
  BY DEF Char
<1>4. x \in [1 .. n -> Char]
  BY <1>2, <1>3
<1>5. x \in Seq(Char) /\ Len(x) = n
  BY <1>4
<1>6. Following(x, printed, fd)
  BY <1>2, <1>5 DEF Following
<1>. QED BY <1>1, <1>5, <1>6

LEMMA ReversedTwice ==
  ASSUME NEW x \in Seq(Char)
  PROVE  Channel!Reverse(Channel!Reverse(x)) = x
<1>1. PICK n \in Nat : n = Len(x)
  OBVIOUS
<1>2. x \in [1 .. n -> Char]
  BY <1>1
<1>3. PICK y : y = Channel!Reverse(x)
  OBVIOUS
<1>4. y = [k \in 1 .. n |-> x[(n - k) + 1]]
  BY <1>1, <1>3 DEF Channel!Reverse
<1>5. y \in [1 .. n -> Char]
  BY <1>2, <1>4
<1>6. Len(y) = n
  BY <1>5
<1>7. Channel!Reverse(y) = [k \in 1 .. n |-> y[(n - k) + 1]]
  BY <1>6 DEF Channel!Reverse
<1>8. \A k \in 1 .. n : y[(n - k) + 1] = x[k]
  BY <1>4
<1>9. Channel!Reverse(y) = x
  BY <1>2, <1>7, <1>8
<1>. QED BY <1>3, <1>9

(* A call that keeps the buffer sound and in its block keeps the           *)
(* invariant.                                                              *)
LEMMA KeepsOutputInv ==
  ASSUME OutputInv, part = "output", SameBlock(st, st'), excuse' = excuse,
         Sound(st', printed', direct', dropped')
  PROVE  OutputInv'
<1>1. Sound(st, printed, direct, dropped)
  BY DEF OutputInv
<1>2. st.store \in {"NULL", "gone", "stray"} \/ Owned(st)
  BY <1>1 DEF Sound, Channels, Owned
<1>3. st'.store \in {"NULL", "gone", "stray"} => excuse'
  BY <1>2 DEF OutputInv, SameBlock, Owned
<1>4. st'.store = "heap" => st'.size = BufSize
  BY DEF OutputInv, SameBlock
<1>. QED BY <1>3, <1>4 DEF OutputInv

LEMMA OutputStep ==
  ASSUME OutputInv, part = "output", Channel!Next PROVE OutputInv'
<1>1. Sound(st, printed, direct, dropped) /\ printed \in Nat /\ st.fd \in AnyFd
  <2>1. Sound(st, printed, direct, dropped)
    BY DEF OutputInv
  <2>. QED BY <2>1 DEF Sound, Channels
<1>2. ASSUME NEW n \in 1 .. 3, Channel!Put(n) PROVE OutputInv'
  <2>1. PICK text : text = Channel!Text(n, st.fd)
    OBVIOUS
  <2>2. text \in Seq(Char) /\ Len(text) = n /\ Following(text, printed, st.fd)
    BY <1>1, <2>1, TextIs
  <2>3. st' = Channel!ft_putstr_buf(st, text) /\ printed' = printed + n
    BY <1>2, <2>1 DEF Channel!Put, Channel!Prints
  <2>4. direct' = direct /\ dropped' = dropped /\ excuse' = excuse
    BY <1>2 DEF Channel!Put
  <2>5. Sound(st', printed', direct', dropped') /\ SameBlock(st, st')
    BY <1>1, <2>2, <2>3, <2>4, PutstrSound
  <2>. QED BY <2>4, <2>5, KeepsOutputInv
<1>3. ASSUME NEW n \in 1 .. 3, Channel!PutReversed(n) PROVE OutputInv'
  <2>1. PICK text : text = Channel!Text(n, st.fd)
    OBVIOUS
  <2>2. text \in Seq(Char) /\ Len(text) = n /\ Following(text, printed, st.fd)
    BY <1>1, <2>1, TextIs
  <2>3. st' = Channel!ft_putstr_buf(st, text) /\ printed' = printed + n
    BY <1>3, <2>1, <2>2, ReversedTwice DEF Channel!PutReversed, Channel!Prints, Channel!ft_putrstr_buf
  <2>4. direct' = direct /\ dropped' = dropped /\ excuse' = excuse
    BY <1>3 DEF Channel!PutReversed
  <2>5. Sound(st', printed', direct', dropped') /\ SameBlock(st, st')
    BY <1>1, <2>2, <2>3, <2>4, PutstrSound
  <2>. QED BY <2>4, <2>5, KeepsOutputInv
<1>4. ASSUME NEW n \in 1 .. 3, NEW fd \in Fds, Channel!PutDirect(n, fd) PROVE OutputInv'
  <2>1. PICK text : text = Channel!Text(n, fd)
    OBVIOUS
  <2>2. fd \in AnyFd
    BY DEF AnyFd
  <2>3. text \in Seq(Char) /\ Len(text) = n /\ Following(text, printed, fd)
    BY <1>1, <2>1, <2>2, TextIs
  <2>4. /\ st' = Channel!ft_putstr_fd(st, text, fd) /\ printed' = printed + n
        /\ dropped' = dropped /\ excuse' = excuse
    BY <1>4, <2>1 DEF Channel!PutDirect, Channel!Prints
  <2>5. direct' = Also(direct, printed, n)
    <3>1. direct' = direct \cup {printed + k : k \in 1 .. n}
      BY <1>4 DEF Channel!PutDirect
    <3>2. {printed + k : k \in 1 .. n} = printed + 1 .. printed + n
      BY <1>1
    <3>. QED BY <3>1, <3>2 DEF Also
  <2>6. Sound(st', printed', direct', dropped') /\ SameBlock(st, st')
    BY <1>1, <2>2, <2>3, <2>4, <2>5, DirectSound
  <2>. QED BY <2>4, <2>6, KeepsOutputInv
<1>5. ASSUME NEW n \in 1 .. 3, Channel!PrintInd(n) PROVE OutputInv'
  <2>1. PICK text : text = Channel!Text(n, 1)
    OBVIOUS
  <2>2. 1 \in AnyFd
    BY DEF AnyFd
  <2>3. text \in Seq(Char) /\ Len(text) = n /\ Following(text, printed, 1)
    BY <1>1, <2>1, <2>2, TextIs
  <2>4. /\ st.store # "stray" /\ st' = Channel!print_ind(st, text) /\ printed' = printed + n
        /\ direct' = direct /\ excuse' = TRUE
    BY <1>5, <2>1 DEF Channel!PrintInd, Channel!Prints
  <2>5. dropped' = dropped \cup NumbersOf(st.buffer)
    <3>1. dropped' = dropped \cup {c.number : c \in Channel!ToSet(st.buffer)}
      BY <1>5 DEF Channel!PrintInd
    <3>2. Channel!ToSet(st.buffer) = {st.buffer[k] : k \in 1 .. Len(st.buffer)}
      <4>1. PICK b : b = st.buffer
        OBVIOUS
      <4>2. b \in Seq(Char)
        BY <1>1, <4>1, ChannelParts DEF Sound
      <4>3. Channel!ToSet(b) = {b[k] : k \in 1 .. Len(b)}
        BY <4>2 DEF Channel!ToSet
      <4>. QED BY <4>1, <4>3
    <3>3. {c.number : c \in Channel!ToSet(st.buffer)} = NumbersOf(st.buffer)
      BY <3>2 DEF NumbersOf
    <3>. QED BY <3>1, <3>3
  <2>6. Sound(st', printed', direct', dropped') /\ st'.store = "gone"
    BY <1>1, <2>3, <2>4, <2>5, PrintIndSound
  <2>. QED BY <2>4, <2>6 DEF OutputInv
<1>6. ASSUME NEW named \in BOOLEAN, NEW inFile \in BOOLEAN, Channel!PerrorBuf(named, inFile) PROVE OutputInv'
  <2>1. PICK n \in Nat : n = Channel!Message(named, inFile)
    BY DEF Channel!Message
  <2>2. PICK text : text = Channel!Text(n, 2)
    OBVIOUS
  <2>3. 1 \in AnyFd /\ 2 \in AnyFd
    BY DEF AnyFd
  <2>4. text \in Seq(Char) /\ Len(text) = n /\ Following(text, printed, 2)
    BY <1>1, <2>2, <2>3, TextIs
  <2>5. /\ st' = Channel!Report_buf(st, text) /\ printed' = printed + n
        /\ direct' = direct /\ dropped' = dropped /\ excuse' = excuse
    BY <1>6, <2>1, <2>2 DEF Channel!PerrorBuf, Channel!Prints
  <2>6. PICK s1 : s1 = Channel!ft_flush_buf(st)
    OBVIOUS
  <2>7. Sound(s1, printed, direct, dropped) /\ SameBlock(st, s1)
    BY <1>1, <2>6, FlushSound
  <2>8. PICK s2 : s2 = Channel!ft_setfd_buf(s1, 2)
    OBVIOUS
  <2>9. Sound(s2, printed, direct, dropped) /\ SameBlock(s1, s2) /\ s2.fd = 2
    BY <2>3, <2>7, <2>8, SetfdSound
  <2>10. PICK s3 : s3 = Channel!ft_putstr_buf(s2, text)
    OBVIOUS
  <2>11. Sound(s3, printed + n, direct, dropped) /\ SameBlock(s2, s3)
    BY <2>4, <2>9, <2>10, PutstrSound
  <2>12. PICK s4 : s4 = Channel!ft_flush_buf(s3)
    OBVIOUS
  <2>13. Sound(s4, printed + n, direct, dropped) /\ SameBlock(s3, s4)
    BY <2>11, <2>12, FlushSound
  <2>14. st' = Channel!ft_setfd_buf(s4, 1)
    BY <2>5, <2>6, <2>8, <2>10, <2>12 DEF Channel!Report_buf
  <2>15. Sound(st', printed + n, direct, dropped) /\ SameBlock(s4, st')
    BY <2>3, <2>13, <2>14, SetfdSound
  <2>16. SameBlock(st, s2) /\ SameBlock(s2, s4)
    BY <2>7, <2>9, <2>11, <2>13, SameBlockTwice
  <2>17. SameBlock(st, s4)
    BY <2>16, SameBlockTwice
  <2>18. SameBlock(st, st')
    BY <2>15, <2>17, SameBlockTwice
  <2>. QED BY <2>5, <2>15, <2>18, KeepsOutputInv
<1>7. ASSUME NEW named \in BOOLEAN, NEW inFile \in BOOLEAN, Channel!Perror(named, inFile) PROVE OutputInv'
  <2>1. PICK n \in Nat : n = Channel!Message(named, inFile)
    BY DEF Channel!Message
  <2>2. PICK text : text = Channel!Text(n, 2)
    OBVIOUS
  <2>3. 2 \in AnyFd
    BY DEF AnyFd
  <2>4. text \in Seq(Char) /\ Len(text) = n /\ Following(text, printed, 2)
    BY <1>1, <2>2, <2>3, TextIs
  <2>5. /\ st' = Channel!Report(st, text) /\ printed' = printed + n
        /\ dropped' = dropped /\ excuse' = excuse
    BY <1>7, <2>1, <2>2 DEF Channel!Perror, Channel!Prints
  <2>6. direct' = Also(direct, printed, n)
    <3>1. direct' = direct \cup {printed + k : k \in 1 .. n}
      BY <1>7, <2>1 DEF Channel!Perror
    <3>2. {printed + k : k \in 1 .. n} = printed + 1 .. printed + n
      BY <1>1
    <3>. QED BY <3>1, <3>2 DEF Also
  <2>7. Sound(st', printed', direct', dropped') /\ SameBlock(st, st')
    BY <1>1, <2>4, <2>5, <2>6, ReportSound
  <2>. QED BY <2>5, <2>7, KeepsOutputInv
<1>8. ASSUME NEW fd \in Fds, Channel!Reset(fd) PROVE OutputInv'
  <2>1. fd \in AnyFd
    BY DEF AnyFd
  <2>2. printed' = printed /\ direct' = direct /\ dropped' = dropped /\ excuse' = excuse
    BY <1>8 DEF Channel!Reset
  <2>3. CASE st' = Channel!ft_setfd_buf(st, fd)
    <3>1. Sound(st', printed', direct', dropped') /\ SameBlock(st, st')
      BY <1>1, <2>1, <2>2, <2>3, SetfdSound
    <3>. QED BY <2>2, <3>1, KeepsOutputInv
  <2>4. CASE st' = Channel!ft_reset_buf(st, fd)
    <3>1. PICK s1 : s1 = Channel!ft_flush_buf(st)
      OBVIOUS
    <3>2. Sound(s1, printed, direct, dropped) /\ SameBlock(st, s1)
      BY <1>1, <3>1, FlushSound
    <3>3. st' = Channel!ft_setfd_buf(s1, fd)
      BY <2>4, <3>1 DEF Channel!ft_reset_buf
    <3>4. Sound(st', printed', direct', dropped') /\ SameBlock(s1, st')
      BY <2>1, <2>2, <3>2, <3>3, SetfdSound
    <3>5. SameBlock(st, st')
      BY <3>2, <3>4, SameBlockTwice
    <3>. QED BY <2>2, <3>4, <3>5, KeepsOutputInv
  <2>. QED BY <1>8, <2>3, <2>4 DEF Channel!Reset
<1>. QED BY <1>2, <1>3, <1>4, <1>5, <1>6, <1>7, <1>8 DEF Channel!Next

LEMMA OutputIsInvariant == LibftSpec => []OutputInv
<1>1. OutputInv /\ UNCHANGED allvars => OutputInv'
  BY DEF OutputInv, allvars, output
<1>2. ASSUME OutputInv, LibftNext PROVE OutputInv'
  <2>1. CASE Only("output") /\ Channel!Next
    <3>1. part = "output"
      BY <2>1 DEF Only
    <3>. QED BY <1>2, <2>1, <3>1, OutputStep
  <2>2. CASE part' # "output"
    BY <2>2 DEF OutputInv
  <2>3. part' # "output" \/ (Only("output") /\ Channel!Next)
    BY <1>2 DEF LibftNext, Only
  <2>. QED BY <2>1, <2>2, <2>3
<1>3. OutputInv /\ [LibftNext]_allvars => OutputInv'
  BY <1>1, <1>2
<1>. QED BY <1>3, InitOutput, PTL DEF LibftSpec

(* Whatever calls are mixed, for a buffer of every size and any number of  *)
(* characters: each is written once, where it should, in storage the       *)
(* program owns, and only one written at once overtakes (the ft_put        *)
(* functions, the reports, ft_reset_buf, print_ind).                       *)
THEOREM OutputOrdered == LibftSpec => []OutputInOrder
<1>1. ASSUME OutputInv, part = "output" PROVE Channel!OutputInOrder
  <2>1. Sound(st, printed, direct, dropped)
    BY <1>1 DEF OutputInv
  <2>2. st \in Channels /\ printed \in Nat /\ direct \subseteq 1 .. printed /\ dropped \subseteq 1 .. printed
    BY <2>1 DEF Sound
  <2>3. PICK w \in Seq(Output), b \in Seq(Char) : w = st.out /\ b = st.buffer
    BY <2>2, ChannelParts
  <2>4. Waiting(b, st.fd, printed, direct, dropped) /\ Ahead(w, b, printed, direct)
    BY <2>1, <2>3 DEF Sound
  <2>5. PICK x : x = Channel!Written
    OBVIOUS
  <2>6. DOMAIN x = 1 .. Len(w) /\ Len(x) = Len(w) /\ \A k \in 1 .. Len(w) : x[k] = w[k].char.number
    BY <2>3, <2>5 DEF Channel!Written
  <2>7. Channel!StoredInOwnBlock
    <3>1. st.store \in Channel!Stores
      BY <2>2, ChannelParts DEF Channel!Stores
    <3>2. st.store = "heap" => Len(st.buffer) < BufSize
      BY <1>1, <2>1 DEF OutputInv, Sound, Owned
    <3>. QED BY <1>1, <3>1, <3>2 DEF Channel!StoredInOwnBlock, OutputInv
  <2>8. Channel!OnlyDirectOvertakes
    <3>1. \A j, k \in DOMAIN x : j < k /\ x[j] > x[k] => x[j] \in direct /\ x[k] \notin direct
      BY <2>4, <2>6 DEF Ahead
    <3>. QED BY <2>5, <3>1 DEF Channel!OnlyDirectOvertakes
  <2>9. Channel!AllWritten
    <3> SUFFICES ASSUME st.store # "stray"
                 PROVE  /\ 1 .. printed = Channel!ToSet(Channel!Written)
                                          \cup {c.number : c \in Channel!ToSet(st.buffer)} \cup dropped
                        /\ Len(Channel!Written) + Len(st.buffer) + Cardinality(dropped) = printed
      <4>1. Channel!Cardinality(dropped) = Cardinality(dropped)
        BY DEF Channel!Cardinality, Cardinality
      <4>. QED BY <4>1 DEF Channel!AllWritten
    <3>1. Counted(w, b, printed, dropped)
      BY <2>1, <2>3 DEF Sound
    <3>2. Channel!ToSet(x) = {w[k].char.number : k \in 1 .. Len(w)}
      BY <2>6 DEF Channel!ToSet
    <3>3. {c.number : c \in Channel!ToSet(b)} = {b[k].number : k \in 1 .. Len(b)}
      BY DEF Channel!ToSet
    <3>4. \A k \in 1 .. Len(w) : w[k].char.number \in 1 .. printed
      BY <2>4 DEF Ahead
    <3>5. \A k \in 1 .. Len(b) : b[k].number \in 1 .. printed
      BY <2>4 DEF Waiting
    <3>6. 1 .. printed = Channel!ToSet(x) \cup {c.number : c \in Channel!ToSet(b)} \cup dropped
      BY <2>2, <3>1, <3>2, <3>3, <3>4, <3>5 DEF Counted
    <3>7. Len(x) + Len(b) + Cardinality(dropped) = printed
      BY <2>6, <3>1 DEF Counted
    <3>. QED BY <2>3, <2>5, <3>6, <3>7
  <2>10. Channel!NeverMisdirected
    <3>1. \A k \in DOMAIN w : w[k].fd = w[k].char.fd
      BY <2>4 DEF Ahead
    <3>. QED BY <2>3, <3>1 DEF Channel!NeverMisdirected
  <2>. QED BY <2>7, <2>8, <2>9, <2>10 DEF Channel!OutputInOrder
<1>2. OutputInv => OutputInOrder
  BY <1>1 DEF OutputInOrder
<1>. QED BY <1>2, OutputIsInvariant, PTL
-----------------------------------------------------------------------------
(* The lists.  q holds the nodes of each of them, in their order: those of *)
(* the program's pointers, and those of the call in progress ("open"): the *)
(* copy under construction, whose last node may hold anything, or what is  *)
(* left of the list being deleted.                                         *)
Kept == {"list", "copy", "fresh"}
Kind == Kept \cup {"open"}

Chained(h, q) ==
  /\ q \in [Kind -> Seq(Node)] /\ DOMAIN h \subseteq Node
  /\ \A l \in Kind : \A k \in 1 .. Len(q[l]) : q[l][k] \in DOMAIN h
  /\ \A l \in Kind : \A k \in 1 .. Len(q[l]) - 1 : h[q[l][k]].next = q[l][k + 1]
  /\ \A l \in Kept : Len(q[l]) > 0 => h[q[l][Len(q[l])]].next = NULL

(* No node is in two lists, or twice in one.                               *)
Apart(q) ==
  \A l, m \in Kind : \A j \in 1 .. Len(q[l]), k \in 1 .. Len(q[m]) :
    q[l][j] = q[m][k] => l = m /\ j = k

(* Every node allocated is in a list or left behind, and what was left     *)
(* behind leads to nothing else.                                           *)
Accounted(h, q, left) ==
  /\ left \subseteq DOMAIN h
  /\ \A l \in Kind : \A k \in 1 .. Len(q[l]) : q[l][k] \notin left
  /\ \A n \in DOMAIN h : n \in left \/ \E l \in Kind : \E k \in 1 .. Len(q[l]) : n = q[l][k]
  /\ \A n \in left : h[n].next \in left \cup {NULL}

Whole(h, q, left) == Chained(h, q) /\ Apart(q) /\ Accounted(h, q, left)

(* What Apart says of two places.                                         *)
LEMMA SameNode ==
  ASSUME NEW q, Apart(q), NEW l \in Kind, NEW m \in Kind,
         NEW x \in 1 .. Len(q[l]), NEW y \in 1 .. Len(q[m]), q[l][x] = q[m][y]
  PROVE  l = m /\ x = y
BY Zenon DEF Apart

(* A new node becomes the only one of a list that was empty.               *)
LEMMA NodeAdded ==
  ASSUME NEW h, NEW q, NEW left, Whole(h, q, left),
         NEW n \in Node \ DOMAIN h, NEW rec, NEW l \in Kind, Len(q[l]) = 0,
         l # "open" => rec.next = NULL
  PROVE  Whole(Linked!Put(h, n, rec), [q EXCEPT ![l] = <<n>>], left)
<1>1. PICK g : g = Linked!Put(h, n, rec)
  OBVIOUS
<1>2. DOMAIN g = DOMAIN h \cup {n} /\ g[n] = rec /\ \A m \in DOMAIN h : g[m] = h[m]
  BY <1>1 DEF Linked!Put
<1>3. PICK r : r = [q EXCEPT ![l] = <<n>>]
  OBVIOUS
<1>4. /\ r \in [Kind -> Seq(Node)] /\ Len(r[l]) = 1 /\ r[l][1] = n
      /\ \A m \in Kind : m # l => r[m] = q[m]
  BY <1>3 DEF Whole, Chained
<1>5. \A m \in Kind : \A k \in 1 .. Len(q[m]) : q[m][k] \in DOMAIN h /\ q[m][k] # n
  BY DEF Whole, Chained
<1>6. Chained(g, r)
  <2>1. DOMAIN g \subseteq Node
    BY <1>2 DEF Whole, Chained
  <2>2. ASSUME NEW m \in Kind PROVE \A k \in 1 .. Len(r[m]) : r[m][k] \in DOMAIN g
    BY <1>2, <1>4, <1>5
  <2>3. ASSUME NEW m \in Kind, NEW k \in 1 .. Len(r[m]) - 1 PROVE g[r[m][k]].next = r[m][k + 1]
    <3>1. m # l
      <4> SUFFICES ASSUME m = l PROVE FALSE
        OBVIOUS
      <4>1. Len(r[m]) - 1 = 0
        BY <1>4
      <4>2. k \in 1 .. 0
        BY <4>1, Zenon
      <4>. QED BY <4>2
    <3>2. r[m] = q[m] /\ Len(q[m]) \in Nat
      BY <1>4, <3>1 DEF Whole, Chained
    <3>. QED BY <1>2, <1>5, <3>2 DEF Whole, Chained
  <2>4. ASSUME NEW m \in Kept, Len(r[m]) > 0 PROVE g[r[m][Len(r[m])]].next = NULL
    <3>1. CASE m = l
      BY <1>2, <1>4, <2>4, <3>1 DEF Kept
    <3>2. CASE m # l
      <4>1. r[m] = q[m] /\ Len(q[m]) \in Nat
        BY <1>4, <3>2 DEF Whole, Chained, Kind
      <4>. QED BY <1>2, <1>5, <2>4, <4>1 DEF Whole, Chained, Kind
    <3>. QED BY <3>1, <3>2
  <2>. QED BY <1>4, <2>1, <2>2, <2>3, <2>4 DEF Chained
<1>7. Apart(r)
  <2> SUFFICES ASSUME NEW m \in Kind, NEW o \in Kind, NEW j \in 1 .. Len(r[m]), NEW k \in 1 .. Len(r[o]),
                      r[m][j] = r[o][k]
               PROVE  m = o /\ j = k
    BY DEF Apart
  <2>1. CASE m = l /\ o = l
    <3>1. j \in 1 .. 1 /\ k \in 1 .. 1
      BY <1>4, <2>1, Zenon
    <3>. QED BY <2>1, <3>1
  <2>2. CASE m # l /\ o # l
    BY <1>4, <2>2 DEF Whole, Apart
  <2>3. CASE m # o /\ (m = l \/ o = l)
    BY <1>4, <1>5, <2>3
  <2>. QED BY <2>1, <2>2, <2>3
<1>8. Accounted(g, r, left)
  <2>1. left \subseteq DOMAIN g
    BY <1>2 DEF Whole, Accounted
  <2>2. \A m \in Kind : \A k \in 1 .. Len(r[m]) : r[m][k] \notin left
    BY <1>4 DEF Whole, Accounted
  <2>3. ASSUME NEW o \in DOMAIN g PROVE o \in left \/ \E m \in Kind : \E k \in 1 .. Len(r[m]) : o = r[m][k]
    <3>1. CASE o = n
      BY <1>4, <3>1
    <3>2. CASE o \in DOMAIN h /\ o \notin left
      <4>1. PICK m \in Kind, k \in Nat : k \in 1 .. Len(q[m]) /\ o = q[m][k]
        BY <3>2 DEF Whole, Accounted
      <4>2. m # l
        <5>1. CASE m = l
          BY <4>1, <5>1
        <5>. QED BY <5>1
      <4>. QED BY <1>4, <4>1, <4>2
    <3>. QED BY <1>2, <3>1, <3>2
  <2>4. \A o \in left : g[o].next \in left \cup {NULL}
    BY <1>2 DEF Whole, Accounted
  <2>. QED BY <2>1, <2>2, <2>3, <2>4 DEF Accounted
<1>. QED BY <1>1, <1>3, <1>6, <1>7, <1>8 DEF Whole

(* A node without content, left behind.                                    *)
LEMMA NodeLost ==
  ASSUME NEW h, NEW q, NEW left, Whole(h, q, left),
         NEW n \in Node \ DOMAIN h, NEW rec, rec.next = NULL
  PROVE  Whole(Linked!Put(h, n, rec), q, left \cup {n})
<1>1. PICK g : g = Linked!Put(h, n, rec)
  OBVIOUS
<1>2. DOMAIN g = DOMAIN h \cup {n} /\ g[n] = rec /\ \A m \in DOMAIN h : g[m] = h[m]
  BY <1>1 DEF Linked!Put
<1>5. \A m \in Kind : \A k \in 1 .. Len(q[m]) : q[m][k] \in DOMAIN h /\ q[m][k] # n
  BY DEF Whole, Chained
<1>6. Chained(g, q)
  <2>1. q \in [Kind -> Seq(Node)] /\ DOMAIN g \subseteq Node
    BY <1>2 DEF Whole, Chained
  <2>3. ASSUME NEW m \in Kind, NEW k \in 1 .. Len(q[m]) - 1 PROVE g[q[m][k]].next = q[m][k + 1]
    <3>1. Len(q[m]) \in Nat
      BY <2>1
    <3>. QED BY <1>2, <1>5, <3>1 DEF Whole, Chained
  <2>4. ASSUME NEW m \in Kept, Len(q[m]) > 0 PROVE g[q[m][Len(q[m])]].next = NULL
    <3>1. Len(q[m]) \in Nat /\ m \in Kind
      BY <2>1 DEF Kind
    <3>. QED BY <1>2, <1>5, <2>4, <3>1 DEF Whole, Chained
  <2>. QED BY <1>2, <1>5, <2>1, <2>3, <2>4 DEF Chained
<1>8. Accounted(g, q, left \cup {n})
  BY <1>2, <1>5 DEF Whole, Accounted
<1>. QED BY <1>1, <1>6, <1>8 DEF Whole

(* The last node of what is being deleted, or the only one of a list, is   *)
(* freed.                                                                  *)
LEMMA Freed ==
  ASSUME NEW h, NEW q, NEW left, Whole(h, q, left), NEW l \in Kind, Len(q[l]) > 0,
         l # "open" => Len(q[l]) = 1
  PROVE  Whole(Linked!Free(h, q[l][Len(q[l])]), [q EXCEPT ![l] = SubSeq(q[l], 1, Len(q[l]) - 1)], left)
<1>1. PICK n, L : n = q[l][Len(q[l])] /\ L = Len(q[l])
  OBVIOUS
<1>0. L \in Nat /\ L > 0 /\ n = q[l][L] /\ n \in DOMAIN h
  BY <1>1 DEF Whole, Chained
<1>2. PICK g : g = Linked!Free(h, n)
  OBVIOUS
<1>3. DOMAIN g = DOMAIN h \ {n} /\ \A m \in DOMAIN g : g[m] = h[m]
  BY <1>2 DEF Linked!Free
<1>4. PICK r : r = [q EXCEPT ![l] = SubSeq(q[l], 1, L - 1)]
  OBVIOUS
<1>5. r \in [Kind -> Seq(Node)] /\ \A m \in Kind : m # l => r[m] = q[m]
  BY <1>0, <1>1, <1>4 DEF Whole, Chained
<1>6. Len(r[l]) = L - 1 /\ \A k \in 1 .. L - 1 : r[l][k] = q[l][k]
  BY <1>0, <1>1, <1>4 DEF Whole, Chained
<1>7. \A m \in Kind : /\ Len(r[m]) \in Nat /\ Len(q[m]) \in Nat /\ Len(r[m]) <= Len(q[m])
                      /\ \A k \in 1 .. Len(r[m]) : r[m][k] = q[m][k] /\ k \in 1 .. Len(q[m])
  <2> TAKE m \in Kind
  <2>1. Len(q[m]) \in Nat
    BY DEF Whole, Chained
  <2>2. CASE m = l
    <3>1. Len(r[m]) = L - 1 /\ Len(q[m]) = L
      BY <1>1, <1>6, <2>2
    <3>2. \A k \in 1 .. L - 1 : r[m][k] = q[m][k] /\ k \in 1 .. L
      BY <1>0, <1>6, <2>2
    <3>3. L - 1 \in Nat /\ L - 1 <= L
      BY <1>0
    <3>. QED BY <1>0, <3>1, <3>2, <3>3, Zenon
  <2>3. CASE m # l
    BY <1>5, <2>1, <2>3
  <2>. QED BY <2>2, <2>3
<1>8. \A m \in Kind : \A k \in 1 .. Len(r[m]) : r[m][k] \in DOMAIN g
  <2> SUFFICES ASSUME NEW m \in Kind, NEW k \in 1 .. Len(r[m]), r[m][k] = n PROVE FALSE
    BY <1>3, <1>7 DEF Whole, Chained
  <2>1. m = l /\ k = L
    BY <1>0, <1>1, <1>7 DEF Whole, Apart
  <2>. QED BY <1>0, <1>6, <2>1
<1>9. Chained(g, r)
  <2>3. ASSUME NEW m \in Kind, NEW k \in 1 .. Len(r[m]) - 1 PROVE g[r[m][k]].next = r[m][k + 1]
    <3>1. k \in 1 .. Len(r[m]) /\ k + 1 \in 1 .. Len(r[m]) /\ k \in 1 .. Len(q[m]) - 1
      BY <1>7
    <3>2. r[m][k] = q[m][k] /\ r[m][k + 1] = q[m][k + 1] /\ r[m][k] \in DOMAIN g
      BY <1>7, <1>8, <3>1
    <3>. QED BY <1>3, <3>1, <3>2 DEF Whole, Chained
  <2>4. ASSUME NEW m \in Kept, Len(r[m]) > 0 PROVE g[r[m][Len(r[m])]].next = NULL
    <3>1. m \in Kind /\ m # l
      BY <1>1, <1>6, <2>4 DEF Kept, Kind
    <3>2. r[m] = q[m] /\ Len(r[m]) \in 1 .. Len(r[m])
      BY <1>5, <1>7, <2>4, <3>1
    <3>3. r[m][Len(r[m])] \in DOMAIN g
      BY <1>8, <3>1, <3>2
    <3>. QED BY <1>3, <2>4, <3>2, <3>3 DEF Whole, Chained
  <2>. QED BY <1>3, <1>5, <1>8, <2>3, <2>4 DEF Whole, Chained
<1>10. Apart(r)
  BY <1>7 DEF Whole, Apart
<1>11. Accounted(g, r, left)
  <2>0. n \notin left
    BY <1>0, <1>1 DEF Whole, Accounted
  <2>1. left \subseteq DOMAIN g
    BY <1>3, <2>0 DEF Whole, Accounted
  <2>2. \A m \in Kind : \A k \in 1 .. Len(r[m]) : r[m][k] \notin left
    BY <1>7 DEF Whole, Accounted
  <2>3. ASSUME NEW o \in DOMAIN g, o \notin left PROVE \E m \in Kind : \E k \in 1 .. Len(r[m]) : o = r[m][k]
    <3>1. PICK m \in Kind, k \in Nat : k \in 1 .. Len(q[m]) /\ o = q[m][k]
      BY <1>3, <2>3 DEF Whole, Accounted
    <3>2. CASE m # l
      BY <1>5, <3>1, <3>2
    <3>3. CASE m = l
      <4>1. k # L /\ k \in 1 .. L
        BY <1>0, <1>1, <1>3, <3>1, <3>3
      <4>2. k \in 1 .. L - 1
        BY <1>0, <4>1
      <4>. QED BY <1>6, <3>1, <3>3, <4>2
    <3>. QED BY <3>2, <3>3
  <2>4. \A o \in left : g[o].next \in left \cup {NULL}
    BY <1>3, <2>1 DEF Whole, Accounted
  <2>. QED BY <2>1, <2>2, <2>3, <2>4 DEF Accounted
<1>. QED BY <1>1, <1>2, <1>4, <1>9, <1>10, <1>11 DEF Whole

(* The next of the last node of "open" may be anything.                    *)
LEMMA Relinked ==
  ASSUME NEW h, NEW q, NEW left, Whole(h, q, left), Len(q["open"]) > 0,
         NEW g, DOMAIN g = DOMAIN h,
         \A m \in DOMAIN h : m # q["open"][Len(q["open"])] => g[m] = h[m]
  PROVE  Whole(g, q, left)
<1>1. PICK n, L : n = q["open"][L] /\ L = Len(q["open"])
  OBVIOUS
<1>2. L \in Nat /\ L > 0 /\ "open" \in Kind
  BY <1>1 DEF Whole, Chained, Kind
<1>3. \A m \in Kind : \A k \in 1 .. Len(q[m]) : q[m][k] = n => m = "open" /\ k = L
  BY <1>1, <1>2 DEF Whole, Apart
<1>4. n \notin left
  BY <1>1, <1>2 DEF Whole, Accounted
<1>5. ASSUME NEW m \in Kind, NEW k \in 1 .. Len(q[m]) - 1 PROVE g[q[m][k]].next = q[m][k + 1]
  <2>1. Len(q[m]) \in Nat
    BY DEF Whole, Chained
  <2>2. q[m][k] # n
    <3>1. CASE m = "open" /\ k = L
      BY <1>1, <2>1, <3>1
    <3>. QED BY <1>3, <2>1, <3>1
  <2>. QED BY <1>1, <2>1, <2>2 DEF Whole, Chained
<1>6. ASSUME NEW m \in Kept, Len(q[m]) > 0 PROVE g[q[m][Len(q[m])]].next = NULL
  <2>1. m \in Kind /\ m # "open" /\ Len(q[m]) \in Nat
    BY DEF Whole, Chained, Kept, Kind
  <2>2. q[m][Len(q[m])] # n
    BY <1>3, <1>6, <2>1
  <2>. QED BY <1>1, <1>6, <2>1, <2>2 DEF Whole, Chained
<1>7. Chained(g, q)
  BY <1>5, <1>6 DEF Whole, Chained
<1>8. Accounted(g, q, left)
  BY <1>1, <1>4 DEF Whole, Accounted
<1>. QED BY <1>7, <1>8 DEF Whole

(* The node the last one of "open" leads to is appended to it.             *)
LEMMA NodeAppended ==
  ASSUME NEW h, NEW q, NEW left, Whole(h, q, left), Len(q["open"]) > 0,
         NEW n \in Node \ DOMAIN h, NEW rec, h[q["open"][Len(q["open"])]].next = n
  PROVE  Whole(Linked!Put(h, n, rec), [q EXCEPT !["open"] = Append(q["open"], n)], left)
<1>0. PICK L : L = Len(q["open"])
  OBVIOUS
<1>1. PICK g : g = Linked!Put(h, n, rec)
  OBVIOUS
<1>2. DOMAIN g = DOMAIN h \cup {n} /\ g[n] = rec /\ \A m \in DOMAIN h : g[m] = h[m]
  BY <1>1 DEF Linked!Put
<1>3. PICK r : r = [q EXCEPT !["open"] = Append(q["open"], n)]
  OBVIOUS
<1>4. /\ r \in [Kind -> Seq(Node)] /\ "open" \in Kind /\ L \in Nat /\ L > 0
      /\ Len(r["open"]) = L + 1 /\ r["open"][L + 1] = n
      /\ \A k \in 1 .. L : r["open"][k] = q["open"][k]
      /\ \A m \in Kind : m # "open" => r[m] = q[m]
  BY <1>0, <1>3 DEF Whole, Chained, Kind
<1>5. \A m \in Kind : \A k \in 1 .. Len(q[m]) : q[m][k] \in DOMAIN h /\ q[m][k] # n
  BY DEF Whole, Chained
<1>6. ASSUME NEW m \in Kind, NEW k \in 1 .. Len(r[m])
      PROVE  (m = "open" /\ k = L + 1 /\ r[m][k] = n) \/ (k \in 1 .. Len(q[m]) /\ r[m][k] = q[m][k])
  BY <1>0, <1>4
<1>7. Chained(g, r)
  <2>1. DOMAIN g \subseteq Node
    BY <1>2 DEF Whole, Chained
  <2>2. ASSUME NEW m \in Kind PROVE \A k \in 1 .. Len(r[m]) : r[m][k] \in DOMAIN g
    BY <1>2, <1>5, <1>6
  <2>3. ASSUME NEW m \in Kind, NEW k \in 1 .. Len(r[m]) - 1 PROVE g[r[m][k]].next = r[m][k + 1]
    <3>1. CASE m # "open"
      <4>1. r[m] = q[m] /\ Len(q[m]) \in Nat
        BY <1>4, <3>1 DEF Whole, Chained
      <4>. QED BY <1>2, <1>5, <4>1 DEF Whole, Chained
    <3>2. CASE m = "open" /\ k = L
      <4>1. r[m][k] = q[m][k] /\ k \in 1 .. Len(q[m])
        BY <1>0, <1>4, <3>2
      <4>2. g[r[m][k]] = h[q[m][k]]
        BY <1>2, <1>5, <4>1
      <4>. QED BY <1>0, <1>4, <3>2, <4>2
    <3>3. CASE m = "open" /\ k # L
      <4>1. k \in 1 .. L - 1 /\ k \in 1 .. Len(q[m]) /\ r[m][k] = q[m][k] /\ r[m][k + 1] = q[m][k + 1]
        BY <1>0, <1>4, <3>3
      <4>2. g[r[m][k]] = h[q[m][k]]
        BY <1>2, <1>5, <4>1
      <4>3. k \in 1 .. Len(q["open"]) - 1
        BY <1>0, <4>1
      <4>4. h[q["open"][k]].next = q["open"][k + 1]
        BY <1>4, <4>3, Zenon DEF Whole, Chained
      <4>. QED BY <3>3, <4>1, <4>2, <4>4, Zenon
    <3>. QED BY <3>1, <3>2, <3>3
  <2>4. ASSUME NEW m \in Kept, Len(r[m]) > 0 PROVE g[r[m][Len(r[m])]].next = NULL
    <3>1. m \in Kind /\ m # "open"
      BY DEF Kept, Kind
    <3>2. r[m] = q[m] /\ Len(q[m]) \in Nat
      BY <1>4, <3>1 DEF Whole, Chained
    <3>. QED BY <1>2, <1>5, <2>4, <3>1, <3>2 DEF Whole, Chained
  <2>. QED BY <1>4, <2>1, <2>2, <2>3, <2>4 DEF Chained
<1>8. Apart(r)
  <2> SUFFICES ASSUME NEW m \in Kind, NEW o \in Kind, NEW j \in 1 .. Len(r[m]), NEW k \in 1 .. Len(r[o]),
                      r[m][j] = r[o][k]
               PROVE  m = o /\ j = k
    BY DEF Apart
  <2>1. CASE j \in 1 .. Len(q[m]) /\ r[m][j] = q[m][j] /\ k \in 1 .. Len(q[o]) /\ r[o][k] = q[o][k]
    <3>1. q[m][j] = q[o][k]
      BY <2>1, Zenon
    <3>2. Apart(q)
      BY DEF Whole
    <3>. QED BY <2>1, <3>1, <3>2, SameNode
  <2>. QED BY <1>5, <1>6, <2>1
<1>9. Accounted(g, r, left)
  <2>1. n \notin left /\ left \subseteq DOMAIN g
    BY <1>2 DEF Whole, Accounted
  <2>2. \A m \in Kind : \A k \in 1 .. Len(r[m]) : r[m][k] \notin left
    BY <1>6, <2>1 DEF Whole, Accounted
  <2>3. ASSUME NEW o \in DOMAIN g PROVE o \in left \/ \E m \in Kind : \E k \in 1 .. Len(r[m]) : o = r[m][k]
    <3>1. CASE o = n
      <4>1. L + 1 \in 1 .. Len(r["open"]) /\ o = r["open"][L + 1]
        BY <1>4, <3>1
      <4>. QED BY <1>4, <4>1
    <3>2. CASE o \in DOMAIN h /\ o \notin left
      <4>1. PICK m \in Kind, k \in Nat : k \in 1 .. Len(q[m]) /\ o = q[m][k]
        BY <3>2 DEF Whole, Accounted
      <4>2. CASE m = "open"
        <5>1. k \in 1 .. Len(r[m]) /\ r[m][k] = q[m][k]
          BY <1>0, <1>4, <4>1, <4>2
        <5>. QED BY <4>1, <5>1, Zenon
      <4>3. CASE m # "open"
        BY <1>4, <4>1, <4>3, Zenon
      <4>. QED BY <4>2, <4>3
    <3>. QED BY <1>2, <3>1, <3>2
  <2>4. \A o \in left : g[o].next \in left \cup {NULL}
    BY <1>2 DEF Whole, Accounted
  <2>. QED BY <2>1, <2>2, <2>3, <2>4 DEF Accounted
<1>. QED BY <1>1, <1>3, <1>7, <1>8, <1>9 DEF Whole

(* The nodes of one list become those of another, which was empty.         *)
LEMMA Moved ==
  ASSUME NEW h, NEW q, NEW left, Whole(h, q, left), NEW l \in Kind, NEW m \in Kind, l # m,
         Len(q[m]) = 0, m # "open" /\ Len(q[l]) > 0 => h[q[l][Len(q[l])]].next = NULL
  PROVE  Whole(h, [q EXCEPT ![m] = q[l], ![l] = << >>], left)
<1>1. PICK r : r = [q EXCEPT ![m] = q[l], ![l] = << >>]
  OBVIOUS
<1>2. /\ r \in [Kind -> Seq(Node)] /\ r[m] = q[l] /\ Len(r[l]) = 0
      /\ \A o \in Kind : o # l /\ o # m => r[o] = q[o]
  BY <1>1 DEF Whole, Chained
<1>3. Chained(h, r)
  <2>0. ASSUME NEW o \in Kind
        PROVE  \/ r[o] = q[m] /\ Len(q[m]) = 0
               \/ r[o] = q[l]
               \/ r[o] = q[o]
    <3>1. CASE o = l
      <4>1. r[o] = << >> /\ q[m] = << >>
        BY <1>1, <3>1 DEF Whole, Chained
      <4>. QED BY <4>1
    <3>. QED BY <1>2, <3>1, Zenon
  <2>1. ASSUME NEW o \in Kind PROVE \A k \in 1 .. Len(r[o]) : r[o][k] \in DOMAIN h
    BY <2>0, Zenon DEF Whole, Chained
  <2>2. ASSUME NEW o \in Kind PROVE \A k \in 1 .. Len(r[o]) - 1 : h[r[o][k]].next = r[o][k + 1]
    <3>1. PICK p \in Kind : r[o] = q[p]
      BY <2>0, Zenon
    <3>2. \A k \in 1 .. Len(q[p]) - 1 : h[q[p][k]].next = q[p][k + 1]
      BY Zenon DEF Whole, Chained
    <3>. QED BY <3>1, <3>2, Zenon
  <2>3. ASSUME NEW o \in Kept, Len(r[o]) > 0 PROVE h[r[o][Len(r[o])]].next = NULL
    <3>1. o \in Kind /\ o # "open" /\ o # l
      BY <1>2, <2>3 DEF Kept, Kind
    <3>. QED BY <1>2, <2>3, <3>1 DEF Whole, Chained
  <2>. QED BY <1>2, <2>1, <2>2, <2>3 DEF Whole, Chained
<1>4. Apart(r)
  <2> SUFFICES ASSUME NEW o \in Kind, NEW p \in Kind, NEW j \in 1 .. Len(r[o]), NEW k \in 1 .. Len(r[p]),
                      r[o][j] = r[p][k]
               PROVE  o = p /\ j = k
    BY DEF Apart
  <2>1. ASSUME NEW e \in Kind, NEW x \in 1 .. Len(r[e])
        PROVE  \E a \in Kind : r[e] = q[a] /\ ((e = m /\ a = l) \/ (e # m /\ e # l /\ a = e))
    <3>1. CASE e = l
      <4>1. Len(r[e]) = 0
        BY <1>2, <3>1, Zenon
      <4>. QED BY <4>1
    <3>2. CASE e = m
      BY <1>2, <3>2, Zenon
    <3>3. CASE e # l /\ e # m
      BY <1>2, <3>3, Zenon
    <3>. QED BY <3>1, <3>2, <3>3, Zenon
  <2>2. PICK a \in Kind : r[o] = q[a] /\ ((o = m /\ a = l) \/ (o # m /\ o # l /\ a = o))
    BY <2>1, Zenon
  <2>3. PICK b \in Kind : r[p] = q[b] /\ ((p = m /\ b = l) \/ (p # m /\ p # l /\ b = p))
    BY <2>1, Zenon
  <2>4. a = b /\ j = k
    <3>1. Apart(q) /\ j \in 1 .. Len(q[a]) /\ k \in 1 .. Len(q[b]) /\ q[a][j] = q[b][k]
      BY <2>2, <2>3, Zenon DEF Whole
    <3>. QED BY <3>1, SameNode
  <2>. QED BY <2>2, <2>3, <2>4, Zenon
<1>5. Accounted(h, r, left)
  <2>1. ASSUME NEW o \in Kind, NEW k \in 1 .. Len(r[o]) PROVE r[o][k] \notin left
    <3>1. CASE o = l
      <4>1. Len(r[o]) = 0
        BY <1>2, <3>1, Zenon
      <4>. QED BY <4>1
    <3>2. CASE o = m
      <4>1. r[o] = q[l]
        BY <1>2, <3>2, Zenon
      <4>. QED BY <4>1, Zenon DEF Whole, Accounted
    <3>3. CASE o # l /\ o # m
      <4>1. r[o] = q[o]
        BY <1>2, <3>3, Zenon
      <4>. QED BY <4>1, Zenon DEF Whole, Accounted
    <3>. QED BY <3>1, <3>2, <3>3, Zenon
  <2>2. ASSUME NEW n \in DOMAIN h, n \notin left PROVE \E o \in Kind : \E k \in 1 .. Len(r[o]) : n = r[o][k]
    <3>1. PICK o \in Kind, k \in Nat : k \in 1 .. Len(q[o]) /\ n = q[o][k]
      BY <2>2 DEF Whole, Accounted
    <3>2. o # m
      BY <3>1
    <3>. QED BY <1>2, <3>1, <3>2
  <2>. QED BY <2>1, <2>2 DEF Whole, Accounted
<1>. QED BY <1>1, <1>3, <1>4, <1>5 DEF Whole

(* The copy under construction is left behind.                             *)
LEMMA Abandoned ==
  ASSUME NEW h, NEW q, NEW left, Whole(h, q, left),
         Len(q["open"]) > 0 => h[q["open"][Len(q["open"])]].next = NULL
  PROVE  Whole(h, [q EXCEPT !["open"] = << >>], left \cup Linked!ToSet(q["open"]))
<1>0. PICK L : L = Len(q["open"])
  OBVIOUS
<1>1. PICK S : S = {q["open"][k] : k \in 1 .. L}
  OBVIOUS
<1>2. L \in Nat /\ "open" \in Kind /\ S = Linked!ToSet(q["open"])
  BY <1>0, <1>1 DEF Whole, Chained, Kind, Linked!ToSet
<1>3. PICK r : r = [q EXCEPT !["open"] = << >>]
  OBVIOUS
<1>4. /\ r \in [Kind -> Seq(Node)] /\ Len(r["open"]) = 0
      /\ \A m \in Kind : m # "open" => r[m] = q[m]
  BY <1>2, <1>3 DEF Whole, Chained
<1>5. Chained(h, r)
  <2>1. ASSUME NEW m \in Kind PROVE /\ \A k \in 1 .. Len(r[m]) : r[m][k] \in DOMAIN h
                                    /\ \A k \in 1 .. Len(r[m]) - 1 : h[r[m][k]].next = r[m][k + 1]
    <3>1. CASE m = "open"
      BY <1>4, <3>1
    <3>2. CASE m # "open"
      BY <1>4, <3>2 DEF Whole, Chained
    <3>. QED BY <3>1, <3>2
  <2>2. ASSUME NEW m \in Kept, Len(r[m]) > 0 PROVE h[r[m][Len(r[m])]].next = NULL
    <3>1. r[m] = q[m]
      BY <1>4 DEF Kept, Kind
    <3>. QED BY <2>2, <3>1 DEF Whole, Chained
  <2>. QED BY <1>4, <2>1, <2>2 DEF Whole, Chained
<1>6. Apart(r)
  <2> SUFFICES ASSUME NEW o \in Kind, NEW p \in Kind, NEW j \in 1 .. Len(r[o]), NEW k \in 1 .. Len(r[p]),
                      r[o][j] = r[p][k]
               PROVE  o = p /\ j = k
    BY DEF Apart
  <2>1. ASSUME NEW e \in Kind, NEW x \in 1 .. Len(r[e]) PROVE r[e] = q[e]
    <3>1. CASE e = "open"
      <4>1. Len(r[e]) = 0
        BY <1>4, <3>1, Zenon
      <4>. QED BY <4>1
    <3>. QED BY <1>4, <3>1, Zenon
  <2>2. r[o] = q[o] /\ r[p] = q[p]
    BY <2>1, Zenon
  <2>3. Apart(q) /\ j \in 1 .. Len(q[o]) /\ k \in 1 .. Len(q[p]) /\ q[o][j] = q[p][k]
    BY <2>2, Zenon DEF Whole
  <2>. QED BY <2>3, SameNode
<1>7. Accounted(h, r, left \cup S)
  <2>1. left \cup S \subseteq DOMAIN h
    BY <1>0, <1>1, <1>2 DEF Whole, Chained, Accounted
  <2>2. ASSUME NEW m \in Kind, NEW k \in 1 .. Len(r[m]) PROVE r[m][k] \notin left \cup S
    <3>1. m # "open" /\ r[m] = q[m]
      BY <1>4
    <3>2. q[m][k] \notin left
      BY <3>1 DEF Whole, Accounted
    <3>3. \A j \in 1 .. L : q["open"][j] # q[m][k]
      BY <1>0, <1>2, <3>1 DEF Whole, Apart
    <3>. QED BY <1>1, <3>1, <3>2, <3>3
  <2>3. ASSUME NEW n \in DOMAIN h, n \notin left \cup S PROVE \E m \in Kind : \E k \in 1 .. Len(r[m]) : n = r[m][k]
    <3>1. PICK m \in Kind, k \in Nat : k \in 1 .. Len(q[m]) /\ n = q[m][k]
      BY <2>3 DEF Whole, Accounted
    <3>2. m # "open"
      BY <1>0, <1>1, <2>3, <3>1
    <3>. QED BY <1>4, <3>1, <3>2
  <2>4. ASSUME NEW n \in left \cup S PROVE h[n].next \in left \cup S \cup {NULL}
    <3>1. CASE n \in left
      BY <3>1 DEF Whole, Accounted
    <3>2. CASE n \in S
      <4>1. PICK k \in 1 .. L : n = q["open"][k]
        BY <1>1, <3>2
      <4>2. CASE k = L
        BY <1>0, <1>2, <4>1, <4>2
      <4>3. CASE k # L
        <5>1. k \in 1 .. L - 1 /\ k + 1 \in 1 .. L
          BY <1>2, <4>3
        <5>2. h[n].next = q["open"][k + 1]
          BY <1>0, <1>2, <4>1, <5>1 DEF Whole, Chained
        <5>. QED BY <1>1, <5>1, <5>2
      <4>. QED BY <4>2, <4>3
    <3>. QED BY <3>1, <3>2
  <2>. QED BY <2>1, <2>2, <2>3, <2>4 DEF Accounted
<1>. QED BY <1>2, <1>3, <1>5, <1>6, <1>7 DEF Whole

(* A single node goes in front of the list.                                *)
LEMMA Linked1st ==
  ASSUME NEW h, NEW q, NEW left, Whole(h, q, left), Len(q["fresh"]) = 1,
         NEW g, DOMAIN g = DOMAIN h, \A m \in DOMAIN h : m # q["fresh"][1] => g[m] = h[m],
         g[q["fresh"][1]].next = IF Len(q["list"]) = 0 THEN NULL ELSE q["list"][1]
  PROVE  Whole(g, [q EXCEPT !["list"] = <<q["fresh"][1]>> \o q["list"], !["fresh"] = << >>], left)
<1>1. PICK n, L : n = q["fresh"][1] /\ L = Len(q["list"])
  OBVIOUS
<1>2. /\ L \in Nat /\ "list" \in Kind /\ "fresh" \in Kind /\ n \in DOMAIN h /\ n \in Node
      /\ q["list"] \in Seq(Node)
  BY <1>1 DEF Whole, Chained, Kind, Kept
<1>3. PICK a : a = <<n>> \o q["list"]
  OBVIOUS
<1>4. /\ a \in Seq(Node) /\ Len(a) = L + 1 /\ a[1] = n
      /\ \A k \in 1 .. L : a[k + 1] = q["list"][k]
  BY <1>1, <1>2, <1>3
<1>5. PICK r : r = [q EXCEPT !["list"] = a, !["fresh"] = << >>]
  OBVIOUS
<1>6. /\ r \in [Kind -> Seq(Node)] /\ r["list"] = a /\ Len(r["fresh"]) = 0
      /\ \A m \in Kind : m # "list" /\ m # "fresh" => r[m] = q[m]
  <2>1. q \in [Kind -> Seq(Node)]
    BY DEF Whole, Chained
  <2>2. r \in [Kind -> Seq(Node)]
    <3>1. << >> \in Seq(Node)
      OBVIOUS
    <3>. QED BY <1>4, <1>5, <2>1, <3>1, Zenon
  <2>3. r["list"] = a /\ r["fresh"] = << >>
    BY <1>2, <1>5, <2>1
  <2>4. \A m \in Kind : m # "list" /\ m # "fresh" => r[m] = q[m]
    BY <1>5, <2>1, Zenon
  <2>. QED BY <2>2, <2>3, <2>4
<1>7. \A m \in Kind : \A k \in 1 .. Len(q[m]) : q[m][k] = n => m = "fresh" /\ k = 1
  <2>1. 1 \in 1 .. Len(q["fresh"])
    OBVIOUS
  <2>2. ASSUME NEW m \in Kind, NEW k \in 1 .. Len(q[m]), q[m][k] = n
        PROVE  m = "fresh" /\ k = 1
    <3>1. q[m][k] = q["fresh"][1]
      BY <1>1, <2>2, Zenon
    <3>2. Apart(q)
      BY DEF Whole
    <3>. QED BY <1>2, <2>1, <3>1, <3>2, SameNode
  <2>. QED BY <2>2
<1>8. \A k \in 1 .. L + 1 : a[k] = n \/ (k - 1 \in 1 .. L /\ a[k] = q["list"][k - 1])
  BY <1>2, <1>4
<1>9. Chained(g, r)
  <2>1. ASSUME NEW m \in Kind, NEW k \in 1 .. Len(r[m]) PROVE r[m][k] \in DOMAIN g
    <3>1. CASE m = "list"
      <4>1. k \in 1 .. L + 1 /\ r[m][k] = a[k]
        BY <1>2, <1>4, <1>6, <3>1
      <4>2. CASE k - 1 \in 1 .. L /\ a[k] = q["list"][k - 1]
        <5>1. k - 1 \in 1 .. Len(q["list"]) /\ "list" \in Kind
          BY <1>1, <1>2, <4>2, Zenon
        <5>2. q["list"][k - 1] \in DOMAIN h
          BY <5>1, Zenon DEF Whole, Chained
        <5>. QED BY <1>1, <4>1, <4>2, <5>2
      <4>3. CASE a[k] = n
        <5>1. n \in DOMAIN g
          BY <1>2, Zenon
        <5>. QED BY <4>1, <4>3, <5>1, Zenon
      <4>. QED BY <1>8, <4>1, <4>2, <4>3, Zenon
    <3>2. CASE m # "list"
      <4>1. r[m] = q[m]
        BY <1>6, <3>2
      <4>. QED BY <4>1 DEF Whole, Chained
    <3>. QED BY <3>1, <3>2
  <2>2. ASSUME NEW m \in Kind, NEW k \in 1 .. Len(r[m]) - 1 PROVE g[r[m][k]].next = r[m][k + 1]
    <3>1. CASE m = "list" /\ k = 1
      <4>1. L > 0 /\ a[2] = q["list"][1] /\ a[1] = n
        BY <1>2, <1>4, <1>6, <3>1
      <4>. QED BY <1>1, <1>6, <3>1, <4>1
    <3>2. CASE m = "list" /\ k # 1
      <4>1. PICK j : j = k - 1
        OBVIOUS
      <4>2. j \in 1 .. L - 1 /\ j + 1 \in 1 .. L /\ j \in 1 .. L /\ k = j + 1
        BY <1>2, <1>4, <1>6, <3>2, <4>1
      <4>3. a[k] = q["list"][j] /\ a[k + 1] = q["list"][j + 1]
        BY <1>4, <4>2
      <4>4. q["list"][j] # n /\ q["list"][j] \in DOMAIN h /\ h[q["list"][j]].next = q["list"][j + 1]
        BY <1>1, <1>2, <1>7, <4>2 DEF Whole, Chained
      <4>. QED BY <1>1, <1>6, <3>2, <4>3, <4>4
    <3>3. CASE m # "list"
      <4>1. r[m] = q[m] /\ Len(q[m]) \in Nat /\ m # "fresh"
        BY <1>6, <3>3
      <4>2. k \in 1 .. Len(q[m]) /\ k \in 1 .. Len(q[m]) - 1
        BY <4>1
      <4>3. q[m][k] # n /\ q[m][k] \in DOMAIN h /\ h[q[m][k]].next = q[m][k + 1]
        BY <1>7, <4>1, <4>2 DEF Whole, Chained
      <4>. QED BY <1>1, <4>1, <4>3
    <3>. QED BY <3>1, <3>2, <3>3
  <2>3. ASSUME NEW m \in Kept, Len(r[m]) > 0 PROVE g[r[m][Len(r[m])]].next = NULL
    <3>1. CASE m = "list" /\ L = 0
      BY <1>1, <1>4, <1>6, <3>1
    <3>2. CASE m = "list" /\ L # 0
      <4>1. L \in 1 .. L /\ a[L + 1] = q["list"][L]
        BY <1>2, <1>4, <3>2
      <4>2. q["list"][L] # n /\ q["list"][L] \in DOMAIN h /\ h[q["list"][L]].next = NULL
        BY <1>1, <1>2, <1>7, <3>2, <4>1 DEF Whole, Chained, Kept
      <4>. QED BY <1>1, <1>4, <1>6, <3>2, <4>1, <4>2
    <3>3. CASE m # "list"
      <4>1. r[m] = q[m] /\ Len(q[m]) \in Nat /\ m # "fresh" /\ m \in Kind
        BY <1>6, <2>3, <3>3 DEF Kind
      <4>2. Len(q[m]) \in 1 .. Len(q[m])
        BY <2>3, <4>1
      <4>3. q[m][Len(q[m])] # n /\ q[m][Len(q[m])] \in DOMAIN h /\ h[q[m][Len(q[m])]].next = NULL
        BY <1>7, <2>3, <4>1, <4>2 DEF Whole, Chained
      <4>. QED BY <1>1, <4>1, <4>3
    <3>. QED BY <3>1, <3>2, <3>3
  <2>. QED BY <1>6, <2>1, <2>2, <2>3 DEF Whole, Chained
<1>10. ASSUME NEW m \in Kind, NEW k \in 1 .. Len(r[m])
       PROVE  \/ m = "list" /\ k = 1 /\ r[m][k] = n
              \/ m = "list" /\ k - 1 \in 1 .. L /\ r[m][k] = q["list"][k - 1] /\ r[m][k] # n
              \/ m # "list" /\ r[m] = q[m] /\ m # "fresh" /\ r[m][k] # n
  <2>1. CASE m = "list" /\ k = 1
    BY <1>4, <1>6, <2>1
  <2>2. CASE m = "list" /\ k # 1
    <3>1. PICK j : j = k - 1
      OBVIOUS
    <3>2. j \in 1 .. L /\ k = j + 1
      BY <1>2, <1>4, <1>6, <2>2, <3>1
    <3>3. a[k] = q["list"][j] /\ q["list"][j] # n
      BY <1>1, <1>2, <1>4, <1>7, <3>2
    <3>. QED BY <1>6, <2>2, <3>1, <3>2, <3>3
  <2>3. CASE m # "list"
    BY <1>6, <1>7, <2>3
  <2>. QED BY <2>1, <2>2, <2>3
<1>11. Apart(r)
  <2> SUFFICES ASSUME NEW o \in Kind, NEW p \in Kind, NEW j \in 1 .. Len(r[o]), NEW k \in 1 .. Len(r[p]),
                      r[o][j] = r[p][k]
               PROVE  o = p /\ j = k
    BY DEF Apart
  <2>0. Apart(q)
    BY DEF Whole
  <2>1. CASE r[o][j] = n
    BY <1>10, <2>1
  <2>2. CASE r[o][j] # n /\ o = "list" /\ p = "list"
    <3>1. /\ j - 1 \in 1 .. L /\ r[o][j] = q["list"][j - 1]
          /\ k - 1 \in 1 .. L /\ r[p][k] = q["list"][k - 1]
      BY <1>10, <2>2
    <3>2. q["list"][j - 1] = q["list"][k - 1] /\ j - 1 \in 1 .. Len(q["list"]) /\ k - 1 \in 1 .. Len(q["list"])
      BY <1>1, <3>1, Zenon
    <3>3. j - 1 = k - 1
      BY <1>2, <2>0, <3>2, SameNode
    <3>. QED BY <2>2, <3>3
  <2>3. CASE r[o][j] # n /\ o # "list" /\ p # "list"
    <3>1. r[o] = q[o] /\ r[p] = q[p]
      BY <1>10, <2>3, Zenon
    <3>2. j \in 1 .. Len(q[o]) /\ k \in 1 .. Len(q[p]) /\ q[o][j] = q[p][k]
      BY <3>1, Zenon
    <3>. QED BY <2>0, <3>2, SameNode
  <2>4. CASE r[o][j] # n /\ o = "list" /\ p # "list"
    <3>1. j - 1 \in 1 .. L /\ r[o][j] = q["list"][j - 1] /\ r[p] = q[p]
      BY <1>10, <2>4
    <3>2. j - 1 \in 1 .. Len(q["list"]) /\ k \in 1 .. Len(q[p]) /\ q["list"][j - 1] = q[p][k]
      BY <1>1, <3>1, Zenon
    <3>3. "list" = p
      BY <1>2, <2>0, <3>2, SameNode
    <3>. QED BY <2>4, <3>3
  <2>5. CASE r[o][j] # n /\ o # "list" /\ p = "list"
    <3>1. k - 1 \in 1 .. L /\ r[p][k] = q["list"][k - 1] /\ r[o] = q[o]
      BY <1>10, <2>5
    <3>2. j \in 1 .. Len(q[o]) /\ k - 1 \in 1 .. Len(q["list"]) /\ q[o][j] = q["list"][k - 1]
      BY <1>1, <3>1, Zenon
    <3>3. o = "list"
      BY <1>2, <2>0, <3>2, SameNode
    <3>. QED BY <2>5, <3>3
  <2>. QED BY <2>1, <2>2, <2>3, <2>4, <2>5
<1>12. Accounted(g, r, left)
  <2>0. n \notin left
    BY <1>1, <1>2 DEF Whole, Accounted
  <2>1. ASSUME NEW m \in Kind, NEW k \in 1 .. Len(r[m]) PROVE r[m][k] \notin left
    BY <1>1, <1>2, <1>10, <2>0 DEF Whole, Accounted
  <2>2. ASSUME NEW o \in DOMAIN h, o \notin left PROVE \E m \in Kind : \E k \in 1 .. Len(r[m]) : o = r[m][k]
    <3>1. PICK m \in Kind, k \in Nat : k \in 1 .. Len(q[m]) /\ o = q[m][k]
      BY <2>2 DEF Whole, Accounted
    <3>2. CASE m = "fresh"
      <4>1. 1 \in 1 .. Len(r["list"]) /\ o = r["list"][1]
        BY <1>1, <1>2, <1>4, <1>6, <3>1, <3>2
      <4>. QED BY <1>2, <4>1
    <3>3. CASE m = "list"
      <4>1. k + 1 \in 1 .. Len(r["list"]) /\ o = r["list"][k + 1]
        BY <1>1, <1>2, <1>4, <1>6, <3>1, <3>3
      <4>. QED BY <1>2, <4>1
    <3>4. CASE m # "list" /\ m # "fresh"
      BY <1>6, <3>1, <3>4
    <3>. QED BY <3>2, <3>3, <3>4
  <2>3. \A o \in left : g[o].next \in left \cup {NULL}
    BY <1>1, <2>0 DEF Whole, Accounted
  <2>. QED BY <2>1, <2>2, <2>3 DEF Whole, Accounted
<1>. QED BY <1>1, <1>3, <1>5, <1>9, <1>11, <1>12 DEF Whole

(* The instance of Lists has its own name for the size of a set.           *)
LEMMA LinkedCardinality == ASSUME NEW S PROVE Linked!Cardinality(S) = Cardinality(S)
BY DEF Linked!Cardinality, Cardinality

(* A walk of n links from p, as Path makes it.                             *)
Walk(f, h, p, n) ==
  f = [k \in 0 .. n |-> IF k = 0 THEN p ELSE Linked!After(h, f[k - 1])]

LEMMA WalkDefined ==
  ASSUME NEW h, NEW p
  PROVE  \A n \in Nat : \E f : Walk(f, h, p, n)
<1> DEFINE T == {n \in Nat : \E f : Walk(f, h, p, n)}
<1>1. 0 \in T
  <2>1. Walk([k \in 0 .. 0 |-> p], h, p, 0)
    BY DEF Walk
  <2>. QED BY <2>1
<1>2. ASSUME NEW n \in Nat, n \in T PROVE n + 1 \in T
  <2>1. PICK f : Walk(f, h, p, n)
    BY <1>2
  <2> DEFINE g == [k \in 0 .. n + 1 |-> IF k <= n THEN f[k] ELSE Linked!After(h, f[n])]
  <2>2. \A k \in 0 .. n + 1 : g[k] = IF k = 0 THEN p ELSE Linked!After(h, g[k - 1])
    <3> TAKE k \in 0 .. n + 1
    <3>1. CASE k = n + 1
      BY <3>1
    <3>2. CASE k <= n /\ k # 0
      <4>1. g[k] = f[k] /\ g[k - 1] = f[k - 1] /\ k \in 0 .. n
        BY <3>2
      <4>2. f[k] = Linked!After(h, f[k - 1])
        BY <2>1, <3>2, <4>1 DEF Walk
      <4>. QED BY <4>1, <4>2, <3>2
    <3>3. CASE k = 0
      BY <2>1, <3>3 DEF Walk
    <3>. QED BY <3>1, <3>2, <3>3
  <2>3. Walk(g, h, p, n + 1)
    BY <2>2 DEF Walk
  <2> HIDE DEF g
  <2>. QED BY <2>3
<1> HIDE DEF T
<1>3. \A n \in Nat : n \in T
  BY <1>1, <1>2, SetInduction
<1>. QED BY <1>3 DEF T

(* Nodes that are all different are as many as their places.               *)
LEMMA RangeSize ==
  ASSUME NEW s \in Seq(Node), \A j, k \in 1 .. Len(s) : s[j] = s[k] => j = k
  PROVE  LET S == {s[k] : k \in 1 .. Len(s)}
         IN  IsFiniteSet(S) /\ Cardinality(S) = Len(s)
<1> DEFINE S == {s[k] : k \in 1 .. Len(s)}
<1>1. PICK L \in Nat : L = Len(s)
  OBVIOUS
<1> HIDE DEF S
<1>2. IsFiniteSet(1 .. L) /\ Cardinality(1 .. L) = L
  BY FS_Interval
<1>3. PICK f : f = [k \in 1 .. L |-> s[k]]
  OBVIOUS
<1>4. f \in [1 .. L -> S] /\ \A k \in 1 .. L : f[k] = s[k]
  BY <1>1, <1>3 DEF S
<1>5. f \in Bijection(1 .. L, S)
  <2>1. IsInjective(f)
    BY <1>1, <1>4 DEF IsInjective
  <2>2. \A t \in S : \E k \in 1 .. L : f[k] = t
    BY <1>1, <1>4 DEF S
  <2>. QED BY <1>4, <2>1, <2>2, Zenon DEF Bijection, Injection, Surjection
<1>6. ExistsBijection(1 .. L, S)
  BY <1>5 DEF ExistsBijection
<1>7. IsFiniteSet(S) /\ Cardinality(S) = Cardinality(1 .. L)
  BY <1>2, <1>6, FS_Bijection
<1>. QED BY <1>1, <1>2, <1>7 DEF S

(* A chain of nodes that ends is the path from its first node.             *)
FirstOf(s) == IF Len(s) = 0 THEN NULL ELSE s[1]

LEMMA PathIs ==
  ASSUME NEW h, NEW s \in Seq(Node), \A j, k \in 1 .. Len(s) : s[j] = s[k] => j = k,
         \A k \in 1 .. Len(s) - 1 : h[s[k]].next = s[k + 1],
         Len(s) > 0 => h[s[Len(s)]].next = NULL
  PROVE  Linked!Path(h, FirstOf(s)) = s
<1>1. PICK L \in Nat : L = Len(s)
  OBVIOUS
<1>2. PICK N : N = Cardinality(Node)
  OBVIOUS
<1>3. N \in Nat /\ L <= N
  <2> DEFINE S == {s[k] : k \in 1 .. Len(s)}
  <2>1. Cardinality(S) = L
    BY <1>1, RangeSize
  <2>2. S \in SUBSET Node
    OBVIOUS
  <2>3. Cardinality(S) <= Cardinality(Node) /\ Cardinality(Node) \in Nat
    BY <2>2, NodeAssumption, FS_Subset, FS_CardinalityType
  <2>. QED BY <1>2, <2>1, <2>3
<1> DEFINE f == CHOOSE g : Walk(g, h, FirstOf(s), Linked!Cardinality(Node))
<1>4. Linked!Path(h, FirstOf(s))
        = [k \in 1 .. Linked!Min({n \in 0 .. Linked!Cardinality(Node) : f[n] = NULL}) |-> f[k - 1]]
  BY Zenon DEF Linked!Path, Walk
<1>0. Linked!Cardinality(Node) = N
  BY <1>2, LinkedCardinality, Zenon
<1>5. Walk(f, h, FirstOf(s), N)
  <2>1. \E g : Walk(g, h, FirstOf(s), Linked!Cardinality(Node))
    BY <1>0, <1>3, WalkDefined
  <2>2. Walk(f, h, FirstOf(s), Linked!Cardinality(Node))
    BY <2>1, Zenon
  <2>. QED BY <1>0, <2>2, Zenon
<1> HIDE DEF f
<1>6. Linked!Path(h, FirstOf(s)) = [k \in 1 .. Linked!Min({n \in 0 .. N : f[n] = NULL}) |-> f[k - 1]]
  BY <1>0, <1>4
<1>7. f[0] = FirstOf(s) /\ \A k \in 1 .. N : f[k] = Linked!After(h, f[k - 1])
  BY <1>3, <1>5 DEF Walk
<1>8. \A k \in Nat : k < L => f[k] = s[k + 1]
  <2> DEFINE T == {k \in Nat : k < L => f[k] = s[k + 1]}
  <2>1. 0 \in T
    BY <1>1, <1>7 DEF FirstOf
  <2>2. ASSUME NEW k \in Nat, k \in T PROVE k + 1 \in T
    <3> SUFFICES ASSUME k + 1 < L PROVE f[k + 1] = s[k + 2]
      OBVIOUS
    <3>1. f[k] = s[k + 1] /\ k + 1 \in 1 .. N /\ k + 1 \in 1 .. L - 1
      BY <1>3, <2>2
    <3>2. f[k + 1] = Linked!After(h, s[k + 1])
      BY <1>7, <3>1
    <3>3. s[k + 1] # NULL
      BY <1>1, <3>1, NodeAssumption
    <3>. QED BY <1>1, <3>1, <3>2, <3>3 DEF Linked!After
  <2> HIDE DEF T
  <2>3. \A k \in Nat : k \in T
    BY <2>1, <2>2, SetInduction
  <2>. QED BY <2>3 DEF T
<1>9. f[L] = NULL
  <2>1. CASE L = 0
    BY <1>1, <1>7, <2>1 DEF FirstOf
  <2>2. CASE L # 0
    <3>1. L \in 1 .. N /\ L - 1 \in Nat /\ L - 1 < L
      BY <1>3, <2>2
    <3>2. f[L] = Linked!After(h, f[L - 1]) /\ f[L - 1] = s[L]
      BY <1>7, <1>8, <3>1
    <3>3. s[L] # NULL
      BY <1>1, <3>1, NodeAssumption
    <3>. QED BY <1>1, <3>1, <3>2, <3>3 DEF Linked!After
  <2>. QED BY <2>1, <2>2
<1>10. Linked!Min({n \in 0 .. N : f[n] = NULL}) = L
  <2> DEFINE S == {n \in 0 .. N : f[n] = NULL}
  <2>1. L \in S
    BY <1>3, <1>9
  <2>2. ASSUME NEW n \in S PROVE L <= n
    <3> SUFFICES ASSUME n < L PROVE FALSE
      BY <1>3
    <3>1. n \in Nat /\ f[n] = s[n + 1] /\ s[n + 1] # NULL
      BY <1>1, <1>3, <1>8, NodeAssumption
    <3>. QED BY <3>1
  <2>3. \A x \in S : (\A y \in S : x <= y) => x = L
    BY <1>3, <2>1, <2>2
  <2>. QED BY <2>1, <2>2, <2>3 DEF Linked!Min
<1>11. \A k \in 1 .. L : f[k - 1] = s[k]
  BY <1>8
<1>12. PICK t : t = [k \in 1 .. L |-> f[k - 1]]
  OBVIOUS
<1>13. t = s
  <2>1. t \in Seq(Node) /\ Len(t) = Len(s) /\ \A k \in 1 .. Len(s) : t[k] = s[k]
    BY <1>1, <1>11, <1>12
  <2>. QED BY <2>1
<1>. QED BY <1>6, <1>10, <1>12, <1>13

LEMMA HeldIs ==
  ASSUME NEW h, NEW q, NEW left, Whole(h, q, left), NEW l \in Kept
  PROVE  Linked!Path(h, FirstOf(q[l])) = q[l]
<1>1. l \in Kind /\ q[l] \in Seq(Node)
  BY DEF Kind, Whole, Chained
<1>2. \A j, k \in 1 .. Len(q[l]) : q[l][j] = q[l][k] => j = k
  BY <1>1 DEF Whole, Apart
<1>3. /\ \A k \in 1 .. Len(q[l]) - 1 : h[q[l][k]].next = q[l][k + 1]
      /\ Len(q[l]) > 0 => h[q[l][Len(q[l])]].next = NULL
  BY <1>1 DEF Whole, Chained
<1>. QED BY <1>1, <1>2, <1>3, PathIs

(* The lists account for every node but those left behind.                 *)
NodesOf(q) == {Linked!ToSet(q[l]) : l \in Kept}

LEMMA NodesCounted ==
  ASSUME NEW h, NEW q, NEW left, Whole(h, q, left), Len(q["open"]) = 0
  PROVE  /\ Len(q["list"]) + Len(q["copy"]) + Len(q["fresh"]) + Cardinality(left)
              = Cardinality(DOMAIN h)
         /\ DOMAIN h = left \cup UNION NodesOf(q)
<1> DEFINE R(l) == {q[l][k] : k \in 1 .. Len(q[l])}
<1>1. \A l \in Kind : q[l] \in Seq(Node) /\ R(l) \subseteq DOMAIN h
  BY DEF Whole, Chained
<1>2. ASSUME NEW l \in Kind PROVE IsFiniteSet(R(l)) /\ Cardinality(R(l)) = Len(q[l])
  <2>1. \A j, k \in 1 .. Len(q[l]) : q[l][j] = q[l][k] => j = k
    BY DEF Whole, Apart
  <2>. QED BY <1>1, <2>1, RangeSize
<1>3. ASSUME NEW l \in Kind, NEW m \in Kind, l # m PROVE R(l) \cap R(m) = {}
  BY <1>3 DEF Whole, Apart
<1>4. ASSUME NEW l \in Kind PROVE R(l) \cap left = {}
  BY DEF Whole, Accounted
<1>5. "list" \in Kind /\ "copy" \in Kind /\ "fresh" \in Kind /\ "open" \in Kind
  BY DEF Kind, Kept
<1>6. DOMAIN h = ((R("list") \cup R("copy")) \cup R("fresh")) \cup left
  <2>1. ASSUME NEW n \in DOMAIN h, n \notin left
        PROVE  n \in (R("list") \cup R("copy")) \cup R("fresh")
    <3>1. PICK l \in Kind, k \in Nat : k \in 1 .. Len(q[l]) /\ n = q[l][k]
      BY <2>1 DEF Whole, Accounted
    <3>2. l # "open"
      BY <3>1
    <3>. QED BY <3>1, <3>2 DEF Kind, Kept
  <2>2. left \subseteq DOMAIN h
    BY DEF Whole, Accounted
  <2>. QED BY <1>1, <1>5, <2>1, <2>2
<1>7. IsFiniteSet(left)
  <2>1. left \in SUBSET Node
    BY DEF Whole, Accounted, Chained
  <2>. QED BY <2>1, NodeAssumption, FS_Subset
<1>8. PICK A, B, C : A = R("list") /\ B = R("copy") /\ C = R("fresh")
  OBVIOUS
<1>9. /\ IsFiniteSet(A) /\ IsFiniteSet(B) /\ IsFiniteSet(C)
      /\ Cardinality(A) = Len(q["list"]) /\ Cardinality(B) = Len(q["copy"]) /\ Cardinality(C) = Len(q["fresh"])
      /\ A \cap B = {} /\ (A \cup B) \cap C = {} /\ (A \cup B \cup C) \cap left = {}
  <2>1. /\ IsFiniteSet(A) /\ IsFiniteSet(B) /\ IsFiniteSet(C)
        /\ Cardinality(A) = Len(q["list"]) /\ Cardinality(B) = Len(q["copy"]) /\ Cardinality(C) = Len(q["fresh"])
    BY <1>2, <1>5, <1>8, Zenon
  <2>2. A \cap B = {} /\ A \cap C = {} /\ B \cap C = {}
    BY <1>3, <1>5, <1>8, "list" # "copy", "list" # "fresh", "copy" # "fresh", Zenon
  <2>3. A \cap left = {} /\ B \cap left = {} /\ C \cap left = {}
    BY <1>4, <1>5, <1>8, Zenon
  <2>. QED BY <2>1, <2>2, <2>3
<1>10. PICK D : D = A \cup B
  OBVIOUS
<1>11. IsFiniteSet(D) /\ Cardinality(D) = Cardinality(A) + Cardinality(B)
  <2>1. /\ IsFiniteSet(A \cup B)
        /\ Cardinality(A \cup B) = Cardinality(A) + Cardinality(B) - Cardinality(A \cap B)
    BY <1>9, FS_Union
  <2>2. Cardinality(A \cap B) = 0 /\ Cardinality(A) \in Nat /\ Cardinality(B) \in Nat
    BY <1>9, FS_EmptySet, FS_CardinalityType
  <2>. QED BY <1>10, <2>1, <2>2
<1>12. PICK E : E = D \cup C
  OBVIOUS
<1>13. IsFiniteSet(E) /\ Cardinality(E) = Cardinality(D) + Cardinality(C)
  <2>1. /\ IsFiniteSet(D \cup C)
        /\ Cardinality(D \cup C) = Cardinality(D) + Cardinality(C) - Cardinality(D \cap C)
    BY <1>9, <1>11, FS_Union
  <2>2. Cardinality(D \cap C) = 0 /\ Cardinality(D) \in Nat /\ Cardinality(C) \in Nat
    BY <1>9, <1>10, <1>11, FS_EmptySet, FS_CardinalityType
  <2>. QED BY <1>12, <2>1, <2>2
<1>14. Cardinality(E \cup left) = Cardinality(E) + Cardinality(left)
  <2>1. Cardinality(E \cup left) = Cardinality(E) + Cardinality(left) - Cardinality(E \cap left)
    BY <1>7, <1>13, FS_Union
  <2>2. Cardinality(E \cap left) = 0 /\ Cardinality(E) \in Nat /\ Cardinality(left) \in Nat
    BY <1>7, <1>9, <1>10, <1>12, <1>13, FS_EmptySet, FS_CardinalityType
  <2>. QED BY <2>1, <2>2
<1>15. DOMAIN h = E \cup left
  BY <1>6, <1>8, <1>10, <1>12
<1>16. \A l \in Kind : Linked!ToSet(q[l]) = R(l)
  BY <1>1 DEF Linked!ToSet
<1>17. DOMAIN h = left \cup UNION NodesOf(q)
  <2>1. UNION NodesOf(q) = (R("list") \cup R("copy")) \cup R("fresh")
    <3>1. /\ Linked!ToSet(q["list"]) = R("list") /\ Linked!ToSet(q["copy"]) = R("copy")
          /\ Linked!ToSet(q["fresh"]) = R("fresh")
      BY <1>5, <1>16, Zenon
    <3>2. UNION NodesOf(q)
            = (Linked!ToSet(q["list"]) \cup Linked!ToSet(q["copy"])) \cup Linked!ToSet(q["fresh"])
      BY DEF NodesOf, Kept
    <3>. QED BY <3>1, <3>2, Zenon
  <2>. QED BY <1>6, <2>1
<1>18. Len(q["list"]) + Len(q["copy"]) + Len(q["fresh"]) + Cardinality(left) = Cardinality(DOMAIN h)
  BY <1>9, <1>11, <1>13, <1>14, <1>15, Zenon
<1>. QED BY <1>17, <1>18, Zenon

(* A heap of nodes, as the calls of libft find it.                         *)
NodeRecord == [of : Node, next : Node \cup {NULL}]
HeapType(h) == \A n \in DOMAIN h : h[n] \in NodeRecord

(* g is h with x for the next of n.                                        *)
Relink(h, n, x, g) ==
  /\ DOMAIN g = DOMAIN h /\ g[n].next = x /\ HeapType(g)
  /\ \A m \in DOMAIN h : g[m].of = h[m].of /\ (m # n => g[m] = h[m])

LEMMA NextSet ==
  ASSUME NEW h, HeapType(h), NEW n \in DOMAIN h, NEW x \in Node \cup {NULL}
  PROVE  Relink(h, n, x, [h EXCEPT ![n].next = x])
<1>0. PICK g : g = [h EXCEPT ![n].next = x]
  OBVIOUS
<1>1. DOMAIN g = DOMAIN h /\ g[n] = [h[n] EXCEPT !.next = x] /\ \A m \in DOMAIN h : m # n => g[m] = h[m]
  BY <1>0
<1>2. h[n] \in NodeRecord
  BY DEF HeapType
<1>3. g[n] \in NodeRecord /\ g[n].next = x /\ g[n].of = h[n].of
  BY <1>1, <1>2 DEF NodeRecord
<1>4. HeapType(g)
  BY <1>1, <1>3 DEF HeapType
<1>5. Relink(h, n, x, g)
  BY <1>1, <1>3, <1>4 DEF Relink
<1>. QED BY <1>0, <1>5, Zenon

(* g is h with rec at n.                                                   *)
Added(h, n, rec, g) ==
  /\ HeapType(g) /\ DOMAIN g = DOMAIN h \cup {n} /\ g[n] = rec
  /\ \A m \in DOMAIN h : m # n => g[m] = h[m]

LEMMA PutTyped ==
  ASSUME NEW h, HeapType(h), NEW n, NEW rec \in NodeRecord
  PROVE  Added(h, n, rec, Linked!Put(h, n, rec))
BY DEF Added, HeapType, Linked!Put

LEMMA FreeTyped ==
  ASSUME NEW h, HeapType(h), NEW n
  PROVE  HeapType(Linked!Free(h, n))
BY DEF HeapType, Linked!Free

LEMMA FirstNull ==
  ASSUME NEW h, NEW q, NEW left, Whole(h, q, left), NEW l \in Kind
  PROVE  /\ FirstOf(q[l]) = NULL => Len(q[l]) = 0
         /\ FirstOf(q[l]) # NULL => Len(q[l]) > 0 /\ FirstOf(q[l]) = q[l][1]
<1>1. q[l] \in Seq(Node)
  BY DEF Whole, Chained
<1>2. ASSUME Len(q[l]) # 0 PROVE Len(q[l]) > 0 /\ q[l][1] \in Node
  BY <1>1, <1>2
<1>3. NULL \notin Node
  BY NodeAssumption
<1>. QED BY <1>2, <1>3 DEF FirstOf

(* The next of a node of a list is the one after it, and NULL for the last.*)
LEMMA NextIs ==
  ASSUME NEW h, NEW q, NEW left, Whole(h, q, left), NEW l \in Kept, NEW k \in 1 .. Len(q[l])
  PROVE  /\ q[l][k] \in DOMAIN h /\ q[l][k] \in Node
         /\ h[q[l][k]].next = NULL => k = Len(q[l])
         /\ h[q[l][k]].next # NULL => k + 1 \in 1 .. Len(q[l]) /\ h[q[l][k]].next = q[l][k + 1]
<1>1. l \in Kind /\ q[l] \in Seq(Node) /\ Len(q[l]) \in Nat
  BY DEF Kind, Whole, Chained
<1>2. q[l][k] \in DOMAIN h /\ DOMAIN h \subseteq Node
  BY <1>1 DEF Whole, Chained
<1>3. CASE k = Len(q[l])
  <2>1. h[q[l][k]].next = NULL
    BY <1>1, <1>3 DEF Whole, Chained
  <2>. QED BY <1>2, <1>3, <2>1
<1>4. CASE k # Len(q[l])
  <2>1. k \in 1 .. Len(q[l]) - 1 /\ k + 1 \in 1 .. Len(q[l])
    BY <1>1, <1>4
  <2>2. h[q[l][k]].next = q[l][k + 1]
    BY <1>1, <2>1 DEF Whole, Chained
  <2>3. q[l][k + 1] \in Node
    BY <1>1, <2>1
  <2>. QED BY <1>2, <2>1, <2>2, <2>3, NodeAssumption
<1>. QED BY <1>3, <1>4

-----------------------------------------------------------------------------
(* What the calls keep: the program's pointers are to the lists, and the   *)
(* call in progress is where its step says.                                *)
ListType ==
  /\ HeapType(heap) /\ ptr \in [Kept -> Node \cup {NULL}]
  /\ failed \in Nat /\ (failed = 0 => lost = {})

Points(q) ==
  /\ \A l \in Kept : ptr[l] = FirstOf(q[l]) \/ (pc = "up" /\ l = deleting)
  /\ Len(q["fresh"]) <= 1

(* ft_lstiter has come as far as lst.                                      *)
Iterating(q) ==
  /\ visited \in Seq(Node) /\ Len(visited) \in 1 .. Len(q["list"])
  /\ lst = q["list"][Len(visited)]
  /\ \A k \in 1 .. Len(visited) : visited[k] = q["list"][k]

(* ft_lstmap has copied the elements up to lst.                            *)
Copying(q) ==
  /\ Len(q["copy"]) = 0 /\ Len(q["open"]) \in 1 .. Len(q["list"])
  /\ lst = q["list"][Len(q["open"])]
  /\ first = q["open"][1] /\ prev = q["open"][Len(q["open"])]
  /\ \A k \in 1 .. Len(q["open"]) : heap[q["open"][k]].of = q["list"][k]

(* The calls of ft_lstdel hold the first nodes of the list,                *)
GoingDown(q) ==
  /\ deleting \in {"list", "copy"} /\ whole = q[deleting] /\ visited = << >>
  /\ stack \in Seq(Node) /\ Len(stack) \in 1 .. Len(whole)
  /\ \A k \in 1 .. Len(stack) : stack[k] = whole[k]

(* and, on the way back, those that are left of it.                        *)
ComingUp(q) ==
  /\ deleting \in {"list", "copy"} /\ Len(q[deleting]) = 0
  /\ stack = q["open"] /\ Len(stack) > 0
  /\ visited \in Seq(Node) /\ stack \o Linked!Reverse(visited) = whole

InCall(q) ==
  /\ pc \in {"idle", "iter", "map", "down", "up"}
  /\ pc \in {"idle", "iter", "down"} => Len(q["open"]) = 0
  /\ pc = "iter" => Iterating(q)
  /\ pc = "map" => Copying(q)
  /\ pc = "down" => GoingDown(q)
  /\ pc = "up" => ComingUp(q)

(* The inductive invariant.                                                *)
ListsAre(q) == ListType /\ Whole(heap, q, lost) /\ Points(q) /\ InCall(q)
ListsGood == pc # "crashed" => \E q : ListsAre(q)

LEMMA IdleAre ==
  ASSUME NEW q, pc' = "idle", ListType', Whole(heap', q, lost'), Len(q["open"]) = 0,
         Len(q["fresh"]) <= 1, \A l \in Kept : ptr'[l] = FirstOf(q[l])
  PROVE  ListsGood'
BY Zenon DEF ListsGood, ListsAre, Points, InCall

-----------------------------------------------------------------------------
(* Each step of each call keeps it (the functions ft_lst).                 *)
LEMMA FtLstnewKeeps == ASSUME NEW q, ListsAre(q), Linked!ft_lstnew PROVE ListsGood'
<1>1. /\ pc = "idle" /\ pc' = "idle" /\ ptr["fresh"] = NULL
      /\ ListType /\ Whole(heap, q, lost) /\ Len(q["open"]) = 0
      /\ \A l \in Kept : ptr[l] = FirstOf(q[l])
  BY DEF ListsAre, Points, InCall, Linked!ft_lstnew
<1>2. "fresh" \in Kind /\ "fresh" \in Kept /\ "open" \in Kind
  BY DEF Kind, Kept
<1>3. Len(q["fresh"]) = 0
  BY <1>1, <1>2, FirstNull, Zenon
<1>4. CASE Linked!MallocFails /\ UNCHANGED <<heap, ptr, lost>>
  <2>1. ListType'
    BY <1>1, <1>4 DEF ListType, Linked!MallocFails
  <2>. QED BY <1>1, <1>3, <1>4, <2>1, IdleAre
<1>5. ASSUME NEW n \in Node \ Linked!Live, heap' = Linked!Put(heap, n, [of |-> n, next |-> NULL]),
             \/ Linked!MallocWorks(n) /\ ptr' = [ptr EXCEPT !["fresh"] = n] /\ UNCHANGED lost
             \/ Linked!MallocFails /\ lost' = lost \cup {n} /\ UNCHANGED ptr
      PROVE  ListsGood'
  <2>1. PICK rec : rec = [of |-> n, next |-> NULL]
    OBVIOUS
  <2>2. rec \in NodeRecord /\ rec.next = NULL /\ n \in Node \ DOMAIN heap
    BY <2>1 DEF NodeRecord, Linked!Live
  <2>3. HeapType(heap')
    <3>1. HeapType(heap)
      BY <1>1, Zenon DEF ListType
    <3>2. Added(heap, n, rec, heap')
      BY <1>5, <2>1, <2>2, <3>1, PutTyped, Zenon
    <3>. QED BY <3>2, Zenon DEF Added
  <2>4. CASE Linked!MallocWorks(n) /\ ptr' = [ptr EXCEPT !["fresh"] = n] /\ UNCHANGED lost
    <3>1. PICK r : r = [q EXCEPT !["fresh"] = <<n>>]
      OBVIOUS
    <3>2. Whole(heap', r, lost')
      BY <1>1, <1>2, <1>3, <1>5, <2>1, <2>2, <2>4, <3>1, NodeAdded
    <3>3. r["fresh"] = <<n>> /\ \A l \in Kind : l # "fresh" => r[l] = q[l]
      BY <1>1, <1>2, <3>1 DEF Whole, Chained
    <3>4. \A l \in Kept : ptr'[l] = FirstOf(r[l])
      <4> TAKE l \in Kept
      <4>1. CASE l = "fresh"
        BY <1>1, <2>4, <3>3, <4>1 DEF FirstOf, ListType
      <4>2. CASE l # "fresh"
        BY <1>1, <2>4, <3>3, <4>2 DEF ListType, Kind
      <4>. QED BY <4>1, <4>2
    <3>5. ListType'
      BY <1>1, <2>3, <2>4 DEF ListType, Linked!MallocWorks
    <3>6. Len(r["open"]) = 0 /\ Len(r["fresh"]) <= 1
      BY <1>1, <1>2, <3>3
    <3>. QED BY <1>1, <3>2, <3>4, <3>5, <3>6, IdleAre
  <2>5. CASE Linked!MallocFails /\ lost' = lost \cup {n} /\ UNCHANGED ptr
    <3>1. Whole(heap', q, lost')
      BY <1>1, <1>5, <2>1, <2>2, <2>5, NodeLost
    <3>2. ListType'
      BY <1>1, <2>3, <2>5 DEF ListType, Linked!MallocFails
    <3>3. Len(q["fresh"]) <= 1
      BY <1>3
    <3>4. \A l \in Kept : ptr'[l] = FirstOf(q[l])
      BY <1>1, <2>5
    <3>. QED BY <1>1, <3>1, <3>2, <3>3, <3>4, IdleAre
  <2>. QED BY <1>5, <2>4, <2>5
<1>. QED BY <1>4, <1>5 DEF Linked!ft_lstnew

LEMMA FtLstaddKeeps == ASSUME NEW q, ListsAre(q), Linked!ft_lstadd PROVE ListsGood'
<1>1. /\ pc = "idle" /\ pc' = "idle" /\ ptr["fresh"] # NULL
      /\ ListType /\ Whole(heap, q, lost) /\ Len(q["open"]) = 0
      /\ \A l \in Kept : ptr[l] = FirstOf(q[l])
      /\ Len(q["fresh"]) <= 1
      /\ heap' = [heap EXCEPT ![ptr["fresh"]].next = ptr["list"]]
      /\ ptr' = [ptr EXCEPT !["list"] = ptr["fresh"], !["fresh"] = NULL]
      /\ lost' = lost /\ failed' = failed
  BY DEF ListsAre, Points, InCall, Linked!ft_lstadd
<1>2. "fresh" \in Kind /\ "fresh" \in Kept /\ "list" \in Kind /\ "list" \in Kept /\ "open" \in Kind
  BY DEF Kind, Kept
<1>3. q["fresh"] \in Seq(Node) /\ q["list"] \in Seq(Node)
  BY <1>1, <1>2 DEF Whole, Chained
<1>4. FirstOf(q["fresh"]) # NULL
  BY <1>1, <1>2, Zenon
<1>5. Len(q["fresh"]) = 1 /\ ptr["fresh"] = q["fresh"][1]
  <2>1. Len(q["fresh"]) > 0 /\ FirstOf(q["fresh"]) = q["fresh"][1]
    BY <1>1, <1>2, <1>4, FirstNull
  <2>2. Len(q["fresh"]) \in Nat /\ Len(q["fresh"]) <= 1
    BY <1>1, <1>3
  <2>3. ptr["fresh"] = FirstOf(q["fresh"])
    BY <1>1, <1>2, Zenon
  <2>4. PICK N \in Nat : N = Len(q["fresh"])
    BY <2>2
  <2>5. N > 0 /\ N <= 1
    BY <2>1, <2>2, <2>4, Zenon
  <2>6. N = 1
    BY <2>5
  <2>. QED BY <2>1, <2>3, <2>4, <2>6, Zenon
<1>6. PICK n : n = q["fresh"][1]
  OBVIOUS
<1>7. n \in DOMAIN heap /\ n \in Node
  BY <1>1, <1>2, <1>3, <1>5, <1>6 DEF Whole, Chained
<1>8. ptr["list"] = FirstOf(q["list"]) /\ ptr["list"] \in Node \cup {NULL}
  BY <1>1, <1>2 DEF ListType
<1>9. /\ DOMAIN heap' = DOMAIN heap /\ heap'[n].next = ptr["list"] /\ HeapType(heap')
      /\ \A m \in DOMAIN heap : m # n => heap'[m] = heap[m]
  <2>1. heap' = [heap EXCEPT ![n].next = ptr["list"]] /\ HeapType(heap)
    BY <1>1, <1>5, <1>6 DEF ListType
  <2>2. Relink(heap, n, ptr["list"], heap')
    BY <1>7, <1>8, <2>1, NextSet, Zenon
  <2>. QED BY <2>2, Zenon DEF Relink
<1>10. PICK r : r = [q EXCEPT !["list"] = <<q["fresh"][1]>> \o q["list"], !["fresh"] = << >>]
  OBVIOUS
<1>11. Whole(heap', r, lost')
  <2>1. heap'[q["fresh"][1]].next = IF Len(q["list"]) = 0 THEN NULL ELSE q["list"][1]
    BY <1>6, <1>8, <1>9 DEF FirstOf
  <2>. QED BY <1>1, <1>5, <1>6, <1>9, <1>10, <2>1, Linked1st
<1>12. /\ r["list"] = <<n>> \o q["list"] /\ r["fresh"] = << >>
       /\ \A l \in Kind : l # "list" /\ l # "fresh" => r[l] = q[l]
  <2>1. q \in [Kind -> Seq(Node)]
    BY <1>1 DEF Whole, Chained
  <2>. QED BY <1>2, <1>6, <1>10, <2>1
<1>13. FirstOf(r["list"]) = n
  <2>1. Len(<<n>> \o q["list"]) > 0 /\ (<<n>> \o q["list"])[1] = n
    BY <1>3, <1>7
  <2>. QED BY <1>12, <2>1 DEF FirstOf
<1>14. \A l \in Kept : ptr'[l] = FirstOf(r[l])
  <2> TAKE l \in Kept
  <2>1. CASE l = "list"
    BY <1>1, <1>5, <1>6, <1>13, <2>1 DEF ListType
  <2>2. CASE l = "fresh"
    BY <1>1, <1>12, <2>2 DEF ListType, FirstOf
  <2>3. CASE l # "list" /\ l # "fresh"
    BY <1>1, <1>12, <2>3 DEF ListType, Kind
  <2>. QED BY <2>1, <2>2, <2>3
<1>15. ListType'
  BY <1>1, <1>5, <1>6, <1>7, <1>9 DEF ListType
<1>16. Len(r["open"]) = 0 /\ Len(r["fresh"]) <= 1
  BY <1>1, <1>2, <1>12
<1>. QED BY <1>1, <1>11, <1>14, <1>15, <1>16, IdleAre

LEMMA FtLstdeloneKeeps == ASSUME NEW q, ListsAre(q), Linked!ft_lstdelone PROVE ListsGood'
<1>1. /\ pc = "idle" /\ pc' = "idle" /\ ptr["fresh"] # NULL
      /\ ListType /\ Whole(heap, q, lost) /\ Len(q["open"]) = 0
      /\ \A l \in Kept : ptr[l] = FirstOf(q[l])
      /\ Len(q["fresh"]) <= 1
      /\ heap' = Linked!Free(heap, ptr["fresh"]) /\ ptr' = [ptr EXCEPT !["fresh"] = NULL]
      /\ lost' = lost /\ failed' = failed
  BY DEF ListsAre, Points, InCall, Linked!ft_lstdelone
<1>2. "fresh" \in Kind /\ "fresh" \in Kept /\ "open" \in Kind
  BY DEF Kind, Kept
<1>3. q["fresh"] \in Seq(Node)
  BY <1>1, <1>2 DEF Whole, Chained
<1>4. FirstOf(q["fresh"]) # NULL
  BY <1>1, <1>2, Zenon
<1>5. Len(q["fresh"]) = 1 /\ ptr["fresh"] = q["fresh"][1]
  <2>1. Len(q["fresh"]) > 0 /\ FirstOf(q["fresh"]) = q["fresh"][1]
    BY <1>1, <1>2, <1>4, FirstNull
  <2>2. Len(q["fresh"]) \in Nat /\ Len(q["fresh"]) <= 1
    BY <1>1, <1>3
  <2>3. ptr["fresh"] = FirstOf(q["fresh"])
    BY <1>1, <1>2, Zenon
  <2>4. PICK N \in Nat : N = Len(q["fresh"])
    BY <2>2
  <2>5. N > 0 /\ N <= 1
    BY <2>1, <2>2, <2>4, Zenon
  <2>6. N = 1
    BY <2>5
  <2>. QED BY <2>1, <2>3, <2>4, <2>6, Zenon
<1>6. PICK r : r = [q EXCEPT !["fresh"] = SubSeq(q["fresh"], 1, Len(q["fresh"]) - 1)]
  OBVIOUS
<1>7. Whole(heap', r, lost')
  <2>1. ptr["fresh"] = q["fresh"][Len(q["fresh"])]
    BY <1>5
  <2>2. Len(q["fresh"]) > 0 /\ ("fresh" # "open" => Len(q["fresh"]) = 1) /\ Whole(heap, q, lost)
    BY <1>1, <1>5
  <2>3. Whole(Linked!Free(heap, q["fresh"][Len(q["fresh"])]),
              [q EXCEPT !["fresh"] = SubSeq(q["fresh"], 1, Len(q["fresh"]) - 1)], lost)
    BY <1>2, <2>2, Freed
  <2>. QED BY <1>1, <1>6, <2>1, <2>3, Zenon
<1>8. Len(r["fresh"]) = 0 /\ \A l \in Kind : l # "fresh" => r[l] = q[l]
  <2>1. q \in [Kind -> Seq(Node)]
    BY <1>1 DEF Whole, Chained
  <2>2. r["fresh"] = SubSeq(q["fresh"], 1, 0)
    BY <1>2, <1>5, <1>6, <2>1
  <2>3. Len(SubSeq(q["fresh"], 1, 0)) = 0
    BY <1>3
  <2>. QED BY <1>6, <2>1, <2>2, <2>3
<1>9. \A l \in Kept : ptr'[l] = FirstOf(r[l])
  <2> TAKE l \in Kept
  <2>1. CASE l = "fresh"
    BY <1>1, <1>8, <2>1 DEF ListType, FirstOf
  <2>2. CASE l # "fresh"
    BY <1>1, <1>8, <2>2 DEF ListType, Kind
  <2>. QED BY <2>1, <2>2
<1>10. ListType'
  BY <1>1, FreeTyped DEF ListType
<1>11. Len(r["open"]) = 0 /\ Len(r["fresh"]) <= 1
  BY <1>1, <1>2, <1>8
<1>. QED BY <1>1, <1>7, <1>9, <1>10, <1>11, IdleAre

LEMMA StartIterKeeps == ASSUME NEW q, ListsAre(q), Linked!StartIter PROVE ListsGood'
<1>1. /\ pc = "idle" /\ pc' = "iter" /\ ptr["list"] # NULL
      /\ ListType /\ Whole(heap, q, lost) /\ Len(q["open"]) = 0
      /\ \A l \in Kept : ptr[l] = FirstOf(q[l])
      /\ Len(q["fresh"]) <= 1
      /\ lst' = ptr["list"] /\ visited' = <<lst'>>
      /\ heap' = heap /\ ptr' = ptr /\ lost' = lost /\ failed' = failed
  BY DEF ListsAre, Points, InCall, Linked!StartIter
<1>2. "list" \in Kind /\ "list" \in Kept
  BY DEF Kind, Kept
<1>3. q["list"] \in Seq(Node)
  BY <1>1, <1>2 DEF Whole, Chained
<1>4. Len(q["list"]) > 0 /\ ptr["list"] = q["list"][1]
  BY <1>1, <1>2, FirstNull
<1>5. PICK n : n = q["list"][1]
  OBVIOUS
<1>6. n \in Node /\ visited' = <<n>> /\ lst' = n
  BY <1>1, <1>3, <1>4, <1>5
<1>7. visited' \in Seq(Node) /\ Len(visited') = 1 /\ visited'[1] = n
  BY <1>6
<1>8. Iterating(q)'
  <2>1. Len(visited') \in 1 .. Len(q["list"])
    BY <1>3, <1>4, <1>7
  <2>2. \A k \in 1 .. Len(visited') : visited'[k] = q["list"][k]
    BY <1>5, <1>7
  <2>3. lst' = q["list"][Len(visited')]
    BY <1>5, <1>6, <1>7
  <2>. QED BY <1>7, <2>1, <2>2, <2>3 DEF Iterating
<1>9. ListType'
  BY <1>1 DEF ListType
<1>10. Points(q)'
  BY <1>1 DEF Points
<1>11. InCall(q)'
  BY <1>1, <1>8 DEF InCall
<1>12. ListsAre(q)'
  BY <1>1, <1>9, <1>10, <1>11 DEF ListsAre
<1>. QED BY <1>12 DEF ListsGood

LEMMA IterKeeps == ASSUME NEW q, ListsAre(q), Linked!Iter PROVE ListsGood'
<1>1. /\ pc = "iter" /\ lst' = heap[lst].next
      /\ IF lst' = NULL THEN pc' = "idle" /\ UNCHANGED visited
         ELSE visited' = Append(visited, lst') /\ UNCHANGED pc
      /\ ListType /\ Whole(heap, q, lost) /\ Len(q["open"]) = 0 /\ Iterating(q)
      /\ \A l \in Kept : ptr[l] = FirstOf(q[l])
      /\ Len(q["fresh"]) <= 1
      /\ heap' = heap /\ ptr' = ptr /\ lost' = lost /\ failed' = failed
  BY DEF ListsAre, Points, InCall, Linked!Iter
<1>2. "list" \in Kind /\ "list" \in Kept
  BY DEF Kind, Kept
<1>3. q["list"] \in Seq(Node)
  BY <1>1, <1>2 DEF Whole, Chained
<1>4. ListType'
  BY <1>1 DEF ListType
<1>5. PICK n \in 1 .. Len(q["list"]) : n = Len(visited)
  BY <1>1 DEF Iterating
<1>6. lst = q["list"][n]
  BY <1>1, <1>5 DEF Iterating
<1>7. CASE lst' = NULL
  BY <1>1, <1>4, <1>7, IdleAre
<1>8. CASE lst' # NULL
  <2>1. n + 1 \in 1 .. Len(q["list"]) /\ lst' = q["list"][n + 1]
    BY <1>1, <1>2, <1>6, <1>8, NextIs
  <2>2. lst' \in Node
    BY <1>3, <2>1
  <2>3. /\ visited' \in Seq(Node) /\ Len(visited') = n + 1 /\ visited'[n + 1] = lst'
        /\ \A k \in 1 .. n : visited'[k] = visited[k]
    BY <1>1, <1>5, <1>8, <2>2 DEF Iterating
  <2>4. \A k \in 1 .. n + 1 : visited'[k] = q["list"][k]
    <3> TAKE k \in 1 .. n + 1
    <3>1. CASE k = n + 1
      BY <2>1, <2>3, <3>1
    <3>2. CASE k # n + 1
      <4>1. k \in 1 .. n
        BY <3>2
      <4>. QED BY <1>1, <1>5, <2>3, <4>1 DEF Iterating
    <3>. QED BY <3>1, <3>2
  <2>5. Iterating(q)'
    BY <2>1, <2>3, <2>4 DEF Iterating
  <2>6. Points(q)'
    BY <1>1 DEF Points
  <2>7. InCall(q)'
    BY <1>1, <1>8, <2>5 DEF InCall
  <2>8. ListsAre(q)'
    BY <1>1, <1>4, <2>6, <2>7 DEF ListsAre
  <2>. QED BY <2>8 DEF ListsGood
<1>. QED BY <1>7, <1>8

LEMMA StartMapKeeps == ASSUME NEW q, ListsAre(q), Linked!StartMap PROVE ListsGood'
<1>1. /\ pc = "idle" /\ ptr["list"] # NULL /\ ptr["copy"] = NULL
      /\ ListType /\ Whole(heap, q, lost) /\ Len(q["open"]) = 0
      /\ \A l \in Kept : ptr[l] = FirstOf(q[l])
      /\ Len(q["fresh"]) <= 1
      /\ ptr' = ptr /\ lost' = lost
  BY DEF ListsAre, Points, InCall, Linked!StartMap
<1>2. "list" \in Kind /\ "list" \in Kept /\ "copy" \in Kind /\ "copy" \in Kept /\ "open" \in Kind
  BY DEF Kind, Kept
<1>3. q["list"] \in Seq(Node)
  BY <1>1, <1>2 DEF Whole, Chained
<1>4. Len(q["list"]) > 0 /\ ptr["list"] = q["list"][1]
  BY <1>1, <1>2, FirstNull
<1>5. Len(q["copy"]) = 0
  BY <1>1, <1>2, FirstNull, Zenon
<1>6. CASE pc' = "crashed"
  BY <1>6 DEF ListsGood
<1>7. ASSUME NEW n \in Node \ Linked!Live, Linked!Copied(n, ptr["list"]),
             pc' = "map", first' = n, prev' = n, lst' = ptr["list"]
      PROVE  ListsGood'
  <2>1. PICK x \in {NULL, ptr["list"]} : heap' = Linked!Put(heap, n, [of |-> ptr["list"], next |-> x])
    BY <1>7 DEF Linked!Copied
  <2>2. PICK rec : rec = [of |-> ptr["list"], next |-> x]
    OBVIOUS
  <2>3. ptr["list"] \in Node
    BY <1>3, <1>4
  <2>4. rec \in NodeRecord /\ rec.of = q["list"][1] /\ n \in Node \ DOMAIN heap
    BY <1>4, <2>2, <2>3 DEF NodeRecord, Linked!Live
  <2>5. HeapType(heap') /\ heap'[n] = rec
    <3>1. HeapType(heap)
      BY <1>1, Zenon DEF ListType
    <3>2. Added(heap, n, rec, heap')
      BY <2>1, <2>2, <2>4, <3>1, PutTyped, Zenon
    <3>. QED BY <3>2, Zenon DEF Added
  <2>6. PICK r : r = [q EXCEPT !["open"] = <<n>>]
    OBVIOUS
  <2>7. Whole(heap', r, lost')
    BY <1>1, <1>2, <2>1, <2>2, <2>4, <2>6, NodeAdded
  <2>8. r["open"] = <<n>> /\ \A l \in Kind : l # "open" => r[l] = q[l]
    BY <1>1, <1>2, <2>6 DEF Whole, Chained
  <2>9. Len(r["open"]) = 1 /\ r["open"][1] = n /\ r["list"] = q["list"] /\ r["copy"] = q["copy"] /\ r["fresh"] = q["fresh"]
    BY <2>8 DEF Kind, Kept
  <2>10. Copying(r)'
    <3>1. \A k \in 1 .. Len(r["open"]) : heap'[r["open"][k]].of = r["list"][k]
      BY <2>4, <2>5, <2>9
    <3>2. Len(r["open"]) \in 1 .. Len(r["list"])
      BY <1>3, <1>4, <2>9
    <3>3. Len(r["copy"]) = 0
      BY <1>5, <2>9
    <3>. QED BY <1>4, <1>7, <2>9, <3>1, <3>2, <3>3 DEF Copying
  <2>11. \A l \in Kept : ptr'[l] = FirstOf(r[l])
    BY <1>1, <2>9 DEF Kept
  <2>12. Points(r)'
    BY <1>1, <2>9, <2>11 DEF Points
  <2>13. ListType'
    BY <1>1, <1>7, <2>5 DEF ListType, Linked!Copied, Linked!MallocWorks
  <2>14. InCall(r)'
    BY <1>7, <2>10 DEF InCall
  <2>15. ListsAre(r)'
    BY <2>7, <2>12, <2>13, <2>14 DEF ListsAre
  <2>. QED BY <2>15 DEF ListsGood
<1>. QED BY <1>6, <1>7 DEF Linked!StartMap

(* Where ft_lstmap is, and what its steps that end it do: the last node of *)
(* the copy has NULL next.                                                 *)
LEMMA InMap ==
  ASSUME NEW q, ListsAre(q), pc = "map"
  PROVE  /\ ListType /\ Whole(heap, q, lost) /\ Copying(q)
         /\ \A l \in Kept : ptr[l] = FirstOf(q[l])
         /\ Len(q["fresh"]) <= 1
         /\ q["open"] \in Seq(Node) /\ q["list"] \in Seq(Node)
         /\ \E L \in Nat : L = Len(q["open"]) /\ L > 0 /\ L <= Len(q["list"]) /\ L \in 1 .. Len(q["list"])
         /\ prev \in DOMAIN heap /\ prev \in Node
         /\ heap[lst].next = NULL => Len(q["open"]) = Len(q["list"])
         /\ heap[lst].next # NULL => /\ Len(q["open"]) + 1 \in 1 .. Len(q["list"])
                                     /\ heap[lst].next = q["list"][Len(q["open"]) + 1]
<1>1. ListType /\ Whole(heap, q, lost) /\ Copying(q) /\ Len(q["fresh"]) <= 1
  BY DEF ListsAre, Points, InCall
<1>2. \A l \in Kept : ptr[l] = FirstOf(q[l])
  BY DEF ListsAre, Points
<1>3. "list" \in Kind /\ "list" \in Kept /\ "open" \in Kind
  BY DEF Kind, Kept
<1>4. q["open"] \in Seq(Node) /\ q["list"] \in Seq(Node)
  BY <1>1, <1>3 DEF Whole, Chained
<1>5. PICK L \in 1 .. Len(q["list"]) : L = Len(q["open"]) /\ lst = q["list"][L] /\ prev = q["open"][L]
  BY <1>1 DEF Copying
<1>6. L \in Nat /\ L > 0 /\ L <= Len(q["list"])
  BY <1>4
<1>7. prev \in DOMAIN heap /\ prev \in Node
  <2>1. L \in 1 .. Len(q["open"])
    BY <1>5, <1>6
  <2>2. q["open"][L] \in DOMAIN heap /\ DOMAIN heap \subseteq Node
    BY <1>1, <1>3, <2>1, Zenon DEF Whole, Chained
  <2>. QED BY <1>5, <2>2
<1>8. /\ heap[lst].next = NULL => L = Len(q["list"])
      /\ heap[lst].next # NULL => L + 1 \in 1 .. Len(q["list"]) /\ heap[lst].next = q["list"][L + 1]
  BY <1>1, <1>3, <1>5, NextIs
<1>9. \E M \in Nat : M = Len(q["open"]) /\ M > 0 /\ M <= Len(q["list"]) /\ M \in 1 .. Len(q["list"])
  BY <1>5, <1>6
<1>. QED BY <1>1, <1>2, <1>4, <1>5, <1>7, <1>8, <1>9, Zenon

Ended(q, x, g) ==
  /\ Whole(g, q, lost) /\ HeapType(g) /\ DOMAIN g = DOMAIN heap
  /\ g[q["open"][Len(q["open"])]].next = x
  /\ \A k \in 1 .. Len(q["open"]) : g[q["open"][k]].of = q["list"][k]

LEMMA LastCut ==
  ASSUME NEW q, ListsAre(q), pc = "map", NEW x \in Node \cup {NULL}
  PROVE  Ended(q, x, [heap EXCEPT ![prev].next = x])
<1>0. PICK g : g = [heap EXCEPT ![prev].next = x]
  OBVIOUS
<1>1. /\ HeapType(heap) /\ Whole(heap, q, lost) /\ Copying(q) /\ prev \in DOMAIN heap
      /\ Len(q["open"]) > 0 /\ prev = q["open"][Len(q["open"])]
  <2>1. ListType /\ Whole(heap, q, lost) /\ Copying(q) /\ prev \in DOMAIN heap
    BY InMap
  <2>2. \E L \in Nat : L = Len(q["open"]) /\ L > 0
    BY InMap
  <2>. QED BY <2>1, <2>2 DEF ListType, Copying
<1>2. Relink(heap, prev, x, g)
  BY <1>0, <1>1, NextSet, Zenon
<1>3. Whole(g, q, lost)
  BY <1>1, <1>2, Relinked DEF Relink
<1>4. \A k \in 1 .. Len(q["open"]) : q["open"][k] \in DOMAIN heap
  BY <1>1 DEF Whole, Chained, Kind
<1>5. \A k \in 1 .. Len(q["open"]) : g[q["open"][k]].of = q["list"][k]
  BY <1>1, <1>2, <1>4 DEF Relink, Copying
<1>6. Ended(q, x, g)
  BY <1>1, <1>2, <1>3, <1>5, Zenon DEF Ended, Relink
<1>. QED BY <1>0, <1>6, Zenon

LEMMA MapKeeps == ASSUME NEW q, ListsAre(q), Linked!Map PROVE ListsGood'
<1>1. /\ pc = "map" /\ heap[lst].next # NULL /\ ptr' = ptr
  BY DEF Linked!Map
<1>2. /\ ListType /\ Whole(heap, q, lost) /\ Copying(q)
      /\ \A l \in Kept : ptr[l] = FirstOf(q[l])
      /\ Len(q["fresh"]) <= 1
      /\ q["open"] \in Seq(Node) /\ q["list"] \in Seq(Node)
  BY <1>1, InMap
<1>3. PICK L \in Nat : L = Len(q["open"]) /\ L > 0 /\ L <= Len(q["list"])
  BY <1>1, InMap
<1>4. L + 1 \in 1 .. Len(q["list"]) /\ heap[lst].next = q["list"][L + 1]
  BY <1>1, <1>3, InMap
<1>5. "list" \in Kind /\ "copy" \in Kind /\ "fresh" \in Kind /\ "open" \in Kind /\ "open" \notin Kept
  BY DEF Kind, Kept
<1>6. CASE /\ Linked!MallocFails
           /\ heap' = [heap EXCEPT ![prev].next = NULL]
           /\ lost' = lost \cup Linked!ToSet(Linked!Path(heap', first))
           /\ pc' = "idle"
  <2>1. PICK g : g = heap'
    OBVIOUS
  <2>2. Whole(g, q, lost) /\ HeapType(g) /\ g[q["open"][L]].next = NULL
    <3>1. Ended(q, NULL, g)
      BY <1>1, <1>6, <2>1, LastCut, Zenon
    <3>. QED BY <1>3, <3>1, Zenon DEF Ended
  <2>3. Linked!Path(g, first) = q["open"]
    <3>1. first = FirstOf(q["open"])
      BY <1>2, <1>3 DEF Copying, FirstOf
    <3>2. \A j, k \in 1 .. Len(q["open"]) : q["open"][j] = q["open"][k] => j = k
      BY <1>2, <1>5 DEF Whole, Apart
    <3>3. \A k \in 1 .. Len(q["open"]) - 1 : g[q["open"][k]].next = q["open"][k + 1]
      BY <1>5, <2>2 DEF Whole, Chained
    <3>4. Len(q["open"]) > 0 => g[q["open"][Len(q["open"])]].next = NULL
      BY <1>3, <2>2
    <3>5. Linked!Path(g, FirstOf(q["open"])) = q["open"]
      BY <1>2, <3>2, <3>3, <3>4, PathIs
    <3>. QED BY <3>1, <3>5, Zenon
  <2>4. PICK r : r = [q EXCEPT !["open"] = << >>]
    OBVIOUS
  <2>5. Whole(g, r, lost \cup Linked!ToSet(q["open"]))
    BY <1>3, <2>2, <2>4, Abandoned
  <2>6. Whole(heap', r, lost')
    BY <1>6, <2>1, <2>3, <2>5, Zenon
  <2>7. r["open"] = << >> /\ \A l \in Kind : l # "open" => r[l] = q[l]
    BY <1>2, <1>5, <2>4 DEF Whole, Chained
  <2>8. \A l \in Kept : ptr'[l] = FirstOf(r[l])
    BY <1>1, <1>2, <1>5, <2>7 DEF Kind
  <2>9. ListType'
    BY <1>1, <1>2, <1>6, <2>1, <2>2 DEF ListType, Linked!MallocFails
  <2>10. Len(r["open"]) = 0 /\ Len(r["fresh"]) <= 1
    BY <1>2, <1>5, <2>7
  <2>. QED BY <1>6, <2>6, <2>8, <2>9, <2>10, IdleAre
<1>7. ASSUME NEW n \in Node \ Linked!Live, NEW x \in {NULL, heap[lst].next},
             Linked!MallocWorks(n), prev' = n, lst' = heap[lst].next,
             heap' = Linked!Put([heap EXCEPT ![prev].next = n], n, [of |-> heap[lst].next, next |-> x]),
             pc' = pc, first' = first, lost' = lost
      PROVE  ListsGood'
  <2>1. PICK g : g = [heap EXCEPT ![prev].next = n]
    OBVIOUS
  <2>2. /\ Whole(g, q, lost) /\ HeapType(g) /\ DOMAIN g = DOMAIN heap
        /\ g[q["open"][L]].next = n
        /\ \A k \in 1 .. L : g[q["open"][k]].of = q["list"][k]
    <3>1. Ended(q, n, g)
      BY <1>1, <2>1, LastCut, Zenon
    <3>. QED BY <1>3, <3>1, Zenon DEF Ended
  <2>3. PICK rec : rec = [of |-> heap[lst].next, next |-> x]
    OBVIOUS
  <2>4. q["list"][L + 1] \in Node
    BY <1>2, <1>4
  <2>5. rec \in NodeRecord /\ rec.of = q["list"][L + 1] /\ n \in Node \ DOMAIN g
    BY <1>4, <2>2, <2>3, <2>4 DEF NodeRecord, Linked!Live
  <2>6. heap' = Linked!Put(g, n, rec)
    BY <1>7, <2>1, <2>3
  <2>7. HeapType(heap') /\ heap'[n] = rec /\ \A m \in DOMAIN g : m # n => heap'[m] = g[m]
    <3>1. Added(g, n, rec, heap')
      BY <2>2, <2>5, <2>6, PutTyped, Zenon
    <3>. QED BY <3>1, Zenon DEF Added
  <2>8. PICK r : r = [q EXCEPT !["open"] = Append(q["open"], n)]
    OBVIOUS
  <2>9. Whole(heap', r, lost')
    <3>1. Whole(Linked!Put(g, n, rec), [q EXCEPT !["open"] = Append(q["open"], n)], lost)
      BY <1>3, <2>2, <2>5, NodeAppended
    <3>. QED BY <1>7, <2>6, <2>8, <3>1, Zenon
  <2>10. /\ r["open"] = Append(q["open"], n)
         /\ r["list"] = q["list"] /\ r["copy"] = q["copy"] /\ r["fresh"] = q["fresh"]
    BY <1>2, <1>5, <2>8 DEF Whole, Chained
  <2>11. /\ Len(r["open"]) = L + 1 /\ r["open"][L + 1] = n
         /\ \A k \in 1 .. L : r["open"][k] = q["open"][k]
    BY <1>2, <1>3, <2>10
  <2>12. \A k \in 1 .. L + 1 : heap'[r["open"][k]].of = q["list"][k]
    <3> TAKE k \in 1 .. L + 1
    <3>1. CASE k = L + 1
      BY <2>5, <2>7, <2>11, <3>1
    <3>2. CASE k # L + 1
      <4>1. k \in 1 .. L
        BY <3>2
      <4>2. q["open"][k] \in DOMAIN g /\ q["open"][k] # n
        BY <1>3, <1>5, <2>2, <2>5, <4>1 DEF Whole, Chained
      <4>. QED BY <2>2, <2>7, <2>11, <4>1, <4>2
    <3>. QED BY <3>1, <3>2
  <2>13. Copying(r)'
    <3>1. Len(r["copy"]) = 0
      BY <1>2, <2>10 DEF Copying
    <3>2. Len(r["open"]) \in 1 .. Len(r["list"])
      BY <1>4, <2>10, <2>11
    <3>3. lst' = r["list"][Len(r["open"])] /\ prev' = r["open"][Len(r["open"])]
      BY <1>4, <1>7, <2>10, <2>11
    <3>4. first' = r["open"][1]
      <4>1. 1 \in 1 .. L
        BY <1>3
      <4>2. first = q["open"][1]
        BY <1>2 DEF Copying
      <4>. QED BY <1>7, <2>11, <4>1, <4>2, Zenon
    <3>5. \A k \in 1 .. Len(r["open"]) : heap'[r["open"][k]].of = r["list"][k]
      BY <2>10, <2>11, <2>12
    <3>. QED BY <3>1, <3>2, <3>3, <3>4, <3>5 DEF Copying
  <2>14. Points(r)'
    <3>1. \A l \in Kept : ptr'[l] = FirstOf(r[l])
      BY <1>1, <1>2, <2>10 DEF Kept
    <3>. QED BY <1>2, <2>10, <3>1 DEF Points
  <2>15. ListType'
    BY <1>1, <1>2, <1>7, <2>7 DEF ListType, Linked!MallocWorks
  <2>16. InCall(r)'
    BY <1>1, <1>7, <2>13 DEF InCall
  <2>17. ListsAre(r)'
    BY <2>9, <2>14, <2>15, <2>16 DEF ListsAre
  <2>. QED BY <2>17 DEF ListsGood
<1>. QED BY <1>6, <1>7 DEF Linked!Map

(* The list that ft_lstmap returns is what it has copied.                  *)
LEMMA EndMapKeeps ==
  ASSUME NEW q, ListsAre(q), Linked!EndMap
  PROVE  ListsGood' /\ Linked!CopyMatches
<1>1. /\ pc = "map" /\ pc' = "idle" /\ heap[lst].next = NULL
      /\ heap' = [heap EXCEPT ![prev].next = NULL]
      /\ ptr' = [ptr EXCEPT !["copy"] = first]
      /\ lost' = lost /\ failed' = failed
  BY DEF Linked!EndMap
<1>2. /\ ListType /\ Whole(heap, q, lost) /\ Copying(q)
      /\ \A l \in Kept : ptr[l] = FirstOf(q[l])
      /\ Len(q["fresh"]) <= 1
      /\ q["open"] \in Seq(Node) /\ q["list"] \in Seq(Node)
  BY <1>1, InMap
<1>3. PICK L \in Nat : L = Len(q["open"]) /\ L > 0
  BY <1>1, InMap
<1>4. L = Len(q["list"])
  BY <1>1, <1>3, InMap
<1>5. /\ "list" \in Kind /\ "copy" \in Kind /\ "fresh" \in Kind /\ "open" \in Kind
      /\ "list" \in Kept /\ "copy" \in Kept
  BY DEF Kind, Kept
<1>6. PICK g : g = heap'
  OBVIOUS
<1>7. /\ Whole(g, q, lost) /\ HeapType(g) /\ g[q["open"][L]].next = NULL
      /\ \A k \in 1 .. L : g[q["open"][k]].of = q["list"][k]
  <2>1. Ended(q, NULL, g)
    BY <1>1, <1>6, LastCut, Zenon
  <2>. QED BY <1>3, <2>1, Zenon DEF Ended
<1>8. PICK r : r = [q EXCEPT !["copy"] = q["open"], !["open"] = << >>]
  OBVIOUS
<1>9. Whole(g, r, lost)
  <2>1. Len(q["copy"]) = 0
    BY <1>2 DEF Copying
  <2>. QED BY <1>3, <1>5, <1>7, <1>8, <2>1, Moved
<1>10. r["open"] = << >> /\ r["copy"] = q["open"] /\ r["list"] = q["list"] /\ r["fresh"] = q["fresh"]
  BY <1>2, <1>5, <1>8 DEF Whole, Chained
<1>11. first = FirstOf(q["open"])
  BY <1>2, <1>3 DEF Copying, FirstOf
<1>12. \A l \in Kept : ptr'[l] = FirstOf(r[l])
  BY <1>1, <1>2, <1>10, <1>11 DEF Kept, ListType
<1>13. first \in Node
  BY <1>2, <1>3 DEF Copying
<1>14. ListType'
  BY <1>1, <1>2, <1>6, <1>7, <1>13 DEF ListType
<1>15. Len(r["open"]) = 0 /\ Len(r["fresh"]) <= 1
  BY <1>2, <1>10
<1>16. ListsGood'
  BY <1>1, <1>6, <1>9, <1>12, <1>14, <1>15, IdleAre
<1>17. Linked!Path(heap, ptr["list"]) = q["list"]
  BY <1>2, <1>5, HeldIs, Zenon
<1>18. Linked!Path(heap', ptr'["copy"]) = q["open"]
  <2>1. Linked!Path(g, FirstOf(r["copy"])) = r["copy"]
    BY <1>5, <1>9, HeldIs, Zenon
  <2>. QED BY <1>5, <1>6, <1>10, <1>12, <2>1, Zenon
<1>19. ASSUME NEW k \in DOMAIN q["open"]
       PROVE  heap'[q["open"][k]].of = q["list"][k] /\ q["open"][k] \notin Linked!ToSet(q["list"])
  <2>1. k \in 1 .. L /\ k \in 1 .. Len(q["open"])
    BY <1>2, <1>3
  <2>2. \A j \in 1 .. Len(q["list"]) : q["list"][j] # q["open"][k]
    <3>1. Apart(q) /\ "list" # "open"
      BY <1>2 DEF Whole
    <3>. QED BY <1>5, <2>1, <3>1, SameNode
  <2>3. Linked!ToSet(q["list"]) = {q["list"][j] : j \in 1 .. Len(q["list"])}
    BY <1>2 DEF Linked!ToSet
  <2>. QED BY <1>6, <1>7, <2>1, <2>2, <2>3
<1>20. Linked!CopyMatches
  BY <1>3, <1>4, <1>17, <1>18, <1>19, Zenon DEF Linked!CopyMatches
<1>. QED BY <1>16, <1>20

LEMMA StartDelKeeps ==
  ASSUME NEW q, ListsAre(q), NEW l \in {"list", "copy"}, Linked!StartDel(l)
  PROVE  ListsGood'
<1>1. /\ pc = "idle" /\ pc' = "down" /\ ptr[l] # NULL
      /\ ListType /\ Whole(heap, q, lost) /\ Len(q["open"]) = 0
      /\ \A m \in Kept : ptr[m] = FirstOf(q[m])
      /\ Len(q["fresh"]) <= 1
      /\ deleting' = l /\ stack' = <<ptr[l]>> /\ visited' = << >>
      /\ whole' = Linked!Path(heap, ptr[l])
      /\ heap' = heap /\ ptr' = ptr /\ lost' = lost /\ failed' = failed
  BY DEF ListsAre, Points, InCall, Linked!StartDel
<1>2. l \in Kind /\ l \in Kept
  BY DEF Kind, Kept
<1>3. q[l] \in Seq(Node)
  BY <1>1, <1>2 DEF Whole, Chained
<1>4. Len(q[l]) > 0 /\ ptr[l] = q[l][1] /\ ptr[l] = FirstOf(q[l])
  BY <1>1, <1>2, FirstNull
<1>5. whole' = q[l]
  <2>1. Linked!Path(heap, FirstOf(q[l])) = q[l]
    BY <1>1, <1>2, HeldIs
  <2>. QED BY <1>1, <1>4, <2>1, Zenon
<1>6. PICK n : n = q[l][1]
  OBVIOUS
<1>7. n \in Node /\ stack' = <<n>>
  <2>1. q[l][1] \in Node
    <3>1. PICK s \in Seq(Node) : s = q[l]
      BY <1>3
    <3>2. Len(s) > 0
      BY <1>4, <3>1, Zenon
    <3>3. s[1] \in Node
      BY <3>2
    <3>. QED BY <3>1, <3>3, Zenon
  <2>. QED BY <1>1, <1>4, <1>6, <2>1, Zenon
<1>8. stack' \in Seq(Node) /\ Len(stack') = 1 /\ stack'[1] = n
  BY <1>7
<1>9. GoingDown(q)'
  <2>1. Len(stack') \in 1 .. Len(whole')
    BY <1>3, <1>4, <1>5, <1>8
  <2>2. \A k \in 1 .. Len(stack') : stack'[k] = whole'[k]
    BY <1>5, <1>6, <1>8
  <2>. QED BY <1>1, <1>5, <1>8, <2>1, <2>2 DEF GoingDown
<1>10. ListType'
  BY <1>1 DEF ListType
<1>11. Points(q)'
  BY <1>1 DEF Points
<1>12. InCall(q)'
  BY <1>1, <1>9 DEF InCall
<1>13. ListsAre(q)'
  BY <1>1, <1>10, <1>11, <1>12 DEF ListsAre
<1>. QED BY <1>13 DEF ListsGood

LEMMA DelDownKeeps == ASSUME NEW q, ListsAre(q), Linked!DelDown PROVE ListsGood'
<1>1. /\ pc = "down"
      /\ ListType /\ Whole(heap, q, lost) /\ Len(q["open"]) = 0 /\ GoingDown(q)
      /\ \A m \in Kept : ptr[m] = FirstOf(q[m])
      /\ Len(q["fresh"]) <= 1
      /\ heap' = heap /\ ptr' = ptr /\ lost' = lost /\ failed' = failed
      /\ deleting' = deleting /\ whole' = whole /\ visited' = visited
  BY DEF ListsAre, Points, InCall, Linked!DelDown
<1>2. /\ deleting \in {"list", "copy"} /\ deleting \in Kind /\ deleting \in Kept
      /\ "open" \in Kind /\ "fresh" \in Kind /\ deleting # "open" /\ deleting # "fresh"
  BY <1>1 DEF GoingDown, Kind, Kept
<1>3. whole = q[deleting] /\ whole \in Seq(Node) /\ visited = << >> /\ stack \in Seq(Node)
  BY <1>1, <1>2 DEF GoingDown, Whole, Chained
<1>4. PICK n \in 1 .. Len(whole) : n = Len(stack)
  BY <1>1 DEF GoingDown
<1>5. n \in Nat /\ n > 0 /\ n <= Len(whole) /\ \A k \in 1 .. n : stack[k] = whole[k]
  BY <1>1, <1>3, <1>4 DEF GoingDown
<1>6. PICK node : node = heap[whole[n]].next
  OBVIOUS
<1>7. heap[Linked!Last(stack)].next = node
  BY <1>4, <1>5, <1>6 DEF Linked!Last
<1>8. /\ node = NULL => n = Len(whole)
      /\ node # NULL => n + 1 \in 1 .. Len(whole) /\ node = whole[n + 1]
  BY <1>1, <1>2, <1>3, <1>6, NextIs
<1>9. ListType'
  BY <1>1 DEF ListType
<1>10. CASE node # NULL
  <2>1. stack' = Append(stack, node) /\ pc' = pc
    BY <1>7, <1>10 DEF Linked!DelDown
  <2>2. node \in Node
    BY <1>3, <1>8, <1>10
  <2>3. /\ stack' \in Seq(Node) /\ Len(stack') = n + 1 /\ stack'[n + 1] = node
        /\ \A k \in 1 .. n : stack'[k] = stack[k]
    BY <1>3, <1>4, <2>1, <2>2
  <2>4. \A k \in 1 .. n + 1 : stack'[k] = whole[k]
    <3> TAKE k \in 1 .. n + 1
    <3>1. CASE k = n + 1
      BY <1>8, <1>10, <2>3, <3>1
    <3>2. CASE k # n + 1
      BY <1>5, <2>3, <3>2
    <3>. QED BY <3>1, <3>2
  <2>5. GoingDown(q)'
    BY <1>1, <1>2, <1>3, <1>8, <1>10, <2>3, <2>4 DEF GoingDown
  <2>6. Points(q)'
    BY <1>1 DEF Points
  <2>7. InCall(q)'
    BY <1>1, <2>1, <2>5 DEF InCall
  <2>8. ListsAre(q)'
    BY <1>1, <1>9, <2>6, <2>7 DEF ListsAre
  <2>. QED BY <2>8 DEF ListsGood
<1>11. CASE node = NULL
  <2>1. pc' = "up" /\ stack' = stack
    BY <1>7, <1>11 DEF Linked!DelDown
  <2>2. n = Len(whole)
    BY <1>8, <1>11
  <2>3. stack = whole
    <3>1. /\ stack \in Seq(Node) /\ whole \in Seq(Node) /\ Len(stack) = Len(whole)
          /\ \A k \in 1 .. Len(stack) : stack[k] = whole[k]
      BY <1>3, <1>4, <1>5, <2>2, Zenon
    <3>. QED BY <3>1
  <2>4. PICK d : d = deleting
    OBVIOUS
  <2>5. PICK r : r = [q EXCEPT !["open"] = q[d], ![d] = << >>]
    OBVIOUS
  <2>6. Whole(heap', r, lost')
    <3>1. Whole(heap, [q EXCEPT !["open"] = q[d], ![d] = << >>], lost)
      BY <1>1, <1>2, <2>4, Moved
    <3>. QED BY <1>1, <2>5, <3>1, Zenon
  <2>7. q \in [Kind -> Seq(Node)]
    BY <1>1 DEF Whole, Chained
  <2>8. r["open"] = whole /\ r[d] = << >>
    BY <1>2, <1>3, <2>4, <2>5, <2>7
  <2>9. \A m \in Kind : m # "open" /\ m # d => r[m] = q[m]
    BY <2>5, <2>7
  <2>10. stack \o Linked!Reverse(<< >>) = stack
    <3>1. Linked!Reverse(<< >>) = << >>
      BY DEF Linked!Reverse
    <3>. QED BY <1>3, <3>1
  <2>11. ComingUp(r)'
    <3>1. Len(r[deleting']) = 0 /\ deleting' \in {"list", "copy"}
      BY <1>1, <1>2, <2>4, <2>8
    <3>2. stack' = r["open"] /\ Len(stack') > 0
      BY <1>4, <1>5, <2>1, <2>3, <2>8
    <3>3. visited' \in Seq(Node) /\ stack' \o Linked!Reverse(visited') = whole'
      BY <1>1, <1>3, <2>1, <2>3, <2>10
    <3>. QED BY <3>1, <3>2, <3>3 DEF ComingUp
  <2>12. Points(r)'
    <3>1. \A m \in Kept : ptr'[m] = FirstOf(r[m]) \/ m = deleting'
      BY <1>1, <2>4, <2>9 DEF Kept, Kind
    <3>2. Len(r["fresh"]) <= 1
      BY <1>1, <1>2, <2>4, <2>9
    <3>. QED BY <2>1, <3>1, <3>2 DEF Points
  <2>13. InCall(r)'
    BY <2>1, <2>11 DEF InCall
  <2>14. ListsAre(r)'
    BY <1>9, <2>6, <2>12, <2>13 DEF ListsAre
  <2>. QED BY <2>14 DEF ListsGood
<1>. QED BY <1>10, <1>11

LEMMA NodesJoined ==
  ASSUME NEW u \in Seq(Node), NEW x \in Seq(Node)
  PROVE  /\ u \o x \in Seq(Node) /\ Len(u \o x) = Len(u) + Len(x)
         /\ \A k \in 1 .. Len(u) : (u \o x)[k] = u[k]
         /\ \A k \in 1 .. Len(x) : (u \o x)[Len(u) + k] = x[k]
OBVIOUS

(* What is left and what has been visited, backwards, stay the list.       *)
LEMMA OneBack ==
  ASSUME NEW s \in Seq(Node), Len(s) > 0, NEW v \in Seq(Node)
  PROVE  SubSeq(s, 1, Len(s) - 1) \o Linked!Reverse(Append(v, s[Len(s)])) = s \o Linked!Reverse(v)
<1>1. PICK L \in Nat, V \in Nat : L = Len(s) /\ V = Len(v)
  OBVIOUS
<1>2. PICK w : w = Append(v, s[L])
  OBVIOUS
<1>3. /\ w \in Seq(Node) /\ Len(w) = V + 1 /\ w[V + 1] = s[L]
      /\ \A k \in 1 .. V : w[k] = v[k]
  BY <1>1, <1>2
<1>4. PICK a : a = Linked!Reverse(v)
  OBVIOUS
<1>5. a = [k \in 1 .. V |-> v[(V - k) + 1]]
  BY <1>1, <1>4 DEF Linked!Reverse
<1>6. a \in Seq(Node) /\ Len(a) = V
  BY <1>1, <1>5
<1>7. PICK b : b = Linked!Reverse(w)
  OBVIOUS
<1>8. b = [k \in 1 .. V + 1 |-> w[((V + 1) - k) + 1]]
  BY <1>3, <1>7 DEF Linked!Reverse
<1>9. b \in Seq(Node) /\ Len(b) = V + 1
  <2>1. \A k \in 1 .. V + 1 : w[((V + 1) - k) + 1] \in Node
    BY <1>3
  <2>2. b \in [1 .. V + 1 -> Node]
    BY <1>8, <2>1
  <2>. QED BY <2>2
<1>10. b[1] = s[L] /\ \A k \in 1 .. V : b[k + 1] = a[k]
  <2>1. b[1] = w[V + 1]
    BY <1>8
  <2>2. ASSUME NEW k \in 1 .. V PROVE b[k + 1] = a[k]
    <3>1. b[k + 1] = w[(V - k) + 1] /\ (V - k) + 1 \in 1 .. V
      BY <1>8
    <3>. QED BY <1>3, <1>5, <3>1
  <2>. QED BY <1>3, <2>1, <2>2
<1>11. PICK c : c = SubSeq(s, 1, L - 1)
  OBVIOUS
<1>12. c \in Seq(Node) /\ Len(c) = L - 1 /\ \A k \in 1 .. L - 1 : c[k] = s[k]
  BY <1>1, <1>11
<1>13. PICK x, y : x = c \o b /\ y = s \o a
  OBVIOUS
<1>14. /\ x \in Seq(Node) /\ Len(x) = L + V
       /\ \A k \in 1 .. L - 1 : x[k] = c[k]
       /\ \A k \in 1 .. V + 1 : x[(L - 1) + k] = b[k]
  <2>1. /\ x \in Seq(Node) /\ Len(x) = Len(c) + Len(b)
        /\ \A k \in 1 .. Len(c) : x[k] = c[k]
        /\ \A k \in 1 .. Len(b) : x[Len(c) + k] = b[k]
    <3>1. /\ c \o b \in Seq(Node) /\ Len(c \o b) = Len(c) + Len(b)
          /\ \A k \in 1 .. Len(c) : (c \o b)[k] = c[k]
          /\ \A k \in 1 .. Len(b) : (c \o b)[Len(c) + k] = b[k]
      BY <1>9, <1>12, NodesJoined
    <3>. QED BY <1>13, <3>1, Zenon
  <2>2. Len(c) = L - 1 /\ Len(b) = V + 1 /\ (L - 1) + (V + 1) = L + V
    BY <1>9, <1>12
  <2>. QED BY <2>1, <2>2, Zenon
<1>15. /\ y \in Seq(Node) /\ Len(y) = L + V
       /\ \A k \in 1 .. L : y[k] = s[k]
       /\ \A k \in 1 .. V : y[L + k] = a[k]
  <2>1. /\ y \in Seq(Node) /\ Len(y) = Len(s) + Len(a)
        /\ \A k \in 1 .. Len(s) : y[k] = s[k]
        /\ \A k \in 1 .. Len(a) : y[Len(s) + k] = a[k]
    <3>1. /\ s \o a \in Seq(Node) /\ Len(s \o a) = Len(s) + Len(a)
          /\ \A k \in 1 .. Len(s) : (s \o a)[k] = s[k]
          /\ \A k \in 1 .. Len(a) : (s \o a)[Len(s) + k] = a[k]
      BY <1>6, NodesJoined
    <3>. QED BY <1>13, <3>1, Zenon
  <2>. QED BY <1>1, <1>6, <2>1, Zenon
<1>16. ASSUME NEW k \in 1 .. L + V PROVE x[k] = y[k]
  <2>1. CASE k \in 1 .. L - 1
    BY <1>12, <1>14, <1>15, <2>1
  <2>2. CASE k = L
    <3>1. 1 \in 1 .. V + 1 /\ (L - 1) + 1 = k
      BY <2>2
    <3>2. x[(L - 1) + 1] = b[1]
      BY <1>14, <3>1
    <3>. QED BY <1>1, <1>10, <1>15, <2>2, <3>1, <3>2
  <2>3. CASE k > L
    <3>1. PICK j : j = k - L
      OBVIOUS
    <3>2. j \in 1 .. V /\ j + 1 \in 1 .. V + 1 /\ (L - 1) + (j + 1) = k /\ L + j = k
      BY <2>3, <3>1
    <3>3. x[(L - 1) + (j + 1)] = b[j + 1] /\ y[L + j] = a[j] /\ b[j + 1] = a[j]
      BY <1>10, <1>14, <1>15, <3>2
    <3>. QED BY <3>2, <3>3
  <2>. QED BY <2>1, <2>2, <2>3
<1>17. x = y
  BY <1>14, <1>15, <1>16
<1>. QED BY <1>1, <1>2, <1>4, <1>7, <1>11, <1>13, <1>17

LEMMA DelUpKeeps == ASSUME NEW q, ListsAre(q), Linked!DelUp PROVE ListsGood'
<1>1. /\ pc = "up"
      /\ ListType /\ Whole(heap, q, lost) /\ ComingUp(q)
      /\ \A m \in Kept : ptr[m] = FirstOf(q[m]) \/ m = deleting
      /\ Len(q["fresh"]) <= 1
      /\ visited' = Append(visited, Linked!Last(stack)) /\ heap' = Linked!Free(heap, Linked!Last(stack))
      /\ stack' = Linked!Front(stack)
      /\ IF Len(stack) = 1 THEN pc' = "idle" /\ ptr' = [ptr EXCEPT ![deleting] = NULL]
         ELSE pc' = pc /\ ptr' = ptr
      /\ deleting' = deleting /\ whole' = whole /\ lost' = lost /\ failed' = failed
  BY DEF ListsAre, Points, InCall, Linked!DelUp
<1>2. /\ deleting \in {"list", "copy"} /\ deleting \in Kind /\ deleting \in Kept
      /\ "open" \in Kind /\ "fresh" \in Kind /\ deleting # "open" /\ deleting # "fresh"
      /\ "open" \notin Kept
  BY <1>1 DEF ComingUp, Kind, Kept
<1>3. /\ q \in [Kind -> Seq(Node)] /\ stack = q["open"] /\ stack \in Seq(Node)
      /\ Len(stack) > 0 /\ Len(q[deleting]) = 0
      /\ visited \in Seq(Node) /\ stack \o Linked!Reverse(visited) = whole
  BY <1>1, <1>2 DEF ComingUp, Whole, Chained
<1>4. PICK L \in Nat : L = Len(stack) /\ L > 0
  BY <1>3
<1>5. PICK n : n = stack[L]
  OBVIOUS
<1>6. Linked!Last(stack) = n /\ Linked!Front(stack) = SubSeq(stack, 1, L - 1) /\ n \in Node
  BY <1>3, <1>4, <1>5 DEF Linked!Last, Linked!Front
<1>7. PICK r : r = [q EXCEPT !["open"] = SubSeq(q["open"], 1, Len(q["open"]) - 1)]
  OBVIOUS
<1>8. Whole(heap', r, lost')
  <2>1. Whole(Linked!Free(heap, q["open"][Len(q["open"])]),
              [q EXCEPT !["open"] = SubSeq(q["open"], 1, Len(q["open"]) - 1)], lost)
    BY <1>1, <1>2, <1>3, Freed
  <2>2. q["open"][Len(q["open"])] = n
    BY <1>3, <1>4, <1>5, Zenon
  <2>. QED BY <1>1, <1>6, <1>7, <2>1, <2>2, Zenon
<1>9. r["open"] = stack' /\ \A m \in Kind : m # "open" => r[m] = q[m]
  <2>1. r["open"] = SubSeq(q["open"], 1, Len(q["open"]) - 1)
    BY <1>2, <1>3, <1>7
  <2>. QED BY <1>1, <1>3, <1>4, <1>6, <1>7, <2>1
<1>10. stack' \in Seq(Node) /\ Len(stack') = L - 1
  BY <1>1, <1>3, <1>4, <1>6
<1>11. Len(r[deleting]) = 0 /\ Len(r["fresh"]) <= 1
  BY <1>1, <1>2, <1>3, <1>9
<1>12. HeapType(heap')
  BY <1>1, FreeTyped DEF ListType
<1>13. visited' \in Seq(Node) /\ stack' \o Linked!Reverse(visited') = whole'
  <2>1. visited' = Append(visited, stack[Len(stack)]) /\ stack' = SubSeq(stack, 1, Len(stack) - 1)
    BY <1>1, <1>4, <1>5, <1>6
  <2>2. SubSeq(stack, 1, Len(stack) - 1) \o Linked!Reverse(Append(visited, stack[Len(stack)])) = whole
    BY <1>3, OneBack
  <2>3. visited' \in Seq(Node)
    BY <1>1, <1>3, <1>6
  <2>. QED BY <1>1, <2>1, <2>2, <2>3, Zenon
<1>14. CASE L = 1
  <2>1. pc' = "idle" /\ ptr' = [ptr EXCEPT ![deleting] = NULL]
    BY <1>1, <1>4, <1>14
  <2>2. Len(r["open"]) = 0
    BY <1>9, <1>10, <1>14
  <2>3. \A m \in Kept : ptr'[m] = FirstOf(r[m])
    <3> TAKE m \in Kept
    <3>1. CASE m = deleting
      BY <1>1, <1>11, <2>1, <3>1 DEF ListType, FirstOf
    <3>2. CASE m # deleting
      BY <1>1, <1>2, <1>9, <2>1, <3>2 DEF ListType, Kind
    <3>. QED BY <3>1, <3>2
  <2>4. ListType'
    BY <1>1, <1>12, <2>1 DEF ListType
  <2>. QED BY <1>8, <1>11, <2>1, <2>2, <2>3, <2>4, IdleAre
<1>15. CASE L # 1
  <2>1. pc' = "up" /\ ptr' = ptr
    BY <1>1, <1>4, <1>15
  <2>2. Len(stack') > 0
    BY <1>4, <1>10, <1>15
  <2>3. ComingUp(r)'
    BY <1>1, <1>2, <1>9, <1>11, <1>13, <2>2 DEF ComingUp
  <2>4. Points(r)'
    <3>1. \A m \in Kept : ptr'[m] = FirstOf(r[m]) \/ m = deleting'
      BY <1>1, <1>2, <1>9, <2>1 DEF Kind
    <3>. QED BY <1>11, <2>1, <3>1 DEF Points
  <2>5. ListType'
    BY <1>1, <1>12, <2>1 DEF ListType
  <2>6. InCall(r)'
    BY <2>1, <2>3 DEF InCall
  <2>7. ListsAre(r)'
    BY <1>8, <2>4, <2>5, <2>6 DEF ListsAre
  <2>. QED BY <2>7 DEF ListsGood
<1>. QED BY <1>14, <1>15

LEMMA ListsStep ==
  ASSUME ListsGood, Linked!Next
  PROVE  ListsGood' /\ (Linked!EndMap => Linked!CopyMatches)
<1>1. pc # "crashed"
  BY DEF Linked!Next, Linked!ft_lstnew, Linked!ft_lstadd, Linked!ft_lstdelone, Linked!StartIter,
         Linked!Iter, Linked!StartMap, Linked!Map, Linked!EndMap, Linked!StartDel, Linked!DelDown,
         Linked!DelUp
<1>2. PICK q : ListsAre(q)
  BY <1>1 DEF ListsGood
<1>3. CASE Linked!EndMap
  BY <1>2, <1>3, EndMapKeeps
<1>4. CASE ~Linked!EndMap
  <2>1. CASE Linked!ft_lstnew
    BY <1>2, <1>4, <2>1, FtLstnewKeeps
  <2>2. CASE Linked!ft_lstadd
    BY <1>2, <1>4, <2>2, FtLstaddKeeps
  <2>3. CASE Linked!ft_lstdelone
    BY <1>2, <1>4, <2>3, FtLstdeloneKeeps
  <2>4. CASE Linked!StartIter
    BY <1>2, <1>4, <2>4, StartIterKeeps
  <2>5. CASE Linked!Iter
    BY <1>2, <1>4, <2>5, IterKeeps
  <2>6. CASE Linked!StartMap
    BY <1>2, <1>4, <2>6, StartMapKeeps
  <2>7. CASE Linked!Map
    BY <1>2, <1>4, <2>7, MapKeeps
  <2>8. CASE \E l \in {"list", "copy"} : Linked!StartDel(l)
    BY <1>2, <1>4, <2>8, StartDelKeeps
  <2>9. CASE Linked!DelDown
    BY <1>2, <1>4, <2>9, DelDownKeeps
  <2>10. CASE Linked!DelUp
    BY <1>2, <1>4, <2>10, DelUpKeeps
  <2>. QED BY <1>4, <2>1, <2>2, <2>3, <2>4, <2>5, <2>6, <2>7, <2>8, <2>9, <2>10 DEF Linked!Next
<1>. QED BY <1>3, <1>4

-----------------------------------------------------------------------------
(* ListsSeen is what ListsKept asks of a state.                            *)
ListsInv == part = "lists" => ListsGood
ListsSeen ==
  part = "lists" => Linked!NoDangling /\ Linked!AllAccountedFor /\ Linked!EachOnceInOrder

LEMMA InitLists == LibftInit => ListsInv
<1> SUFFICES ASSUME Linked!Init PROVE ListsGood
  BY DEF LibftInit, ListsInv
<1>1. PICK q : q = [l \in Kind |-> << >>]
  OBVIOUS
<1>2. \A l \in Kind : q[l] = << >> /\ Len(q[l]) = 0
  BY <1>1
<1>3. /\ heap = << >> /\ ptr = [l \in {"list", "copy", "fresh"} |-> NULL]
      /\ pc = "idle" /\ lost = {} /\ failed = 0
  BY DEF Linked!Init
<1>4. DOMAIN heap = {}
  BY <1>3
<1>5. Chained(heap, q)
  <2>1. q \in [Kind -> Seq(Node)]
    BY <1>1
  <2>. QED BY <1>2, <1>4, <2>1 DEF Chained, Kind
<1>6. Apart(q)
  BY <1>2 DEF Apart
<1>7. Accounted(heap, q, lost)
  BY <1>2, <1>3, <1>4 DEF Accounted
<1>8. ListType
  BY <1>3, <1>4 DEF ListType, HeapType, Kept
<1>9. Points(q)
  BY <1>2, <1>3 DEF Points, FirstOf, Kept, Kind
<1>10. InCall(q)
  BY <1>2, <1>3 DEF InCall, Kind
<1>11. ListsAre(q)
  BY <1>5, <1>6, <1>7, <1>8, <1>9, <1>10 DEF ListsAre, Whole
<1>. QED BY <1>11 DEF ListsGood

LEMMA ListsInvStep ==
  ASSUME ListsInv, [LibftNext]_allvars
  PROVE  ListsInv' /\ (part = "lists" /\ Linked!EndMap => Linked!CopyMatches)
<1>1. CASE UNCHANGED allvars
  <2>1. /\ part' = part /\ heap' = heap /\ ptr' = ptr /\ pc' = pc /\ lst' = lst /\ prev' = prev
        /\ first' = first /\ stack' = stack /\ deleting' = deleting /\ whole' = whole
        /\ visited' = visited /\ lost' = lost /\ failed' = failed
    BY <1>1 DEF allvars, lists
  <2>3. ~Linked!EndMap
    BY <2>1 DEF Linked!EndMap
  <2>4. ASSUME NEW q, ListsAre(q) PROVE ListsAre(q)'
    <3>1. ListType'
      BY <2>1, <2>4 DEF ListsAre, ListType
    <3>2. Points(q)'
      BY <2>1, <2>4 DEF ListsAre, Points
    <3>3. Iterating(q) => Iterating(q)'
      BY <2>1 DEF Iterating
    <3>4. Copying(q) => Copying(q)'
      BY <2>1 DEF Copying
    <3>5. GoingDown(q) => GoingDown(q)'
      BY <2>1 DEF GoingDown
    <3>6. ComingUp(q) => ComingUp(q)'
      BY <2>1 DEF ComingUp
    <3>7. InCall(q)'
      BY <2>1, <2>4, <3>3, <3>4, <3>5, <3>6 DEF ListsAre, InCall
    <3>. QED BY <2>1, <2>4, <3>1, <3>2, <3>7 DEF ListsAre
  <2>5. ListsInv'
    BY <2>1, <2>4 DEF ListsInv, ListsGood
  <2>. QED BY <2>3, <2>5
<1>2. CASE LibftNext
  <2>1. CASE part = "lists"
    <3>1. Linked!Next /\ part' = part
      BY <1>2, <2>1 DEF LibftNext, Only
    <3>2. ListsGood
      BY <2>1 DEF ListsInv
    <3>. QED BY <3>1, <3>2, ListsStep DEF ListsInv
  <2>2. CASE part # "lists"
    <3>1. part' = part
      BY <1>2 DEF LibftNext, Only
    <3>. QED BY <2>2, <3>1 DEF ListsInv
  <2>. QED BY <2>1, <2>2
<1>. QED BY <1>1, <1>2

(* Lists that are whole have nothing dangling, lost or out of order.       *)
LEMMA ListsShow == ListsInv => ListsSeen
<1> SUFFICES ASSUME ListsGood, pc # "crashed"
             PROVE  Linked!NoDangling /\ Linked!AllAccountedFor /\ Linked!EachOnceInOrder
  BY DEF ListsInv, ListsSeen, Linked!NoDangling, Linked!AllAccountedFor, Linked!EachOnceInOrder
<1>1. PICK q : ListsAre(q)
  BY DEF ListsGood
<1>2. /\ ListType /\ Whole(heap, q, lost) /\ InCall(q)
      /\ \A l \in Kept : ptr[l] = FirstOf(q[l]) \/ (pc = "up" /\ l = deleting)
  BY <1>1 DEF ListsAre, Points
<1>3. DOMAIN ptr = Kept /\ \A l \in Kept : l \in Kind
  BY <1>2 DEF ListType, Kept, Kind
<1>4. \A l \in Kept : q[l] \in Seq(Node)
  BY <1>2, <1>3 DEF Whole, Chained
<1>5. ASSUME pc # "up", NEW l \in Kept PROVE Linked!Held(l) = q[l] /\ ptr[l] = FirstOf(q[l])
  <2>1. Linked!Path(heap, FirstOf(q[l])) = q[l]
    BY <1>2, HeldIs
  <2>. QED BY <1>2, <1>5, <2>1, Zenon DEF Linked!Held
<1>6. Linked!NoDangling
  <2> SUFFICES ASSUME pc = "idle"
               PROVE  /\ \A l \in DOMAIN ptr : ptr[l] \in DOMAIN heap \cup {NULL}
                      /\ \A n \in DOMAIN heap : heap[n].next \in DOMAIN heap \cup {NULL}
    BY DEF Linked!NoDangling, Linked!Live
  <2>1. ASSUME NEW l \in Kept PROVE ptr[l] \in DOMAIN heap \cup {NULL}
    <3>1. ptr[l] = FirstOf(q[l]) /\ l \in Kind
      BY <1>2, <1>3
    <3>2. FirstOf(q[l]) = NULL \/ (Len(q[l]) > 0 /\ FirstOf(q[l]) = q[l][1])
      BY <1>2, <3>1, FirstNull, Zenon
    <3>3. CASE Len(q[l]) > 0 /\ FirstOf(q[l]) = q[l][1]
      <4>1. 1 \in 1 .. Len(q[l])
        BY <1>4, <3>3
      <4>2. q[l][1] \in DOMAIN heap
        BY <1>2, <3>1, <4>1 DEF Whole, Chained
      <4>. QED BY <3>1, <3>3, <4>2
    <3>. QED BY <3>1, <3>2, <3>3
  <2>2. ASSUME NEW n \in DOMAIN heap PROVE heap[n].next \in DOMAIN heap \cup {NULL}
    <3>1. CASE n \in lost
      BY <1>2, <3>1 DEF Whole, Accounted
    <3>2. CASE n \notin lost
      <4>1. PICK l \in Kind, k \in Nat : k \in 1 .. Len(q[l]) /\ n = q[l][k]
        BY <1>2, <3>2 DEF Whole, Accounted
      <4>2. l \in Kept
        <5>1. Len(q["open"]) = 0
          BY <1>2 DEF InCall
        <5>2. l # "open"
          BY <4>1, <5>1
        <5>. QED BY <4>1, <5>2 DEF Kind
      <4>3. heap[n].next = NULL \/ (k + 1 \in 1 .. Len(q[l]) /\ heap[n].next = q[l][k + 1])
        BY <1>2, <4>1, <4>2, NextIs
      <4>4. k + 1 \in 1 .. Len(q[l]) => q[l][k + 1] \in DOMAIN heap
        BY <1>2, <4>1, Zenon DEF Whole, Chained
      <4>. QED BY <4>3, <4>4
    <3>. QED BY <3>1, <3>2
  <2>. QED BY <1>3, <2>1, <2>2
<1>7. Linked!AllAccountedFor
  <2> SUFFICES ASSUME pc = "idle"
               PROVE  /\ Len(Linked!Held("list")) + Len(Linked!Held("copy")) + Len(Linked!Held("fresh"))
                           + Linked!Cardinality(lost) = Linked!Cardinality(DOMAIN heap)
                      /\ DOMAIN heap = lost \cup UNION {Linked!ToSet(Linked!Held(l)) : l \in DOMAIN ptr}
                      /\ failed = 0 => lost = {}
    BY DEF Linked!AllAccountedFor, Linked!Live
  <2>1. Len(q["open"]) = 0
    BY <1>2 DEF InCall
  <2>2. /\ Len(q["list"]) + Len(q["copy"]) + Len(q["fresh"]) + Cardinality(lost) = Cardinality(DOMAIN heap)
        /\ DOMAIN heap = lost \cup UNION NodesOf(q)
    <3>1. Whole(heap, q, lost)
      BY <1>2
    <3>. QED BY <2>1, <3>1, NodesCounted, Zenon
  <2>3. \A l \in Kept : Linked!Held(l) = q[l]
    BY <1>5
  <2>4. Linked!Held("list") = q["list"] /\ Linked!Held("copy") = q["copy"] /\ Linked!Held("fresh") = q["fresh"]
    BY <2>3 DEF Kept
  <2>5. Linked!Cardinality(lost) = Cardinality(lost) /\ Linked!Cardinality(DOMAIN heap) = Cardinality(DOMAIN heap)
    BY LinkedCardinality
  <2>6. {Linked!ToSet(Linked!Held(l)) : l \in DOMAIN ptr} = NodesOf(q)
    BY <1>3, <2>3 DEF NodesOf
  <2>7. failed = 0 => lost = {}
    BY <1>2 DEF ListType
  <2>. QED BY <2>2, <2>4, <2>5, <2>6, <2>7, Zenon
<1>8. ASSUME pc = "iter"
      PROVE  /\ Linked!IsPrefix(visited, Linked!Held("list"))
             /\ heap[lst].next = NULL => visited = Linked!Held("list")
  <2>1. Linked!Held("list") = q["list"] /\ "list" \in Kept
    BY <1>5, <1>8 DEF Kept
  <2>2. /\ visited \in Seq(Node) /\ Len(visited) \in 1 .. Len(q["list"])
        /\ lst = q["list"][Len(visited)]
        /\ \A k \in 1 .. Len(visited) : visited[k] = q["list"][k]
    BY <1>2, <1>8 DEF InCall, Iterating
  <2>3. PICK s \in Seq(Node), v \in Seq(Node) : s = q["list"] /\ v = visited
    BY <1>4, <2>1, <2>2
  <2>4. Len(v) <= Len(s) /\ \A k \in 1 .. Len(v) : v[k] = s[k]
    BY <2>2, <2>3
  <2>5. SubSeq(v, 1, Len(v)) = SubSeq(s, 1, Len(v))
    BY <2>4
  <2>6. Linked!IsPrefix(v, s)
    BY <2>4, <2>5 DEF Linked!IsPrefix
  <2>7. ASSUME heap[lst].next = NULL PROVE v = s
    <3>1. Len(v) = Len(s)
      BY <1>2, <2>1, <2>2, <2>3, <2>7, NextIs
    <3>. QED BY <2>4, <3>1
  <2>. QED BY <2>1, <2>3, <2>6, <2>7
<1>9. pc = "up" => stack \o Linked!Reverse(visited) = whole
  BY <1>2 DEF InCall, ComingUp
<1>. QED BY <1>6, <1>7, <1>8, <1>9 DEF Linked!EachOnceInOrder

(* Lists of any length, with malloc failing at any call: every step leaves *)
(* them without a dangling pointer, without a node that no list and no     *)
(* failure accounts for, each element visited once and in its order, and   *)
(* ft_lstmap returns a copy (the functions ft_lst).  When malloc fails at  *)
(* the first element of ft_lstmap the program ends.                        *)
THEOREM ListsWhole == LibftSpec => ListsKept
<1>1. ListsSeen' /\ (part = "lists" /\ Linked!EndMap => Linked!CopyMatches) /\ [LibftNext]_allvars
        => [part = "lists" => Linked!StepKeepsLists]_allvars
  <2> SUFFICES ASSUME ListsSeen', part = "lists" /\ Linked!EndMap => Linked!CopyMatches, LibftNext,
                      part = "lists"
               PROVE  Linked!StepKeepsLists
    OBVIOUS
  <2>1. part' = "lists"
    BY DEF LibftNext, Only
  <2>2. Linked!NoDangling' /\ Linked!AllAccountedFor' /\ Linked!EachOnceInOrder'
    BY <2>1 DEF ListsSeen
  <2>. QED BY <2>2 DEF Linked!StepKeepsLists
<1>2. ListsInv /\ [LibftNext]_allvars
        => ListsInv' /\ (part = "lists" /\ Linked!EndMap => Linked!CopyMatches)
  BY ListsInvStep
<1>. QED BY <1>1, <1>2, InitLists, ListsShow, PTL DEF LibftSpec, ListsKept
-----------------------------------------------------------------------------
(* Writing to memory: a loop is known by the place where it stops.         *)

(* A loop that goes on from one place to the next until one of T.          *)
Search(f, T) == f = [j \in Nat |-> IF j \in T THEN j ELSE f[j + 1]]

(* k is the first place of T from a on.                                    *)
First(T, a, k) == k \in T /\ k >= a /\ \A j \in a .. k - 1 : j \notin T

LEMMA FirstOne ==
  ASSUME NEW T, T \subseteq Nat, NEW a \in Nat, NEW b \in T, b >= a
  PROVE  \E k \in Nat : First(T, a, k) /\ k <= b
<1>1. PICK k \in {x \in T : x >= a} : \A y \in {x \in T : x >= a} : k <= y
  <2>1. {x \in T : x >= a} \subseteq Nat /\ {x \in T : x >= a} # {}
    OBVIOUS
  <2>. QED BY <2>1, LeastOf
<1>. QED BY <1>1 DEF First

LEMMA SearchDefined ==
  ASSUME NEW T, T \subseteq Nat
  PROVE  \E f : Search(f, T)
<1> DEFINE Some(j) == \E k \in T : k >= j
           next == [j \in Nat |-> CHOOSE k \in Nat : First(T, j, k)]
           g == [j \in Nat |-> IF Some(j) THEN next[j] ELSE 0]
<1>1. ASSUME NEW j \in Nat, Some(j) PROVE next[j] \in Nat /\ First(T, j, next[j])
  <2>1. \E k \in Nat : First(T, j, k)
    BY <1>1, FirstOne
  <2>. QED BY <2>1
<1> HIDE DEF next
<1>2. ASSUME NEW j \in Nat PROVE g[j] = IF j \in T THEN j ELSE g[j + 1]
  <2>1. CASE j \in T
    <3>1. Some(j) /\ next[j] \in Nat /\ First(T, j, next[j])
      BY <1>1, <2>1
    <3>2. next[j] = j
      BY <2>1, <3>1 DEF First
    <3>. QED BY <2>1, <3>1, <3>2
  <2>2. CASE j \notin T /\ Some(j)
    <3>1. Some(j + 1)
      <4>1. PICK k \in T : k >= j
        BY <2>2
      <4>. QED BY <2>2, <4>1
    <3>2. First(T, j, next[j]) /\ First(T, j + 1, next[j + 1]) /\ next[j] \in Nat /\ next[j + 1] \in Nat
      BY <1>1, <2>2, <3>1
    <3>3. next[j] = next[j + 1]
      BY <2>2, <3>2 DEF First
    <3>. QED BY <2>2, <3>1, <3>3
  <2>3. CASE j \notin T /\ ~Some(j)
    BY <2>3
  <2>. QED BY <2>1, <2>2, <2>3
<1>3. Search(g, T)
  BY <1>2 DEF Search
<1> HIDE DEF g
<1>. QED BY <1>3

LEMMA SearchFinds ==
  ASSUME NEW T, T \subseteq Nat, NEW f, Search(f, T), NEW a \in Nat, NEW k \in Nat, First(T, a, k)
  PROVE  f[a] = k
<1> DEFINE U == {n \in Nat : n <= k - a => f[k - n] = k}
<1>1. 0 \in U
  BY DEF First, Search
<1>2. ASSUME NEW n \in Nat, n \in U PROVE n + 1 \in U
  <2> SUFFICES ASSUME n + 1 <= k - a PROVE f[k - (n + 1)] = k
    <3>1. n + 1 \in Nat
      OBVIOUS
    <3>. QED BY <3>1
  <2>1. k - (n + 1) \in Nat /\ k - (n + 1) \in a .. k - 1 /\ (k - (n + 1)) + 1 = k - n
    BY DEF First
  <2>2. f[k - (n + 1)] = f[k - n]
    BY <2>1 DEF First, Search
  <2>. QED BY <1>2, <2>2
<1> HIDE DEF U
<1>3. \A n \in Nat : n \in U
  BY <1>1, <1>2, SetInduction
<1>4. k - a \in U /\ k - a \in Nat
  BY <1>3 DEF First
<1>. QED BY <1>4 DEF U

(* The string at a ends at e.                                              *)
End(m, a, e) == e \in Nat /\ e >= a /\ m[e] = 0 /\ \A p \in a .. e - 1 : m[p] # 0

(* g is m with what stands at s copied to d up to x, and zeros up to e.     *)
Filled(g, m, d, x, e, s) ==
  \A p \in Addr : g[p] = IF p \in d .. e - 1 THEN IF p < x THEN m[s + (p - d)] ELSE 0 ELSE m[p]

(* A loop over the string at a that stops at its end or after n characters *)
(* has stopped after c.                                                    *)
Cut(m, a, n, c) ==
  /\ c \in Nat /\ c <= n /\ (c = n \/ m[a + c] = 0)
  /\ \A k \in 0 .. c - 1 : k # n /\ k < n /\ m[a + k] # 0

(* What the functions do, by the place where their loop ends.              *)
LEMMA StrlenIs ==
  ASSUME NEW m, NEW a \in Nat, NEW e, End(m, a, e)
  PROVE  Memory!ft_strlen(m, a) = e - a
<1>1. PICK T : T = {p \in Nat : m[p] = 0}
  OBVIOUS
<1>2. \A f : f = [j \in Nat |-> IF m[j] = Memory!NUL THEN j ELSE f[j + 1]] <=> Search(f, T)
  BY <1>1 DEF Search, Memory!NUL
<1>3. \E f : f = [j \in Nat |-> IF m[j] = Memory!NUL THEN j ELSE f[j + 1]]
  BY <1>1, <1>2, SearchDefined
<1>4. PICK f : f = CHOOSE g : g = [j \in Nat |-> IF m[j] = Memory!NUL THEN j ELSE g[j + 1]]
  OBVIOUS
<1>5. Search(f, T)
  BY <1>2, <1>3, <1>4, Zenon
<1>6. T \subseteq Nat /\ a \in Nat /\ e \in Nat /\ First(T, a, e)
  BY <1>1 DEF End, First
<1>7. f[a] = e
  BY <1>5, <1>6, SearchFinds
<1>8. Memory!Until(LAMBDA p : m[p] = Memory!NUL, a) = e
  BY <1>4, <1>7 DEF Memory!Until
<1>. QED BY <1>8 DEF Memory!ft_strlen

(* From x on, what ft_strcpy clears ends at e.                             *)
Stops(m, x, e) ==
  /\ e \in Nat /\ e >= x /\ e <= Size /\ (e = Size \/ m[e] = 0)
  /\ \A p \in x .. e - 1 : p # Size /\ m[p] # 0

LEMMA StopFound ==
  ASSUME NEW m, NEW x \in Nat, x <= Size
  PROVE  \E e \in Nat : Stops(m, x, e)
<1>1. PICK T : T = {q \in Nat : q = Size \/ m[q] = 0}
  OBVIOUS
<1>2. PICK e \in Nat : First(T, x, e) /\ e <= Size
  <2>1. T \subseteq Nat /\ Size \in T
    BY <1>1, SizeAssumption
  <2>. QED BY <2>1, FirstOne
<1>3. Stops(m, x, e)
  BY <1>1, <1>2 DEF First, Stops
<1>. QED BY <1>3

LEMMA ClearedIs ==
  ASSUME NEW m, NEW x \in Nat, NEW e, Stops(m, x, e)
  PROVE  Memory!ClearedTo(m, x) = e
<1>1. PICK T : T = {q \in Nat : q = Size \/ m[q] = 0}
  OBVIOUS
<1>2. \A f : f = [j \in Nat |-> IF j = Size \/ m[j] = Memory!NUL THEN j ELSE f[j + 1]] <=> Search(f, T)
  BY <1>1 DEF Search, Memory!NUL
<1>3. \E f : f = [j \in Nat |-> IF j = Size \/ m[j] = Memory!NUL THEN j ELSE f[j + 1]]
  BY <1>1, <1>2, SearchDefined
<1>4. PICK f : f = CHOOSE g : g = [j \in Nat |-> IF j = Size \/ m[j] = Memory!NUL THEN j ELSE g[j + 1]]
  OBVIOUS
<1>5. Search(f, T)
  BY <1>2, <1>3, <1>4, Zenon
<1>6. T \subseteq Nat /\ e \in Nat /\ First(T, x, e)
  <2>1. T \subseteq Nat /\ e \in T
    <3>1. e \in Nat /\ (e = Size \/ m[e] = 0)
      BY DEF Stops
    <3>. QED BY <1>1, <3>1, Zenon
  <2>2. ASSUME NEW j \in x .. e - 1 PROVE j \notin T
    <3>1. j # Size /\ m[j] # 0
      BY DEF Stops
    <3>. QED BY <1>1, <3>1, Zenon
  <2>. QED BY <2>1, <2>2 DEF First, Stops
<1>7. f[x] = e
  BY <1>5, <1>6, SearchFinds
<1>8. Memory!Until(LAMBDA q : q = Size \/ m[q] = Memory!NUL, x) = e
  BY <1>4, <1>7 DEF Memory!Until
<1>. QED BY <1>8 DEF Memory!ClearedTo

LEMMA StrcpyIs ==
  ASSUME NEW m, NEW d \in Nat, NEW s \in Nat, NEW n \in Nat, Memory!ft_strlen(m, s) = n,
         NEW x \in Nat, x = d + n, NEW e, Stops(m, x, e)
  PROVE  Filled(Memory!ft_strcpy(m, d, s), m, d, x, e, s)
<1>1. Memory!ClearedTo(m, x) = e
  BY ClearedIs
<1>. QED BY <1>1 DEF Filled, Memory!ft_strcpy, Memory!Write, Memory!NUL, Memory!Addr, Addr

LEMMA StrncpyIs ==
  ASSUME NEW m, NEW d \in Nat, NEW s \in Nat, NEW n \in Nat, NEW e, Cut(m, s, n, e)
  PROVE  Filled(Memory!ft_strncpy(m, d, s, n), m, d, d + e, d + n, s)
<1>1. PICK T : T = {k \in Nat : k = n \/ m[s + k] = 0}
  OBVIOUS
<1>2. \A f : f = [j \in Nat |-> IF j = n \/ m[s + j] = Memory!NUL THEN j ELSE f[j + 1]] <=> Search(f, T)
  BY <1>1 DEF Search, Memory!NUL
<1>3. \E f : f = [j \in Nat |-> IF j = n \/ m[s + j] = Memory!NUL THEN j ELSE f[j + 1]]
  BY <1>1, <1>2, SearchDefined
<1>4. PICK f : f = CHOOSE g : g = [j \in Nat |-> IF j = n \/ m[s + j] = Memory!NUL THEN j ELSE g[j + 1]]
  OBVIOUS
<1>5. Search(f, T)
  BY <1>2, <1>3, <1>4, Zenon
<1>6. T \subseteq Nat /\ 0 \in Nat /\ e \in Nat /\ First(T, 0, e)
  <2>1. T \subseteq Nat /\ e \in T
    BY <1>1, Zenon DEF Cut
  <2>2. ASSUME NEW j \in 0 .. e - 1 PROVE j \notin T
    <3>1. j # n /\ m[s + j] # 0
      BY DEF Cut
    <3>. QED BY <1>1, <3>1, Zenon
  <2>. QED BY <2>1, <2>2 DEF First, Cut
<1>7. f[0] = e
  BY <1>5, <1>6, SearchFinds
<1>8. Memory!Until(LAMBDA k : k = n \/ m[s + k] = Memory!NUL, 0) = e
  BY <1>4, <1>7 DEF Memory!Until
<1>. QED BY <1>8 DEF Filled, Memory!ft_strncpy, Memory!Write, Memory!NUL, Memory!Addr, Addr

LEMMA AppendToIs ==
  ASSUME NEW m, NEW d \in Nat, NEW s, NEW n \in Nat, NEW x \in Nat, End(m, d, x)
  PROVE  Filled(Memory!AppendTo(m, d, s, n), m, x, x + n, x + n + 1, s)
<1>1. d + Memory!ft_strlen(m, d) = x
  <2>1. Memory!ft_strlen(m, d) = x - d /\ x \in Nat
    BY StrlenIs DEF End
  <2>. QED BY <2>1
<1>. QED BY <1>1 DEF Filled, Memory!AppendTo, Memory!Write, Memory!NUL, Memory!Addr, Addr

LEMMA StrncatIs ==
  ASSUME NEW m, NEW d, NEW s \in Nat, NEW n \in Nat, NEW e, Cut(m, s, n, e)
  PROVE  Memory!ft_strncat(m, d, s, n) = Memory!AppendTo(m, d, s, e)
<1>1. PICK T : T = {k \in Nat : m[s + k] = 0 \/ k >= n}
  OBVIOUS
<1>2. \A f : f = [j \in Nat |-> IF m[s + j] = Memory!NUL \/ j >= n THEN j ELSE f[j + 1]] <=> Search(f, T)
  BY <1>1 DEF Search, Memory!NUL
<1>3. \E f : f = [j \in Nat |-> IF m[s + j] = Memory!NUL \/ j >= n THEN j ELSE f[j + 1]]
  BY <1>1, <1>2, SearchDefined
<1>4. PICK f : f = CHOOSE g : g = [j \in Nat |-> IF m[s + j] = Memory!NUL \/ j >= n THEN j ELSE g[j + 1]]
  OBVIOUS
<1>5. Search(f, T)
  BY <1>2, <1>3, <1>4, Zenon
<1>6. T \subseteq Nat /\ 0 \in Nat /\ e \in Nat /\ First(T, 0, e)
  <2>1. T \subseteq Nat /\ e \in T
    <3>1. e \in Nat /\ (m[s + e] = 0 \/ e >= n)
      BY DEF Cut
    <3>. QED BY <1>1, <3>1, Zenon
  <2>2. ASSUME NEW j \in 0 .. e - 1 PROVE j \notin T
    <3>1. m[s + j] # 0 /\ ~(j >= n)
      BY DEF Cut
    <3>. QED BY <1>1, <3>1, Zenon
  <2>. QED BY <2>1, <2>2 DEF First, Cut
<1>7. f[0] = e
  BY <1>5, <1>6, SearchFinds
<1>8. Memory!Until(LAMBDA k : m[s + k] = Memory!NUL \/ k >= n, 0) = e
  BY <1>4, <1>7 DEF Memory!Until
<1>. QED BY <1>8 DEF Memory!ft_strncat

LEMMA StrlcatIs ==
  ASSUME NEW m, NEW d \in Nat, NEW s \in Nat, NEW n \in Nat, NEW x \in Nat, Memory!ft_strlen(m, d) = x,
         NEW q \in Nat, n = x + q + 1 \/ (n = x /\ q = 0), NEW e, Cut(m, s, q, e)
  PROVE  Memory!ft_strlcat(m, d, s, n)
           = [mem |-> Memory!AppendTo(m, d, s, e), ret |-> x + Memory!ft_strlen(m, s)]
<1>1. PICK T : T = {k \in Nat : m[s + k] = 0 \/ n <= x + k + 1}
  OBVIOUS
<1>2. \A f : f = [j \in Nat |-> IF m[s + j] = Memory!NUL \/ n <= x + j + 1 THEN j ELSE f[j + 1]] <=> Search(f, T)
  BY <1>1 DEF Search, Memory!NUL
<1>3. \E f : f = [j \in Nat |-> IF m[s + j] = Memory!NUL \/ n <= x + j + 1 THEN j ELSE f[j + 1]]
  BY <1>1, <1>2, SearchDefined
<1>4. PICK f : f = CHOOSE g : g = [j \in Nat |-> IF m[s + j] = Memory!NUL \/ n <= x + j + 1 THEN j ELSE g[j + 1]]
  OBVIOUS
<1>5. Search(f, T)
  BY <1>2, <1>3, <1>4, Zenon
<1>6. T \subseteq Nat /\ 0 \in Nat /\ e \in Nat /\ First(T, 0, e)
  <2>1. T \subseteq Nat /\ e \in T
    <3>1. e \in Nat /\ (m[s + e] = 0 \/ n <= x + e + 1)
      BY DEF Cut
    <3>. QED BY <1>1, <3>1, Zenon
  <2>2. ASSUME NEW j \in 0 .. e - 1 PROVE j \notin T
    <3>1. m[s + j] # 0 /\ ~(n <= x + j + 1)
      BY DEF Cut
    <3>. QED BY <1>1, <3>1, Zenon
  <2>. QED BY <2>1, <2>2 DEF First, Cut
<1>7. f[0] = e
  BY <1>5, <1>6, SearchFinds
<1>8. Memory!Until(LAMBDA k : m[s + k] = Memory!NUL \/ n <= x + k + 1, 0) = e
  BY <1>4, <1>7 DEF Memory!Until
<1>9. ~(n < x)
  OBVIOUS
<1>. QED BY <1>8, <1>9 DEF Memory!ft_strlcat

(* A loop over a block at s has stopped after e characters, at c or at n.  *)
Sought(m, s, n, c, e) ==
  e \in Nat /\ (e = n \/ m[s + e] = c) /\ \A k \in 0 .. e - 1 : k # n /\ m[s + k] # c

LEMMA MemccpyIs ==
  ASSUME NEW m, NEW d \in Nat, NEW s \in Nat, NEW n \in Nat, NEW c, NEW e, Sought(m, s, n, c, e)
  PROVE  Memory!ft_memccpy(m, d, s, c, n)
           = IF e = n THEN [mem |-> Memory!ft_memmove(m, d, s, n), ret |-> -1]
             ELSE [mem |-> Memory!ft_memmove(m, d, s, e + 1), ret |-> d + e + 1]
<1>1. PICK T : T = {k \in Nat : k = n \/ m[s + k] = c}
  OBVIOUS
<1>2. \A f : f = [j \in Nat |-> IF j = n \/ m[s + j] = c THEN j ELSE f[j + 1]] <=> Search(f, T)
  BY <1>1 DEF Search, Memory!NUL
<1>3. \E f : f = [j \in Nat |-> IF j = n \/ m[s + j] = c THEN j ELSE f[j + 1]]
  BY <1>1, <1>2, SearchDefined
<1>4. PICK f : f = CHOOSE g : g = [j \in Nat |-> IF j = n \/ m[s + j] = c THEN j ELSE g[j + 1]]
  OBVIOUS
<1>5. Search(f, T)
  BY <1>2, <1>3, <1>4, Zenon
<1>6. T \subseteq Nat /\ 0 \in Nat /\ e \in Nat /\ First(T, 0, e)
  <2>1. T \subseteq Nat /\ e \in T
    BY <1>1, Zenon DEF Sought
  <2>2. ASSUME NEW j \in 0 .. e - 1 PROVE j \notin T
    <3>1. j # n /\ m[s + j] # c
      BY DEF Sought
    <3>. QED BY <1>1, <3>1, Zenon
  <2>. QED BY <2>1, <2>2 DEF First, Sought
<1>7. f[0] = e
  BY <1>5, <1>6, SearchFinds
<1>8. Memory!Until(LAMBDA k : k = n \/ m[s + k] = c, 0) = e
  BY <1>4, <1>7 DEF Memory!Until
<1>. QED BY <1>8 DEF Memory!ft_memccpy

LEMMA EndFound ==
  ASSUME NEW m, NEW a \in Nat, NEW b \in Nat, b >= a, m[b] = 0
  PROVE  \E e \in Nat : End(m, a, e) /\ e <= b
<1>1. PICK T : T = {p \in Nat : m[p] = 0}
  OBVIOUS
<1>2. PICK e \in Nat : First(T, a, e) /\ e <= b
  <2>1. T \subseteq Nat /\ b \in T
    BY <1>1
  <2>. QED BY <2>1, FirstOne
<1>3. End(m, a, e)
  BY <1>1, <1>2 DEF First, End
<1>. QED BY <1>2, <1>3

(* What a string is, as the calls of the module take them.                 *)
Text == Byte \cup {0}

LEMMA StringIs ==
  ASSUME NEW m \in [Addr -> Byte], NEW a \in Addr, NEW e, End(m, a, e), e \in Addr
  PROVE  /\ Memory!Str(m, a) \in Seq(Text) /\ Len(Memory!Str(m, a)) = e - a
         /\ \A k \in 1 .. e - a : Memory!Str(m, a)[k] = m[a + k - 1]
<1>1. a \in Nat /\ e \in Nat /\ e - a \in Nat /\ e < Size /\ Size \in Nat
  BY SizeAssumption DEF Addr, End
<1>2. Memory!ft_strlen(m, a) = e - a
  BY <1>1, StrlenIs
<1>3. PICK L, s : L \in Nat /\ L = e - a /\ s = Memory!Str(m, a)
  BY <1>1
<1>4. s = [k \in 1 .. L |-> m[a + k - 1]]
  BY <1>2, <1>3 DEF Memory!Str
<1>5. \A k \in 1 .. L : m[a + k - 1] \in Text
  <2> TAKE k \in 1 .. L
  <2>1. a + k - 1 \in Addr
    BY <1>1, <1>3 DEF Addr
  <2>. QED BY <2>1 DEF Text
<1>6. s \in [1 .. L -> Text]
  BY <1>4, <1>5
<1>7. s \in Seq(Text) /\ Len(s) = L
  BY <1>3, <1>6
<1>. QED BY <1>3, <1>4, <1>7

LEMMA TerminatedIs ==
  ASSUME NEW s \in Seq(Text)
  PROVE  /\ Len(Memory!Terminated(s)) = Len(s) + 1
         /\ \A k \in 1 .. Len(s) : Memory!Terminated(s)[k] = s[k]
         /\ Memory!Terminated(s)[Len(s) + 1] = 0
<1>1. <<0>> \in Seq(Text)
  BY DEF Text
<1>. QED BY <1>1 DEF Memory!Terminated, Memory!NUL

LEMMA TextsJoined ==
  ASSUME NEW s \in Seq(Text), NEW t \in Seq(Text)
  PROVE  /\ s \o t \in Seq(Text) /\ Len(s \o t) = Len(s) + Len(t)
         /\ \A k \in 1 .. Len(s) : (s \o t)[k] = s[k]
         /\ \A k \in 1 .. Len(t) : (s \o t)[Len(s) + k] = t[k]
OBVIOUS

LEMMA PrefixIs ==
  ASSUME NEW s \in Seq(Text), NEW n \in Nat, NEW c \in Nat, c = IF n < Len(s) THEN n ELSE Len(s)
  PROVE  /\ Memory!Prefix(s, n) \in Seq(Text) /\ Len(Memory!Prefix(s, n)) = c
         /\ \A k \in 1 .. c : Memory!Prefix(s, n)[k] = s[k]
<1>1. Memory!MIN(n, Len(s)) = c /\ c <= Len(s)
  BY DEF Memory!MIN
<1>2. Memory!Prefix(s, n) = SubSeq(s, 1, c)
  BY <1>1 DEF Memory!Prefix
<1>. QED BY <1>1, <1>2

(* An action that writes what it should.                                   *)
LEMMA CallMade ==
  ASSUME NEW d, NEW n, NEW expected, NEW wanted, NEW m, NEW ret,
         Memory!Call(d, n, expected, wanted, m, ret), ret = wanted,
         \A k \in 1 .. Len(expected) : m[d + k - 1] = expected[k],
         \A p \in Addr : p \in d .. d + n - 1 \/ m[p] = memory[p]
  PROVE  Memory!BlocksAsInC'
<1>1. /\ memory' = m /\ call'.dst = d /\ call'.n = n /\ call'.expected = expected
      /\ call'.wanted = wanted /\ call'.ret = ret /\ call'.before = memory
      /\ call'.cleared = Size /\ call'.second = Size
  BY DEF Memory!Call, Memory!Made
<1>2. /\ Size \in Nat /\ ~(Size < Size) /\ \A p \in Addr : ~(p >= Size)
  BY SizeAssumption DEF Addr
<1>3. Memory!Overrun' = {}
  BY <1>1, <1>2 DEF Memory!Overrun, Memory!Addr, Addr
<1>4. ~Memory!Faulted' /\ ~Memory!SecondLost'
  BY <1>1, <1>2, <1>3 DEF Memory!Faulted, Memory!SecondLost
<1>5. Memory!WritesWhatItShould'
  BY <1>1, <1>4 DEF Memory!WritesWhatItShould
<1>6. Memory!StaysInBlock'
  BY <1>1, <1>3 DEF Memory!StaysInBlock, Memory!Addr, Addr
<1>. QED BY <1>5, <1>6 DEF Memory!BlocksAsInC

(* The block d of n bytes holds x, but for what is gone from c on, and     *)
(* around it nothing has changed but to zero, from c up to e.  It is gone  *)
(* if memory ends at e, or the clearing went over z behind the block.      *)
Clears(m, x, d, n, c, e, z, gone) ==
  /\ gone \in BOOLEAN /\ (gone <=> e = Size \/ (z \in Addr /\ z >= d + n /\ z < e))
  /\ \A k \in 1 .. Len(x) : m[d + k - 1] = IF gone /\ d + k - 1 >= c THEN 0 ELSE x[k]
  /\ \A p \in Addr : p \in d .. d + n - 1 \/ m[p] = IF p \in c .. e - 1 THEN 0 ELSE memory[p]

(* An action with ft_strcpy, which has cleared from c up to e; z is where  *)
(* the second string is.                                                   *)
LEMMA ClearingCall ==
  ASSUME NEW d \in Nat, NEW n \in Nat, d + n <= Size, NEW c \in Nat, d <= c, c < d + n,
         NEW e, Stops(memory, c, e), NEW x, NEW m, NEW ret, NEW z \in Nat,
         Memory!Made(d, n, x, d, m, ret, c, z), ret = IF e = Size THEN Memory!Fault ELSE d,
         NEW gone, Clears(m, x, d, n, c, e, z, gone)
  PROVE  Memory!BlocksAsInC'
<1>0. /\ gone \in BOOLEAN /\ (gone <=> e = Size \/ (z \in Addr /\ z >= d + n /\ z < e))
      /\ \A k \in 1 .. Len(x) : m[d + k - 1] = IF gone /\ d + k - 1 >= c THEN 0 ELSE x[k]
      /\ \A p \in Addr : p \in d .. d + n - 1 \/ m[p] = IF p \in c .. e - 1 THEN 0 ELSE memory[p]
  BY Zenon DEF Clears
<1>1. /\ memory' = m /\ call'.dst = d /\ call'.n = n /\ call'.expected = x
      /\ call'.wanted = d /\ call'.ret = ret /\ call'.before = memory
      /\ call'.cleared = c /\ call'.second = z
  BY DEF Memory!Made
<1>2. /\ Size \in Nat /\ e \in Nat /\ c <= e /\ e <= Size /\ (e = Size \/ memory[e] = 0)
      /\ (\A p \in c .. e - 1 : memory[p] # 0) /\ c < Size
  BY SizeAssumption DEF Stops
<1>3. ASSUME NEW p \in Addr PROVE p \in Memory!Overrun' <=> p >= d + n /\ p < e
  <2>1. p \in Memory!Overrun' <=> p >= c /\ p >= d + n /\ \A q \in c .. p : memory[q] # 0
    BY <1>1 DEF Memory!Overrun, Memory!Addr, Addr, Memory!NUL
  <2>2. p \in Nat /\ p < Size
    BY <1>2 DEF Addr
  <2>3. p < e => \A q \in c .. p : memory[q] # 0
    BY <1>2, <2>2
  <2>4. p >= e => e # Size /\ e \in c .. p
    BY <1>2, <2>2
  <2>5. p >= e => \E q \in c .. p : memory[q] = 0
    BY <1>2, <2>4
  <2>6. p < e \/ p >= e
    BY <1>2, <2>2
  <2>7. p >= d + n => p >= c
    BY <2>2
  <2>8. CASE p < e
    <3>1. p \in Memory!Overrun' <=> p >= d + n
      BY <2>1, <2>3, <2>7, <2>8
    <3>. QED BY <2>8, <3>1
  <2>9. CASE p >= e
    <3>1. ~(p < e)
      BY <1>2, <2>2, <2>9
    <3>2. p \notin Memory!Overrun'
      BY <2>1, <2>5, <2>9
    <3>. QED BY <3>1, <3>2
  <2>. QED BY <2>6, <2>8, <2>9
<1>4. Memory!Faulted' <=> e = Size
  <2>1. Memory!Faulted' <=> \A q \in c .. Size - 1 : memory[q] # 0
    BY <1>1, <1>2 DEF Memory!Faulted, Memory!NUL
  <2>2. CASE e = Size
    BY <1>2, <2>1, <2>2
  <2>3. CASE e # Size
    <3>1. e \in c .. Size - 1 /\ memory[e] = 0
      BY <1>2, <2>3
    <3>. QED BY <2>1, <2>3, <3>1
  <2>. QED BY <2>2, <2>3
<1>5. Memory!SecondLost' <=> gone
  <2>1. Memory!Overrun' \subseteq Addr
    BY DEF Memory!Overrun, Memory!Addr, Addr
  <2>2. z \in Memory!Overrun' <=> z \in Addr /\ z >= d + n /\ z < e
    BY <1>3, <2>1
  <2>. QED BY <1>0, <1>1, <1>4, <2>2 DEF Memory!SecondLost
<1>6. Memory!WritesWhatItShould'
  BY <1>0, <1>1, <1>4, <1>5 DEF Memory!WritesWhatItShould, Memory!NUL
<1>7. Memory!StaysInBlock'
  <2>1. ASSUME NEW p \in Addr, p \notin d .. d + n - 1
        PROVE  m[p] = IF p \in Memory!Overrun' THEN 0 ELSE memory[p]
    <3>1. p \in c .. e - 1 <=> p >= d + n /\ p < e
      BY <1>2, <2>1 DEF Addr
    <3>. QED BY <1>0, <1>3, <2>1, <3>1
  <2>. QED BY <1>1, <2>1 DEF Memory!StaysInBlock, Memory!Addr, Addr, Memory!NUL
<1>. QED BY <1>6, <1>7 DEF Memory!BlocksAsInC

Reads(s, m, a, n) == s \in Seq(Text) /\ Len(s) = n /\ \A k \in 1 .. n : s[k] = m[a + k - 1]

LEMMA StringAt ==
  ASSUME memory \in [Addr -> Byte], NEW a \in Addr, Memory!IsString(a)
  PROVE  \E n \in Nat : \E s \in Seq(Text) :
           /\ a \in Nat /\ a + n \in Addr /\ End(memory, a, a + n) /\ Memory!ft_strlen(memory, a) = n
           /\ s = Memory!Str(memory, a) /\ Len(s) = n /\ \A k \in 1 .. n : s[k] = memory[a + k - 1]
<1>1. a \in Nat /\ Size \in Nat /\ a < Size
  BY SizeAssumption DEF Addr
<1>2. PICK b \in Nat : b < Size /\ b >= a /\ memory[b] = 0
  BY SizeAssumption DEF Memory!IsString, Memory!Addr, Memory!NUL
<1>3. PICK e \in Nat : End(memory, a, e) /\ e <= b
  BY <1>1, <1>2, EndFound
<1>4. PICK n \in Nat : a + n = e
  <2>1. e - a \in Nat /\ a + (e - a) = e
    BY <1>1, <1>3 DEF End
  <2>. QED BY <2>1
<1>5. e \in Addr /\ e - a = n
  BY <1>1, <1>2, <1>3, <1>4 DEF Addr
<1>6. Memory!ft_strlen(memory, a) = n
  BY <1>1, <1>3, <1>5, StrlenIs
<1>7. PICK s : s = Memory!Str(memory, a)
  OBVIOUS
<1>8. s \in Seq(Text) /\ Len(s) = n /\ \A k \in 1 .. n : s[k] = memory[a + k - 1]
  BY <1>3, <1>5, <1>7, StringIs
<1>. QED BY <1>1, <1>3, <1>4, <1>5, <1>6, <1>7, <1>8

(* c is the smaller of n and L.                                            *)
Least(c, n, L) == c = IF n < L THEN n ELSE L

LEMMA CutAt ==
  ASSUME NEW m, NEW a \in Nat, NEW e \in Nat, End(m, a, e), NEW L \in Nat, e = a + L,
         NEW n \in Nat, NEW c, Least(c, n, L)
  PROVE  Cut(m, a, n, c)
<1>1. m[a + L] = 0 /\ \A k \in 0 .. L - 1 : m[a + k] # 0
  BY DEF End
<1>2. c \in Nat /\ c <= n /\ c <= L /\ (c = n \/ c = L)
  BY DEF Least
<1>3. c = n \/ m[a + c] = 0
  BY <1>1, <1>2
<1>4. ASSUME NEW k \in 0 .. c - 1 PROVE k # n /\ k < n /\ m[a + k] # 0
  <2>1. k \in 0 .. L - 1 /\ k # n /\ k < n
    BY <1>2
  <2>. QED BY <1>1, <2>1
<1>. QED BY <1>2, <1>3, <1>4 DEF Cut

-----------------------------------------------------------------------------
(* Each function leaves what C wants of it.                                *)
LEMMA StrcpyRight ==
  ASSUME memory \in [Addr -> Byte], NEW d \in Addr, NEW a \in Addr, NEW n \in 0 .. Size, Memory!Strcpy(d, a, n)
  PROVE  Memory!BlocksAsInC'
<1>1. Size \in Nat /\ d \in Nat /\ n \in Nat
  BY SizeAssumption DEF Addr
<1>2. Memory!IsString(a) /\ d + n <= Size
  BY DEF Memory!Strcpy, Memory!StrBlock, Memory!Block
<1>3. PICK L \in Nat, s \in Seq(Text) :
           /\ a \in Nat /\ a + L \in Addr /\ End(memory, a, a + L) /\ Memory!ft_strlen(memory, a) = L
           /\ s = Memory!Str(memory, a) /\ Len(s) = L /\ \A k \in 1 .. L : s[k] = memory[a + k - 1]
  BY <1>2, StringAt
<1>0. PICK y \in Nat : y = d + L
  BY <1>1
<1>4. y < d + n
  BY <1>0, <1>3, Zenon DEF Memory!Strcpy
<1>5. PICK e \in Nat : Stops(memory, y, e)
  <2>1. y <= Size
    BY <1>1, <1>2, <1>4
  <2>. QED BY <2>1, StopFound
<1>6. PICK m : m = Memory!ft_strcpy(memory, d, a)
  OBVIOUS
<1>7. \A p \in Addr : m[p] = IF p \in d .. e - 1 THEN IF p < y THEN memory[a + (p - d)] ELSE 0 ELSE memory[p]
  <2>1. Filled(m, memory, d, y, e, a)
    BY <1>0, <1>1, <1>3, <1>5, <1>6, StrcpyIs, Zenon
  <2>. QED BY <2>1 DEF Filled
<1>8. PICK x : x = Memory!Terminated(s)
  OBVIOUS
<1>9. Len(x) = L + 1 /\ (\A k \in 1 .. L : x[k] = memory[a + k - 1]) /\ x[L + 1] = 0
  BY <1>3, <1>8, TerminatedIs
<1>10. e >= y /\ e <= Size /\ (e = Size \/ memory[e] = 0)
  BY <1>5 DEF Stops
<1>11. ASSUME NEW k \in 1 .. Len(x) PROVE m[d + k - 1] = x[k] /\ (d + k - 1 >= y => x[k] = 0)
  <2>1. d + k - 1 \in Addr /\ d + k - 1 <= d + L /\ k \in 1 .. L + 1
    BY <1>0, <1>1, <1>2, <1>3, <1>4, <1>9 DEF Addr
  <2>2. CASE k \in 1 .. L
    BY <1>0, <1>1, <1>3, <1>7, <1>9, <1>10, <2>1, <2>2
  <2>3. CASE k = L + 1
    <3>1. d + k - 1 = y /\ x[k] = 0 /\ y \in Addr
      BY <1>0, <1>1, <1>9, <2>1, <2>3
    <3>2. (y \in d .. e - 1 /\ ~(y < y)) \/ (y = e /\ e # Size)
      BY <1>0, <1>1, <1>10, <3>1 DEF Addr
    <3>. QED BY <1>7, <1>10, <3>1, <3>2
  <2>. QED BY <2>1, <2>2, <2>3
<1>12. ASSUME NEW p \in Addr PROVE p \in d .. d + n - 1 \/ m[p] = IF p \in y .. e - 1 THEN 0 ELSE memory[p]
  <2>1. CASE p < d
    BY <1>0, <1>1, <1>3, <1>7, <2>1 DEF Addr
  <2>2. CASE p >= d + n
    <3>1. p \in d .. e - 1 <=> p \in y .. e - 1
      BY <1>0, <1>1, <1>3, <1>4, <2>2 DEF Addr
    <3>2. ~(p < y)
      BY <1>0, <1>1, <1>4, <2>2 DEF Addr
    <3>. QED BY <1>7, <3>1, <3>2
  <2>. QED BY <1>1, <2>1, <2>2 DEF Addr
<1>13. PICK q : q = IF e = Size THEN Memory!Fault ELSE d
  OBVIOUS
<1>14. Memory!Made(d, n, x, d, m, q, y, Size)
  <2>1. Memory!ClearedTo(memory, y) = e
    BY <1>5, ClearedIs
  <2>2. Memory!AfterCopy(d, y) = q
    BY <1>13, <2>1 DEF Memory!AfterCopy
  <2>3. Memory!Made(d, n, Memory!Terminated(Memory!Str(memory, a)), d, Memory!ft_strcpy(memory, d, a),
                    Memory!AfterCopy(d, d + Memory!ft_strlen(memory, a)), d + Memory!ft_strlen(memory, a), Size)
    BY Zenon DEF Memory!Strcpy
  <2>. QED BY <1>0, <1>3, <1>6, <1>8, <2>2, <2>3
<1>15. PICK gone \in BOOLEAN : gone <=> e = Size \/ (Size \in Addr /\ Size >= d + n /\ Size < e)
  OBVIOUS
<1>16. \A k \in 1 .. Len(x) : m[d + k - 1] = IF gone /\ d + k - 1 >= y THEN 0 ELSE x[k]
  BY <1>11
<1>17. d <= y
  BY <1>0, <1>1
<1>18. Clears(m, x, d, n, y, e, Size, gone)
  BY <1>12, <1>15, <1>16, Zenon DEF Clears
<1>. QED BY <1>1, <1>2, <1>4, <1>5, <1>13, <1>14, <1>17, <1>18, ClearingCall

LEMMA StrncpyRight ==
  ASSUME memory \in [Addr -> Byte], NEW d \in Addr, NEW a \in Addr, NEW n \in 0 .. Size, Memory!Strncpy(d, a, n)
  PROVE  Memory!BlocksAsInC'
<1>1. Size \in Nat /\ d \in Nat /\ n \in Nat
  BY SizeAssumption DEF Addr
<1>2. Memory!IsString(a) /\ d + n <= Size
  BY DEF Memory!Strncpy, Memory!StrBlock, Memory!Block
<1>3. PICK L \in Nat, s \in Seq(Text) :
           /\ a \in Nat /\ a + L \in Addr /\ End(memory, a, a + L) /\ Memory!ft_strlen(memory, a) = L
           /\ s = Memory!Str(memory, a) /\ Len(s) = L /\ \A k \in 1 .. L : s[k] = memory[a + k - 1]
  BY <1>2, StringAt
<1>4. PICK c \in Nat : c = IF n < L THEN n ELSE L
  BY <1>1
<1>5. Cut(memory, a, n, c)
  <2>1. PICK e : e = a + L
    OBVIOUS
  <2>2. a \in Nat /\ e \in Nat /\ End(memory, a, e)
    BY <1>3, <2>1
  <2>3. Least(c, n, L)
    BY <1>4 DEF Least
  <2>. QED BY <1>1, <2>1, <2>2, <2>3, CutAt, Zenon
<1>6. PICK m : m = Memory!ft_strncpy(memory, d, a, n)
  OBVIOUS
<1>7. \A p \in Addr : m[p] = IF p \in d .. (d + n) - 1 THEN IF p < d + c THEN memory[a + (p - d)] ELSE 0 ELSE memory[p]
  <2>1. Filled(m, memory, d, d + c, d + n, a)
    BY <1>1, <1>3, <1>5, <1>6, StrncpyIs, Zenon
  <2>. QED BY <2>1, Zenon DEF Filled
<1>8. PICK x : x = [k \in 1 .. n |-> IF k <= Len(s) THEN s[k] ELSE 0]
  OBVIOUS
<1>9. Len(x) = n
  BY <1>1, <1>8
<1>10. ASSUME NEW k \in 1 .. Len(x) PROVE m[d + k - 1] = x[k]
  <2>1. d + k - 1 \in Addr /\ d + k - 1 \in d .. d + n - 1 /\ k \in 1 .. n
    BY <1>1, <1>2, <1>9 DEF Addr
  <2>2. d + k - 1 < d + c <=> k <= L
    BY <1>1, <1>4, <2>1
  <2>. QED BY <1>1, <1>3, <1>7, <1>8, <2>1, <2>2
<1>11. ASSUME NEW p \in Addr PROVE p \in d .. d + n - 1 \/ m[p] = memory[p]
  BY <1>1, <1>7
<1>12. Memory!Call(d, n, x, d, m, d)
  BY <1>3, <1>6, <1>8 DEF Memory!Strncpy, Memory!NUL
<1>. QED BY <1>10, <1>11, <1>12, CallMade

(* x stands at d in m, and what is not in its last c + 1 places is as in g. *)
Laid(m, g, x, d, L, c) ==
  /\ Len(x) = L + c + 1
  /\ \A k \in 1 .. Len(x) : m[d + k - 1] = x[k]
  /\ \A p \in Addr : p \in d + L .. d + L + c \/ m[p] = g[p]

(* c characters of a second string behind the first one.                   *)
LEMMA Appended ==
  ASSUME NEW g, NEW d \in Nat, NEW a \in Nat, NEW L \in Nat, NEW c \in Nat,
         NEW e \in Nat, e = d + L, End(g, d, e), NEW z \in Addr, z = e + c,
         NEW m, m = Memory!AppendTo(g, d, a, c),
         NEW s, Reads(s, g, d, L), NEW t, Reads(t, g, a, c), NEW x, x = Memory!Terminated(s \o t)
  PROVE  Laid(m, g, x, d, L, c)
<1>1. e = d + L
  OBVIOUS
<1>2. \A p \in Addr : m[p] = IF p \in e .. e + c THEN IF p < e + c THEN g[a + (p - e)] ELSE 0 ELSE g[p]
  <2>1. Filled(m, g, e, e + c, e + c + 1, a)
    BY AppendToIs, Zenon
  <2>. QED BY <2>1 DEF Filled
<1>3. PICK y : y = s \o t
  OBVIOUS
<1>0. /\ s \in Seq(Text) /\ Len(s) = L /\ \A k \in 1 .. L : s[k] = g[d + k - 1]
      /\ t \in Seq(Text) /\ Len(t) = c /\ \A k \in 1 .. c : t[k] = g[a + k - 1]
  BY DEF Reads
<1>4. y \in Seq(Text) /\ Len(y) = L + c /\ (\A k \in 1 .. L : y[k] = s[k]) /\ \A k \in 1 .. c : y[L + k] = t[k]
  BY <1>3, <1>0, TextsJoined
<1>5. Len(x) = L + c + 1 /\ (\A k \in 1 .. L + c : x[k] = y[k]) /\ x[L + c + 1] = 0
  <2>1. Len(x) = Len(y) + 1 /\ (\A k \in 1 .. Len(y) : x[k] = y[k]) /\ x[Len(y) + 1] = 0
    BY <1>3, <1>4, TerminatedIs
  <2>. QED BY <1>4, <2>1, Zenon
<1>6. ASSUME NEW k \in 1 .. Len(x) PROVE m[d + k - 1] = x[k]
  <2>1. d + k - 1 \in Addr /\ k \in 1 .. L + c + 1
    BY <1>1, <1>5, SizeAssumption DEF Addr
  <2>2. CASE k \in 1 .. L
    <3>1. k \in 1 .. L + c /\ d + k - 1 \notin e .. e + c
      BY <1>1, <2>2
    <3>2. m[d + k - 1] = g[d + k - 1]
      BY <1>2, <2>1, <3>1
    <3>3. x[k] = y[k] /\ y[k] = s[k] /\ s[k] = g[d + k - 1]
      BY <1>0, <1>4, <1>5, <2>2, <3>1
    <3>. QED BY <3>2, <3>3
  <2>3. CASE k \in L + 1 .. L + c
    <3>1. PICK j \in 1 .. c : k = L + j
      <4>1. k - L \in 1 .. c /\ k = L + (k - L)
        BY <2>3
      <4>. QED BY <4>1
    <3>2. x[k] = g[a + j - 1]
      <4>1. x[k] = y[L + j] /\ y[L + j] = t[j] /\ t[j] = g[a + j - 1]
        BY <1>0, <1>4, <1>5, <2>3, <3>1
      <4>. QED BY <4>1
    <3>3. d + k - 1 = e + (j - 1) /\ j - 1 \in 0 .. c - 1
      BY <1>1, <3>1
    <3>4. e + (j - 1) \in e .. e + c /\ e + (j - 1) < e + c /\ a + ((e + (j - 1)) - e) = a + j - 1
      BY <3>3
    <3>. QED BY <1>2, <2>1, <3>2, <3>3, <3>4
  <2>4. CASE k = L + c + 1
    <3>1. d + k - 1 \in e .. e + c /\ ~(d + k - 1 < e + c)
      BY <1>1, <2>4
    <3>. QED BY <1>2, <1>5, <2>1, <2>4, <3>1
  <2>. QED BY <2>1, <2>2, <2>3, <2>4
<1>. QED BY <1>1, <1>2, <1>5, <1>6 DEF Laid

LEMMA StrncatRight ==
  ASSUME memory \in [Addr -> Byte], NEW d \in Addr, NEW a \in Addr, NEW n \in 0 .. Size, Memory!Strncat(d, a, n)
  PROVE  Memory!BlocksAsInC'
<1>1. Size \in Nat /\ n \in Nat /\ Memory!IsString(d) /\ Memory!IsString(a)
  BY SizeAssumption DEF Memory!Strncat
<1>2. PICK L \in Nat, s \in Seq(Text) :
           /\ d \in Nat /\ d + L \in Addr /\ End(memory, d, d + L) /\ Memory!ft_strlen(memory, d) = L
           /\ s = Memory!Str(memory, d) /\ Len(s) = L /\ \A k \in 1 .. L : s[k] = memory[d + k - 1]
  BY <1>1, StringAt
<1>3. PICK M \in Nat, t \in Seq(Text) :
           /\ a \in Nat /\ a + M \in Addr /\ End(memory, a, a + M) /\ Memory!ft_strlen(memory, a) = M
           /\ t = Memory!Str(memory, a) /\ Len(t) = M /\ \A k \in 1 .. M : t[k] = memory[a + k - 1]
  BY <1>1, StringAt
<1>4. PICK c \in Nat : c = IF n < M THEN n ELSE M
  BY <1>1
<1>5. Cut(memory, a, n, c)
  <2>1. PICK e : e = a + M
    OBVIOUS
  <2>2. a \in Nat /\ e \in Nat /\ End(memory, a, e)
    BY <1>3, <2>1
  <2>3. Least(c, n, M)
    BY <1>4 DEF Least
  <2>. QED BY <1>1, <2>1, <2>2, <2>3, CutAt, Zenon
<1>6. PICK u : u = Memory!Prefix(t, n)
  OBVIOUS
<1>7. u \in Seq(Text) /\ Len(u) = c /\ \A k \in 1 .. c : u[k] = memory[a + k - 1]
  <2>1. u \in Seq(Text) /\ Len(u) = c /\ \A k \in 1 .. c : u[k] = t[k]
    BY <1>1, <1>3, <1>4, <1>6, PrefixIs
  <2>2. \A k \in 1 .. c : k \in 1 .. M
    BY <1>1, <1>4
  <2>. QED BY <1>3, <2>1, <2>2
<1>8. PICK m : m = Memory!ft_strncat(memory, d, a, n)
  OBVIOUS
<1>9. m = Memory!AppendTo(memory, d, a, c)
  <2>1. a \in Nat /\ n \in Nat
    BY <1>1, <1>3
  <2>2. Memory!ft_strncat(memory, d, a, n) = Memory!AppendTo(memory, d, a, c)
    BY <1>5, <2>1, StrncatIs
  <2>. QED BY <1>8, <2>2
<1>10. PICK x : x = Memory!Terminated(s \o u)
  OBVIOUS
<1>11. Len(x) = L + c + 1
  <2>1. s \o u \in Seq(Text) /\ Len(s \o u) = L + c
    BY <1>2, <1>7, TextsJoined
  <2>. QED BY <1>10, <2>1, TerminatedIs
<1>12. Memory!StrBlock(d, Len(x), a) /\ Memory!Call(d, Len(x), x, d, m, d)
  BY <1>2, <1>3, <1>6, <1>8, <1>10 DEF Memory!Strncat
<1>13. d + L + c \in Addr
  BY <1>1, <1>2, <1>11, <1>12 DEF Memory!StrBlock, Memory!Block, Addr
<1>14. PICK e \in Nat : e = d + L
  BY <1>2
<1>15. /\ \A k \in 1 .. Len(x) : m[d + k - 1] = x[k]
       /\ \A p \in Addr : p \in d + L .. d + L + c \/ m[p] = memory[p]
  <2>1. Reads(s, memory, d, L) /\ Reads(u, memory, a, c)
    BY <1>2, <1>7 DEF Reads
  <2>2. End(memory, d, e)
    BY <1>2, <1>14
  <2>3. d \in Nat /\ a \in Nat
    BY <1>2, <1>3
  <2>4. PICK z \in Addr : z = e + c
    BY <1>2, <1>13, <1>14
  <2>5. Laid(m, memory, x, d, L, c)
    BY <1>9, <1>10, <1>14, <2>1, <2>2, <2>3, <2>4, Appended, Zenon
  <2>. QED BY <2>5 DEF Laid
<1>16. \A p \in Addr : p \in d .. d + Len(x) - 1 \/ m[p] = memory[p]
  <2>1. \A p \in d + L .. d + L + c : p \in d .. d + Len(x) - 1
    BY <1>2, <1>11
  <2>. QED BY <1>15, <2>1
<1>. QED BY <1>12, <1>15, <1>16, CallMade

LEMMA StrcatRight ==
  ASSUME memory \in [Addr -> Byte], NEW d \in Addr, NEW a \in Addr, Memory!Strcat(d, a)
  PROVE  Memory!BlocksAsInC'
<1>1. Size \in Nat /\ Memory!IsString(d) /\ Memory!IsString(a)
  BY SizeAssumption DEF Memory!Strcat
<1>2. PICK L \in Nat, s \in Seq(Text) :
           /\ d \in Nat /\ d + L \in Addr /\ End(memory, d, d + L) /\ Memory!ft_strlen(memory, d) = L
           /\ s = Memory!Str(memory, d) /\ Len(s) = L /\ \A k \in 1 .. L : s[k] = memory[d + k - 1]
  BY <1>1, StringAt
<1>3. PICK c \in Nat, t \in Seq(Text) :
           /\ a \in Nat /\ a + c \in Addr /\ End(memory, a, a + c) /\ Memory!ft_strlen(memory, a) = c
           /\ t = Memory!Str(memory, a) /\ Len(t) = c /\ \A k \in 1 .. c : t[k] = memory[a + k - 1]
  BY <1>1, StringAt
<1>8. PICK m : m = Memory!ft_strcat(memory, d, a)
  OBVIOUS
<1>9. m = Memory!AppendTo(memory, d, a, c)
  BY <1>3, <1>8 DEF Memory!ft_strcat
<1>10. PICK x : x = Memory!Terminated(s \o t)
  OBVIOUS
<1>11. Len(x) = L + c + 1
  <2>1. s \o t \in Seq(Text) /\ Len(s \o t) = L + c
    BY <1>2, <1>3, TextsJoined
  <2>. QED BY <1>10, <2>1, TerminatedIs
<1>12. Memory!StrBlock(d, Len(x), a) /\ Memory!Call(d, Len(x), x, d, m, d)
  BY <1>2, <1>3, <1>8, <1>10 DEF Memory!Strcat
<1>13. d + L + c \in Addr
  BY <1>1, <1>2, <1>11, <1>12 DEF Memory!StrBlock, Memory!Block, Addr
<1>14. PICK e \in Nat : e = d + L
  BY <1>2
<1>15. /\ \A k \in 1 .. Len(x) : m[d + k - 1] = x[k]
       /\ \A p \in Addr : p \in d + L .. d + L + c \/ m[p] = memory[p]
  <2>1. Reads(s, memory, d, L) /\ Reads(t, memory, a, c)
    BY <1>2, <1>3 DEF Reads
  <2>2. End(memory, d, e)
    BY <1>2, <1>14
  <2>3. d \in Nat /\ a \in Nat
    BY <1>2, <1>3
  <2>4. PICK z \in Addr : z = e + c
    BY <1>2, <1>13, <1>14
  <2>5. Laid(m, memory, x, d, L, c)
    BY <1>9, <1>10, <1>14, <2>1, <2>2, <2>3, <2>4, Appended, Zenon
  <2>. QED BY <2>5 DEF Laid
<1>16. \A p \in Addr : p \in d .. d + Len(x) - 1 \/ m[p] = memory[p]
  <2>1. \A p \in d + L .. d + L + c : p \in d .. d + Len(x) - 1
    BY <1>2, <1>11
  <2>. QED BY <1>15, <2>1
<1>. QED BY <1>12, <1>15, <1>16, CallMade


LEMMA StrclrRight ==
  ASSUME memory \in [Addr -> Byte], NEW d \in Addr, Memory!Strclr(d)
  PROVE  Memory!BlocksAsInC'
<1>1. Size \in Nat /\ Memory!IsString(d)
  BY SizeAssumption DEF Memory!Strclr
<1>2. PICK L \in Nat :
           d \in Nat /\ d + L \in Addr /\ End(memory, d, d + L) /\ Memory!ft_strlen(memory, d) = L
  BY <1>1, StringAt
<1>3. PICK m : m = Memory!ft_strclr(memory, d)
  OBVIOUS
<1>4. \A p \in Addr : m[p] = IF p \in d .. d + L - 1 THEN 0 ELSE memory[p]
  BY <1>2, <1>3 DEF Memory!ft_strclr, Memory!Write, Memory!NUL, Memory!Addr, Addr
<1>5. PICK x : x = [k \in 1 .. L + 1 |-> 0]
  OBVIOUS
<1>6. Len(x) = L + 1
  BY <1>2, <1>5
<1>7. memory[d + L] = 0
  BY <1>2 DEF End
<1>8. ASSUME NEW k \in 1 .. Len(x) PROVE m[d + k - 1] = x[k]
  <2>1. k \in 1 .. L + 1 /\ d + k - 1 \in Addr
    BY <1>1, <1>2, <1>6 DEF Addr
  <2>2. d + k - 1 \in d .. d + L - 1 \/ d + k - 1 = d + L
    BY <1>2, <2>1
  <2>3. m[d + k - 1] = 0
    BY <1>4, <1>7, <2>1, <2>2
  <2>. QED BY <1>5, <2>1, <2>3
<1>9. \A p \in Addr : p \in d .. d + L - 1 \/ m[p] = memory[p]
  BY <1>4
<1>10. Memory!Call(d, L, x, 0, m, 0)
  BY <1>2, <1>3, <1>5 DEF Memory!Strclr, Memory!NUL
<1>. QED BY <1>8, <1>9, <1>10, CallMade

LEMMA MemsetRight ==
  ASSUME memory \in [Addr -> Byte], NEW d \in Addr, NEW n \in 0 .. Size, NEW c, Memory!Memset(d, n, c)
  PROVE  Memory!BlocksAsInC'
<1>1. Size \in Nat /\ d \in Nat /\ n \in Nat /\ d + n <= Size
  BY SizeAssumption DEF Addr, Memory!Memset
<1>2. PICK m : m = Memory!ft_memset(memory, d, c, n)
  OBVIOUS
<1>3. \A p \in Addr : m[p] = IF p \in d .. d + n - 1 THEN c ELSE memory[p]
  BY <1>2 DEF Memory!ft_memset, Memory!Write, Memory!Addr, Addr
<1>4. PICK x : x = [k \in 1 .. n |-> c]
  OBVIOUS
<1>5. Len(x) = n
  BY <1>1, <1>4
<1>6. ASSUME NEW k \in 1 .. Len(x) PROVE m[d + k - 1] = x[k]
  <2>1. k \in 1 .. n /\ d + k - 1 \in Addr /\ d + k - 1 \in d .. d + n - 1
    BY <1>1, <1>5 DEF Addr
  <2>. QED BY <1>3, <1>4, <2>1
<1>7. \A p \in Addr : p \in d .. d + n - 1 \/ m[p] = memory[p]
  BY <1>3
<1>8. Memory!Call(d, n, x, d, m, d)
  BY <1>2, <1>4 DEF Memory!Memset
<1>. QED BY <1>6, <1>7, <1>8, CallMade

LEMMA StrnewRight ==
  ASSUME memory \in [Addr -> Byte], NEW d \in Addr, NEW n \in 0 .. Size, Memory!Strnew(d, n)
  PROVE  Memory!BlocksAsInC'
<1>1. Memory!Memset(d, n, Memory!NUL)
  BY DEF Memory!Strnew, Memory!Memset, Memory!ft_strnew
<1>. QED BY <1>1, MemsetRight

LEMMA MemccpyRight ==
  ASSUME memory \in [Addr -> Byte], NEW d \in Addr, NEW a \in Addr, NEW n \in 0 .. Size, NEW c,
         Memory!Memccpy(d, a, n, c)
  PROVE  Memory!BlocksAsInC'
<1>1. Size \in Nat /\ d \in Nat /\ a \in Nat /\ n \in Nat /\ d + n <= Size /\ a + n <= Size
  <2>1. a + n <= Size /\ Memory!Block(d, n, a, n)
    BY Zenon DEF Memory!Memccpy
  <2>. QED BY <2>1, SizeAssumption DEF Addr, Memory!Block
<1>2. PICK found : found = {k \in 1 .. n : memory[a + k - 1] = c}
  OBVIOUS
<1>3. PICK k : k = IF found = {} THEN n ELSE CHOOSE j \in found : \A l \in found : j <= l
  OBVIOUS
<1>4. found # {} => k \in found /\ \A l \in found : k <= l
  <2>1. found \subseteq Nat
    BY <1>1, <1>2
  <2>2. found # {} => \E j \in found : \A l \in found : j <= l
    BY <2>1, LeastOf
  <2>. QED BY <1>3, <2>2
<1>5. k \in 0 .. n
  BY <1>1, <1>2, <1>3, <1>4
<1>6. PICK e : e = IF found = {} THEN n ELSE k - 1
  OBVIOUS
<1>7. e \in Nat /\ (e = n \/ memory[a + e] = c) /\ (e = n <=> found = {})
  <2>1. CASE found = {}
    BY <1>1, <1>6, <2>1
  <2>2. CASE found # {}
    <3>1. k \in 1 .. n /\ memory[a + k - 1] = c
      BY <1>2, <1>4, <2>2
    <3>2. e = k - 1 /\ a + e = a + k - 1 /\ e \in Nat /\ e # n
      BY <1>1, <1>6, <2>2, <3>1
    <3>. QED BY <2>2, <3>1, <3>2
  <2>. QED BY <2>1, <2>2
<1>8. ASSUME NEW j \in 0 .. e - 1 PROVE j # n /\ memory[a + j] # c
  <2>1. e <= n /\ e \in Nat
    BY <1>1, <1>5, <1>6, <1>7
  <2>2. j + 1 \in 1 .. n /\ a + (j + 1) - 1 = a + j /\ j # n
    BY <1>1, <2>1
  <2>3. j + 1 \notin found
    BY <1>4, <1>5, <1>6, <2>1, <2>2
  <2>. QED BY <1>2, <2>2, <2>3
<1>9. PICK r : r = Memory!ft_memccpy(memory, d, a, c, n)
  OBVIOUS
<1>10. r = IF e = n THEN [mem |-> Memory!ft_memmove(memory, d, a, n), ret |-> -1]
           ELSE [mem |-> Memory!ft_memmove(memory, d, a, e + 1), ret |-> d + e + 1]
  <2>1. Sought(memory, a, n, c, e)
    BY <1>7, <1>8 DEF Sought
  <2>2. d \in Nat /\ a \in Nat /\ n \in Nat
    BY <1>1
  <2>. QED BY <1>9, <2>1, <2>2, MemccpyIs
<1>11. PICK m : m = r.mem
  OBVIOUS
<1>12. m = Memory!ft_memmove(memory, d, a, k) /\ r.ret = IF found = {} THEN -1 ELSE d + k
  <2>1. CASE found = {}
    BY <1>3, <1>7, <1>10, <1>11, <2>1
  <2>2. CASE found # {}
    <3>1. e + 1 = k /\ d + e + 1 = d + k
      BY <1>1, <1>5, <1>6, <2>2
    <3>. QED BY <1>7, <1>10, <1>11, <2>2, <3>1
  <2>. QED BY <2>1, <2>2
<1>13. \A p \in Addr : m[p] = IF p \in d .. d + k - 1 THEN memory[a + (p - d)] ELSE memory[p]
  BY <1>12 DEF Memory!ft_memmove, Memory!Write, Memory!Addr, Addr
<1>14. PICK x : x = [l \in 1 .. k |-> memory[a + l - 1]]
  OBVIOUS
<1>15. Len(x) = k
  BY <1>5, <1>14
<1>16. ASSUME NEW l \in 1 .. Len(x) PROVE m[d + l - 1] = x[l]
  <2>1. l \in 1 .. k /\ d + l - 1 \in Addr /\ d + l - 1 \in d .. d + k - 1 /\ a + ((d + l - 1) - d) = a + l - 1
    BY <1>1, <1>5, <1>15 DEF Addr
  <2>. QED BY <1>13, <1>14, <2>1
<1>17. \A p \in Addr : p \in d .. d + n - 1 \/ m[p] = memory[p]
  BY <1>1, <1>5, <1>13
<1>18. Memory!Call(d, n, x, IF found = {} THEN -1 ELSE d + k, m, r.ret)
  BY <1>2, <1>3, <1>9, <1>11, <1>14 DEF Memory!Memccpy
<1>. QED BY <1>12, <1>16, <1>17, <1>18, CallMade

LEMMA StrlcatRight ==
  ASSUME memory \in [Addr -> Byte], NEW d \in Addr, NEW a \in Addr, NEW n \in 0 .. Size, Memory!Strlcat(d, a, n)
  PROVE  Memory!BlocksAsInC'
<1>1. Memory!IsString(d) /\ Memory!StrBlock(d, n, a)
  BY Zenon DEF Memory!Strlcat
<1>2. Size \in Nat /\ n \in Nat /\ Memory!IsString(a) /\ d + n <= Size
  BY <1>1, SizeAssumption DEF Memory!StrBlock, Memory!Block
<1>3. PICK L \in Nat, s \in Seq(Text) :
           /\ d \in Nat /\ d + L \in Addr /\ End(memory, d, d + L) /\ Memory!ft_strlen(memory, d) = L
           /\ s = Memory!Str(memory, d) /\ Len(s) = L /\ \A k \in 1 .. L : s[k] = memory[d + k - 1]
  BY <1>1, StringAt
<1>4. PICK M \in Nat, t \in Seq(Text) :
           /\ a \in Nat /\ a + M \in Addr /\ End(memory, a, a + M) /\ Memory!ft_strlen(memory, a) = M
           /\ t = Memory!Str(memory, a) /\ Len(t) = M /\ \A k \in 1 .. M : t[k] = memory[a + k - 1]
  BY <1>2, StringAt
<1>5. PICK v : v = IF n > L THEN Memory!Prefix(s \o t, n - 1) ELSE s
  OBVIOUS
<1>6. PICK x : x = Memory!Terminated(v)
  OBVIOUS
<1>7. PICK r : r = Memory!ft_strlcat(memory, d, a, n)
  OBVIOUS
<1>8. PICK w : w = Memory!MIN(n, L) + M
  OBVIOUS
<1>9. Memory!Call(d, n, x, w, r.mem, r.ret)
  <2>1. Memory!Call(d, n, Memory!Terminated(IF n > Len(s) THEN Memory!Prefix(s \o t, n - 1) ELSE s),
                    Memory!MIN(n, Len(s)) + Len(t), r.mem, r.ret)
    BY <1>3, <1>4, <1>7, Zenon DEF Memory!Strlcat
  <2>. QED BY <1>3, <1>4, <1>5, <1>6, <1>8, <2>1
<1>10. CASE n < L
  <2>1. r = [mem |-> memory, ret |-> M + n] /\ w = M + n
    BY <1>2, <1>3, <1>4, <1>7, <1>8, <1>10 DEF Memory!ft_strlcat, Memory!MIN
  <2>2. Len(x) = L + 1 /\ (\A k \in 1 .. L : x[k] = s[k]) /\ x[L + 1] = 0
    <3>1. v = s
      BY <1>2, <1>3, <1>5, <1>10
    <3>. QED BY <1>3, <1>6, <3>1, TerminatedIs
  <2>3. memory[d + L] = 0
    BY <1>3 DEF End
  <2>4. ASSUME NEW k \in 1 .. Len(x) PROVE memory[d + k - 1] = x[k]
    <3>1. CASE k \in 1 .. L
      BY <1>3, <2>2, <3>1
    <3>2. CASE k = L + 1
      <4>1. d + k - 1 = d + L
        BY <1>3, <3>2
      <4>. QED BY <2>2, <2>3, <3>2, <4>1
    <3>. QED BY <2>2, <3>1, <3>2
  <2>5. r.mem = memory /\ r.ret = w
    BY <2>1
  <2>6. Memory!Call(d, n, x, w, memory, w)
    BY <1>9, <2>5, Zenon
  <2>. QED BY <2>4, <2>6, CallMade
<1>11. CASE n >= L
  <2>1. PICK q \in Nat : n = L + q + 1 \/ (n = L /\ q = 0)
    <3>1. n = L + 0 \/ n = L + (n - L - 1) + 1
      BY <1>2, <1>3
    <3>2. n = L \/ n - L - 1 \in Nat
      BY <1>2, <1>3, <1>11
    <3>3. CASE n = L
      BY <3>3
    <3>4. CASE n # L
      BY <1>3, <3>1, <3>2, <3>4
    <3>. QED BY <3>3, <3>4
  <2>2. PICK c \in Nat : c = IF q < M THEN q ELSE M
    BY <1>4
  <2>3. Cut(memory, a, q, c)
    <3>1. PICK e : e = a + M
      OBVIOUS
    <3>2. a \in Nat /\ e \in Nat /\ End(memory, a, e)
      BY <1>4, <3>1
    <3>3. Least(c, q, M)
      BY <2>2 DEF Least
    <3>. QED BY <3>1, <3>2, <3>3, CutAt, Zenon
  <2>4. PICK m : m = Memory!AppendTo(memory, d, a, c)
    OBVIOUS
  <2>5. r = [mem |-> m, ret |-> L + M]
    <3>1. a \in Nat /\ d \in Nat /\ Memory!ft_strlen(memory, d) = L
      BY <1>3, <1>4
    <3>2. Memory!ft_strlcat(memory, d, a, n)
            = [mem |-> Memory!AppendTo(memory, d, a, c), ret |-> L + Memory!ft_strlen(memory, a)]
      BY <1>2, <2>1, <2>3, <3>1, StrlcatIs
    <3>. QED BY <1>4, <1>7, <2>4, <3>2
  <2>6. w = L + M /\ r.mem = m /\ r.ret = L + M
    BY <1>2, <1>3, <1>8, <1>11, <2>5 DEF Memory!MIN
  <2>7. PICK u : u = Memory!Prefix(t, q)
    OBVIOUS
  <2>8. u \in Seq(Text) /\ Len(u) = c /\ \A k \in 1 .. c : u[k] = t[k]
    <3>1. t \in Seq(Text) /\ c = IF q < Len(t) THEN q ELSE Len(t)
      BY <1>4, <2>2
    <3>. QED BY <2>7, <3>1, PrefixIs
  <2>9. c \in 0 .. M /\ c <= q
    BY <1>4, <2>2
  <2>10. PICK y : y = Memory!Terminated(s \o u)
    OBVIOUS
  <2>11. Laid(m, memory, y, d, L, c)
    <3>1. PICK e \in Nat : e = d + L
      BY <1>3
    <3>2. Reads(s, memory, d, L) /\ Reads(u, memory, a, c) /\ End(memory, d, e)
      BY <1>3, <1>4, <2>8, <2>9, <3>1 DEF Reads
    <3>3. d \in Nat /\ a \in Nat
      BY <1>3, <1>4
    <3>4. PICK z \in Addr : z = e + c
      <4>1. d + L + c \in Addr
        BY <1>2, <1>3, <2>1, <2>9 DEF Addr
      <4>. QED BY <1>3, <3>1, <4>1
    <3>. QED BY <2>4, <2>10, <3>1, <3>2, <3>3, <3>4, Appended, Zenon
  <2>12. Len(y) = L + c + 1 /\ (\A k \in 1 .. L : y[k] = s[k]) /\ (\A k \in 1 .. c : y[L + k] = t[k]) /\ y[L + c + 1] = 0
    <3>1. PICK o : o = s \o u
      OBVIOUS
    <3>2. o \in Seq(Text) /\ Len(o) = L + c /\ (\A k \in 1 .. L : o[k] = s[k]) /\ \A k \in 1 .. c : o[L + k] = u[k]
      <4>1. s \in Seq(Text) /\ u \in Seq(Text) /\ Len(s) = L /\ Len(u) = c
        BY <1>3, <2>8
      <4>. QED BY <3>1, <4>1, TextsJoined
    <3>3. Len(y) = L + c + 1 /\ (\A k \in 1 .. L + c : y[k] = o[k]) /\ y[L + c + 1] = 0
      <4>1. Len(y) = Len(o) + 1 /\ (\A k \in 1 .. Len(o) : y[k] = o[k]) /\ y[Len(o) + 1] = 0
        BY <2>10, <3>1, <3>2, TerminatedIs
      <4>. QED BY <3>2, <4>1
    <3>. QED BY <2>8, <3>2, <3>3
  <2>13. v \in Seq(Text) /\ Len(v) = L + c /\ (\A k \in 1 .. L : v[k] = s[k]) /\ \A k \in 1 .. c : v[L + k] = t[k]
    <3>1. CASE n = L
      <4>1. v = s /\ c = 0
        BY <1>2, <1>3, <1>5, <2>1, <2>9, <3>1
      <4>. QED BY <1>3, <4>1
    <3>2. CASE n = L + q + 1
      <4>1. PICK o : o = s \o t
        OBVIOUS
      <4>2. o \in Seq(Text) /\ Len(o) = L + M /\ (\A k \in 1 .. L : o[k] = s[k]) /\ \A k \in 1 .. M : o[L + k] = t[k]
        <5>1. s \in Seq(Text) /\ t \in Seq(Text) /\ Len(s) = L /\ Len(t) = M
          BY <1>3, <1>4
        <5>. QED BY <4>1, <5>1, TextsJoined
      <4>3. n - 1 = L + q /\ n > L
        BY <1>3, <3>2
      <4>4. v = Memory!Prefix(o, L + q)
        BY <1>5, <4>1, <4>3
      <4>5. PICK h \in Nat : h = L + c
        BY <1>3
      <4>6. h = IF L + q < Len(o) THEN L + q ELSE Len(o)
        BY <1>3, <1>4, <2>2, <4>2, <4>5
      <4>7. v \in Seq(Text) /\ Len(v) = h /\ \A k \in 1 .. h : v[k] = o[k]
        BY <1>3, <4>2, <4>4, <4>6, PrefixIs
      <4>. QED BY <1>3, <2>9, <4>2, <4>5, <4>7
    <3>. QED BY <2>1, <3>1, <3>2
  <2>14. Len(x) = L + c + 1 /\ (\A k \in 1 .. L : x[k] = s[k]) /\ (\A k \in 1 .. c : x[L + k] = t[k]) /\ x[L + c + 1] = 0
    <3>1. Len(x) = Len(v) + 1 /\ (\A k \in 1 .. Len(v) : x[k] = v[k]) /\ x[Len(v) + 1] = 0
      BY <1>6, <2>13, TerminatedIs
    <3>. QED BY <2>13, <3>1
  <2>15. ASSUME NEW k \in 1 .. Len(x) PROVE m[d + k - 1] = x[k]
    <3>1. m[d + k - 1] = y[k] /\ k \in 1 .. L + c + 1
      BY <2>11, <2>12, <2>14 DEF Laid
    <3>2. CASE k \in 1 .. L
      BY <2>12, <2>14, <3>1, <3>2
    <3>3. CASE k \in L + 1 .. L + c
      <4>1. k - L \in 1 .. c /\ L + (k - L) = k
        BY <2>9, <3>3
      <4>2. x[L + (k - L)] = t[k - L] /\ y[L + (k - L)] = t[k - L]
        BY <2>12, <2>14, <4>1
      <4>. QED BY <3>1, <4>1, <4>2
    <3>4. CASE k = L + c + 1
      BY <2>12, <2>14, <3>1, <3>4
    <3>. QED BY <2>9, <3>1, <3>2, <3>3, <3>4
  <2>16. ASSUME NEW p \in Addr PROVE p \in d .. d + n - 1 \/ m[p] = memory[p]
    <3>1. p \in d + L .. d + L + c \/ m[p] = memory[p]
      BY <2>11 DEF Laid
    <3>2. CASE n = L + q + 1
      <4>1. p \in d + L .. d + L + c => p \in d .. d + n - 1
        BY <1>3, <2>9, <3>2 DEF Addr
      <4>. QED BY <3>1, <4>1
    <3>3. CASE n = L /\ p = d + L
      <4>1. memory[d + L] = 0 /\ c = 0
        BY <1>3, <2>1, <2>9, <3>3 DEF End
      <4>2. m[d + (L + 1) - 1] = x[L + 1] /\ x[L + 1] = 0 /\ d + (L + 1) - 1 = p
        BY <1>3, <2>14, <2>15, <3>3, <4>1
      <4>. QED BY <3>3, <4>1, <4>2
    <3>4. CASE n = L /\ p # d + L
      <4>1. c = 0
        BY <1>3, <2>1, <2>9, <3>4
      <4>. QED BY <1>3, <3>1, <3>4, <4>1 DEF Addr
    <3>. QED BY <2>1, <3>2, <3>3, <3>4
  <2>. QED BY <1>9, <2>6, <2>15, <2>16, CallMade
<1>. QED BY <1>2, <1>3, <1>10, <1>11

LEMMA StrjoinRight ==
  ASSUME memory \in [Addr -> Byte], NEW d \in Addr, NEW a \in Addr, NEW b \in Addr, Memory!Strjoin(d, a, b)
  PROVE  Memory!BlocksAsInC'
<1>1. Size \in Nat /\ Memory!IsString(a) /\ Memory!IsString(b)
  BY SizeAssumption, Zenon DEF Memory!Strjoin
<1>2. PICK L \in Nat, s \in Seq(Text) :
           /\ a \in Nat /\ a + L \in Addr /\ End(memory, a, a + L) /\ Memory!ft_strlen(memory, a) = L
           /\ s = Memory!Str(memory, a) /\ Len(s) = L /\ \A k \in 1 .. L : s[k] = memory[a + k - 1]
  BY <1>1, StringAt
<1>3. PICK M \in Nat, t \in Seq(Text) :
           /\ b \in Nat /\ b + M \in Addr /\ End(memory, b, b + M) /\ Memory!ft_strlen(memory, b) = M
           /\ t = Memory!Str(memory, b) /\ Len(t) = M /\ \A k \in 1 .. M : t[k] = memory[b + k - 1]
  BY <1>1, StringAt
<1>4. PICK x : x = Memory!Terminated(s \o t)
  OBVIOUS
<1>5. PICK N \in Nat : N = L + M + 1
  BY <1>2, <1>3
<1>6. Len(x) = N
  <2>1. s \in Seq(Text) /\ t \in Seq(Text) /\ Len(s) = L /\ Len(t) = M
    BY <1>2, <1>3
  <2>2. s \o t \in Seq(Text) /\ Len(s \o t) = L + M
    BY <2>1, TextsJoined
  <2>3. Len(x) = Len(s \o t) + 1
    BY <1>4, <2>2, TerminatedIs
  <2>. QED BY <1>5, <2>2, <2>3
<1>7. PICK g : g = Memory!ft_strcpy(memory, d, a)
  OBVIOUS
<1>8. PICK m : m = Memory!ft_strjoin(memory, d, a, b)
  OBVIOUS
<1>12. PICK y \in Nat : y = d + L
  BY <1>2, SizeAssumption DEF Addr
<1>9. /\ Memory!StrBlock(d, N, a) /\ Memory!StrBlock(d, N, b)
      /\ Memory!Made(d, N, x, d, m, Memory!AfterCopy(d, y), y, b)
  BY <1>2, <1>3, <1>4, <1>6, <1>8, <1>12, Zenon DEF Memory!Strjoin
<1>10. d \in Nat /\ d + N <= Size /\ (d + N <= a \/ a + L + 1 <= d) /\ (d + N <= b \/ b + M + 1 <= d)
  <2>1. Memory!Block(d, N, a, L + 1) /\ Memory!Block(d, N, b, M + 1)
    BY <1>2, <1>3, <1>9, Zenon DEF Memory!StrBlock
  <2>. QED BY <1>1, <1>2, <1>3, <2>1 DEF Memory!Block, Addr
<1>11. d <= y /\ y < d + N /\ y <= Size /\ y \in Addr
  BY <1>1, <1>2, <1>3, <1>5, <1>10, <1>12 DEF Addr
<1>13. PICK e \in Nat : Stops(memory, y, e)
  BY <1>11, StopFound
<1>14. y <= e /\ e <= Size /\ (e = Size \/ memory[e] = 0) /\ \A j \in y .. e - 1 : memory[j] # 0
  BY <1>13 DEF Stops
<1>15. \A j \in Addr : g[j] = IF j \in d .. e - 1 THEN IF j < y THEN memory[a + (j - d)] ELSE 0 ELSE memory[j]
  <2>1. Filled(g, memory, d, y, e, a)
    BY <1>2, <1>7, <1>10, <1>12, <1>13, StrcpyIs, Zenon
  <2>. QED BY <2>1 DEF Filled
(* The copy is the string s, and its end is where it should be.            *)
<1>16. ASSUME NEW j \in d .. y - 1 PROVE g[j] = memory[a + (j - d)] /\ g[j] # 0
  <2>1. j \in Addr /\ j \in d .. e - 1 /\ j < y
    BY <1>1, <1>10, <1>11, <1>14 DEF Addr
  <2>2. a + (j - d) \in a .. a + L - 1
    BY <1>2, <1>10, <1>12
  <2>3. memory[a + (j - d)] # 0
    BY <1>2, <2>2 DEF End
  <2>. QED BY <1>15, <2>1, <2>3
<1>17. g[y] = 0
  <2>1. (y = e /\ e # Size) \/ (y \in d .. e - 1 /\ ~(y < y))
    BY <1>10, <1>11, <1>14 DEF Addr
  <2>2. CASE y = e /\ e # Size
    BY <1>11, <1>14, <1>15, <2>2
  <2>3. CASE y \in d .. e - 1 /\ ~(y < y)
    BY <1>11, <1>15, <2>3
  <2>. QED BY <2>1, <2>2, <2>3
<1>18. End(g, d, y)
  BY <1>10, <1>11, <1>16, <1>17 DEF End
(* From y on the copy has changed nothing but to zero.                     *)
<1>19. ASSUME NEW j \in Addr, j \notin d .. y - 1 PROVE g[j] = IF j \in y .. e - 1 THEN 0 ELSE memory[j]
  <2>1. j \in d .. e - 1 => j \in y .. e - 1 /\ ~(j < y)
    BY <1>10, <1>11, <1>19 DEF Addr
  <2>2. j \in y .. e - 1 => j \in d .. e - 1
    BY <1>10, <1>11
  <2>. QED BY <1>15, <2>1, <2>2
<1>20. m = IF e = Size THEN g ELSE Memory!ft_strcat(g, d, b)
  <2>1. Memory!ClearedTo(memory, d + Memory!ft_strlen(memory, a)) = e
    BY <1>2, <1>12, <1>13, ClearedIs
  <2>. QED BY <1>7, <1>8, <2>1, Zenon DEF Memory!ft_strjoin
<1>21. PICK q : q = IF e = Size THEN Memory!Fault ELSE d
  OBVIOUS
<1>22. Memory!Made(d, N, x, d, m, q, y, b)
  <2>1. Memory!ClearedTo(memory, y) = e
    BY <1>13, ClearedIs
  <2>2. Memory!AfterCopy(d, y) = q
    BY <1>21, <2>1 DEF Memory!AfterCopy
  <2>. QED BY <1>9, <2>2
<1>23. PICK off \in BOOLEAN : off <=> e = Size \/ (b \in Addr /\ b >= d + N /\ b < e)
  OBVIOUS
<1>24. ASSUME \A k \in 1 .. Len(x) : m[d + k - 1] = IF off /\ d + k - 1 >= y THEN 0 ELSE x[k],
              \A j \in Addr : j \in d .. d + N - 1 \/ m[j] = IF j \in y .. e - 1 THEN 0 ELSE memory[j]
       PROVE  Memory!BlocksAsInC'
  <2>1. Clears(m, x, d, N, y, e, b, off)
    BY <1>23, <1>24, Zenon DEF Clears
  <2>2. /\ d \in Nat /\ N \in Nat /\ y \in Nat /\ b \in Nat
        /\ d + N <= Size /\ d <= y /\ y < d + N
    BY <1>3, <1>5, <1>10, <1>11
  <2>. QED BY <1>13, <1>21, <1>22, <2>1, <2>2, ClearingCall
(* What the first string leaves in the block.                              *)
<1>25. ASSUME NEW k \in 1 .. L PROVE x[k] = g[d + k - 1] /\ d + k - 1 \in d .. y - 1
  <2>1. d + k - 1 \in d .. y - 1 /\ a + ((d + k - 1) - d) = a + k - 1
    BY <1>2, <1>10, <1>12
  <2>2. g[d + k - 1] = memory[a + k - 1]
    BY <1>16, <2>1
  <2>3. x[k] = s[k]
    <3>1. s \in Seq(Text) /\ t \in Seq(Text) /\ Len(s) = L /\ Len(t) = M
      BY <1>2, <1>3
    <3>2. PICK o : o = s \o t
      OBVIOUS
    <3>3. o \in Seq(Text) /\ Len(o) = L + M /\ o[k] = s[k]
      BY <3>1, <3>2, TextsJoined
    <3>4. k \in 1 .. Len(o)
      BY <1>2, <1>3, <3>3
    <3>5. x[k] = o[k]
      BY <1>4, <3>2, <3>3, <3>4, TerminatedIs
    <3>. QED BY <3>3, <3>5
  <2>. QED BY <1>2, <2>1, <2>2, <2>3
<1>26. ASSUME e = Size \/ e >= d + N, NEW j \in Addr, j \in y .. d + N - 1 PROVE g[j] = 0
  <2>1. j \in y .. e - 1 /\ j \notin d .. y - 1
    BY <1>1, <1>5, <1>10, <1>26 DEF Addr
  <2>. QED BY <1>19, <2>1
<1>27. ASSUME e = Size \/ e >= d + N, off,
              \A j \in Addr : m[j] = g[j]
       PROVE  Memory!BlocksAsInC'
  <2>1. ASSUME NEW k \in 1 .. Len(x) PROVE m[d + k - 1] = IF off /\ d + k - 1 >= y THEN 0 ELSE x[k]
    <3>1. d + k - 1 \in Addr /\ d + k - 1 \in d .. d + N - 1
      BY <1>1, <1>5, <1>6, <1>10 DEF Addr
    <3>2. CASE k \in 1 .. L
      BY <1>10, <1>11, <1>25, <1>27, <3>1, <3>2
    <3>3. CASE k \notin 1 .. L
      <4>1. d + k - 1 \in y .. d + N - 1
        BY <1>2, <1>6, <1>10, <1>12, <3>1, <3>3
      <4>2. g[d + k - 1] = 0 /\ d + k - 1 >= y
        BY <1>26, <1>27, <3>1, <4>1
      <4>. QED BY <1>27, <3>1, <4>2
    <3>. QED BY <3>2, <3>3
  <2>2. ASSUME NEW j \in Addr PROVE j \in d .. d + N - 1 \/ m[j] = IF j \in y .. e - 1 THEN 0 ELSE memory[j]
    <3>1. j \in d .. y - 1 => j \in d .. d + N - 1
      BY <1>10, <1>11 DEF Addr
    <3>. QED BY <1>19, <1>27, <3>1
  <2>. QED BY <1>24, <2>1, <2>2
<1>28. CASE e = Size
  BY <1>20, <1>23, <1>27, <1>28
(* The second string has been cleared, and is empty.                       *)
<1>29. CASE e # Size /\ b >= d + N /\ b < e
  <2>1. b \in Addr /\ b \in y .. e - 1 /\ b \notin d .. y - 1
    BY <1>1, <1>3, <1>10, <1>11, <1>29 DEF Addr
  <2>2. g[b] = 0
    BY <1>19, <2>1
  <2>3. End(g, b, b)
    BY <1>3, <2>2 DEF End
  <2>4. Memory!ft_strlen(g, b) = 0
    <3>1. Memory!ft_strlen(g, b) = b - b
      BY <1>3, <2>3, StrlenIs
    <3>. QED BY <1>3, <3>1
  <2>5. m = Memory!AppendTo(g, d, b, 0)
    BY <1>20, <1>29, <2>4 DEF Memory!ft_strcat
  <2>6. Filled(m, g, y, y + 0, y + 0 + 1, b)
    BY <1>10, <1>18, <2>5, AppendToIs
  <2>7. \A j \in Addr : m[j] = g[j]
    <3>1. \A j \in Addr : m[j] = IF j = y THEN 0 ELSE g[j]
      BY <1>11, <2>6 DEF Filled, Addr
    <3>. QED BY <1>17, <3>1
  <2>8. off /\ e >= d + N
    BY <1>3, <1>10, <1>23, <1>29, <2>1
  <2>. QED BY <1>27, <2>7, <2>8
(* The second string is still what it was.                                 *)
<1>30. CASE e # Size /\ ~(b >= d + N /\ b < e)
  <2>0. ~off
    BY <1>23, <1>30
  <2>1. ASSUME NEW j \in b .. b + M PROVE g[j] = memory[j]
    <3>1. j \in Addr /\ j \notin d .. y - 1 /\ j \notin y .. e - 1
      BY <1>1, <1>3, <1>5, <1>10, <1>11, <1>30 DEF Addr
    <3>. QED BY <1>19, <3>1
  <2>2. PICK f \in Nat : f = b + M
    BY <1>3
  <2>3. End(g, b, f)
    BY <1>3, <2>1, <2>2 DEF End
  <2>4. Memory!ft_strlen(g, b) = M
    <3>1. Memory!ft_strlen(g, b) = f - b
      BY <1>3, <2>3, StrlenIs
    <3>. QED BY <1>3, <2>2, <3>1
  <2>5. m = Memory!AppendTo(g, d, b, M)
    BY <1>20, <1>30, <2>4 DEF Memory!ft_strcat
  <2>6. Reads(s, g, d, L)
    <3>1. ASSUME NEW k \in 1 .. L PROVE s[k] = g[d + k - 1]
      <4>1. d + k - 1 \in d .. y - 1 /\ a + ((d + k - 1) - d) = a + k - 1
        BY <1>2, <1>10, <1>12
      <4>2. g[d + k - 1] = memory[a + k - 1]
        BY <1>16, <4>1
      <4>. QED BY <1>2, <4>2
    <3>. QED BY <1>2, <3>1 DEF Reads
  <2>7. Reads(t, g, b, M)
    <3>1. ASSUME NEW k \in 1 .. M PROVE t[k] = g[b + k - 1]
      <4>1. b + k - 1 \in b .. b + M
        BY <1>3
      <4>. QED BY <1>3, <2>1, <4>1
    <3>. QED BY <1>3, <3>1 DEF Reads
  <2>8. Laid(m, g, x, d, L, M)
    <3>1. PICK z \in Addr : z = y + M
      <4>1. y + M \in Addr
        BY <1>1, <1>2, <1>3, <1>5, <1>10, <1>12 DEF Addr
      <4>. QED BY <4>1
    <3>2. b \in Nat /\ L \in Nat /\ M \in Nat /\ y = d + L
      BY <1>2, <1>3, <1>12
    <3>. QED BY <1>4, <1>10, <1>18, <2>5, <2>6, <2>7, <3>1, <3>2, Appended, Zenon
  <2>9. \A k \in 1 .. Len(x) : m[d + k - 1] = IF off /\ d + k - 1 >= y THEN 0 ELSE x[k]
    BY <2>0, <2>8 DEF Laid
  <2>10. ASSUME NEW j \in Addr PROVE j \in d .. d + N - 1 \/ m[j] = IF j \in y .. e - 1 THEN 0 ELSE memory[j]
    <3>1. j \in d + L .. d + L + M \/ m[j] = g[j]
      BY <2>8 DEF Laid
    <3>2. j \in d + L .. d + L + M \/ j \in d .. y - 1 => j \in d .. d + N - 1
      BY <1>2, <1>3, <1>5, <1>10, <1>12 DEF Addr
    <3>. QED BY <1>19, <3>1, <3>2
  <2>. QED BY <1>24, <2>9, <2>10
<1>. QED BY <1>28, <1>29, <1>30

-----------------------------------------------------------------------------
(* Before the call the memory is any memory; after it, the call is right.  *)
MemoryInv ==
  part = "memory" => (call = << >> => memory \in [Addr -> Byte]) /\ Memory!BlocksAsInC

LEMMA MemoryStep ==
  ASSUME call = << >>, memory \in [Addr -> Byte], Memory!Next
  PROVE  Memory!BlocksAsInC' /\ call' # << >>
<1>1. PICK d \in Addr, a \in Addr :
        \/ Memory!Strcat(d, a)
        \/ Memory!Strclr(d)
        \/ \E b \in Addr : Memory!Strjoin(d, a, b)
        \/ \E n \in 0 .. Size :
             \/ Memory!Strcpy(d, a, n) \/ Memory!Strncpy(d, a, n)
             \/ Memory!Strncat(d, a, n) \/ Memory!Strlcat(d, a, n)
             \/ Memory!Strnew(d, n)
             \/ \E c \in Byte : Memory!Memccpy(d, a, n, c) \/ Memory!Memset(d, n, c)
  BY DEF Memory!Next, Memory!Addr, Addr
<1>2. Memory!BlocksAsInC'
  BY <1>1, StrcatRight, StrclrRight, StrjoinRight, StrcpyRight, StrncpyRight, StrncatRight, StrlcatRight,
     StrnewRight, MemccpyRight, MemsetRight, Zenon
<1>3. \E p, n, x, w, m, r, c, z : Memory!Made(p, n, x, w, m, r, c, z)
  BY <1>1, Zenon DEF Memory!Strcat, Memory!Strclr, Memory!Strjoin, Memory!Strcpy, Memory!Strncpy,
     Memory!Strncat, Memory!Strlcat, Memory!Strnew, Memory!Memccpy, Memory!Memset, Memory!Call
<1>4. call' # << >>
  <2>1. PICK p, n, x, w, m, r, c, z :
          call' = [dst |-> p, n |-> n, expected |-> x, wanted |-> w, ret |-> r, before |-> memory,
                   cleared |-> c, second |-> z]
    BY <1>3 DEF Memory!Made
  <2>2. DOMAIN call' # DOMAIN << >>
    <3>1. "dst" \in DOMAIN call'
      BY <2>1
    <3>2. DOMAIN << >> = {}
      OBVIOUS
    <3>. QED BY <3>1, <3>2
  <2>. QED BY <2>2
<1>. QED BY <1>2, <1>4

(* Copying, appending, filling and clearing leave what C wants and touch   *)
(* nothing else, in a memory of any size and whatever it holds, but for    *)
(* what ft_strcpy clears, alone or in ft_strjoin: all up to the next NUL,  *)
(* behind the block too when the block has none left (ft_strcpy.c, the     *)
(* loop of lines 22 and 23).                                               *)
THEOREM BlocksWritten == LibftSpec => []WritesAsInC
<1>1. LibftInit => MemoryInv
  <2>1. LibftInit /\ part = "memory" => Memory!Init
    BY DEF LibftInit
  <2>2. Memory!Init => memory \in [Addr -> Byte] /\ call = << >>
    BY DEF Memory!Init, Memory!None, Memory!Addr, Addr
  <2>3. call = << >> => Memory!BlocksAsInC
    BY DEF Memory!BlocksAsInC, Memory!WritesWhatItShould, Memory!StaysInBlock, Memory!None
  <2>. QED BY <2>1, <2>2, <2>3 DEF MemoryInv
<1>2. MemoryInv /\ [LibftNext]_allvars => MemoryInv'
  <2> SUFFICES ASSUME MemoryInv, [LibftNext]_allvars, part' = "memory"
               PROVE  (call' = << >> => memory' \in [Addr -> Byte]) /\ Memory!BlocksAsInC'
    BY DEF MemoryInv
  <2>1. CASE part = "memory" /\ Memory!Next
    <3>1. call = << >>
      BY <2>1, Zenon DEF Memory!Next, Memory!None
    <3>2. memory \in [Addr -> Byte]
      BY <2>1, <3>1 DEF MemoryInv
    <3>. QED BY <2>1, <3>1, <3>2, MemoryStep
  <2>2. CASE part = "memory" /\ UNCHANGED <<memory, call>>
    <3>1. Memory!BlocksAsInC
      BY <2>2 DEF MemoryInv
    <3>2. Memory!BlocksAsInC'
      BY <2>2, <3>1 DEF Memory!BlocksAsInC, Memory!WritesWhatItShould, Memory!StaysInBlock,
                        Memory!SecondLost, Memory!Faulted, Memory!Overrun
    <3>. QED BY <2>2, <3>2 DEF MemoryInv
  <2>. QED BY <2>1, <2>2, Zenon DEF LibftNext, Only, allvars
<1>3. MemoryInv /\ CopiedAtOnce => WritesAsInC
  BY Zenon DEF MemoryInv, WritesAsInC
<1>. QED BY <1>1, <1>2, <1>3, LibftCopies, PTL DEF LibftSpec
=============================================================================
