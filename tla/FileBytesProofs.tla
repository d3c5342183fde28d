-------------------------- MODULE FileBytesProofs ----------------------------
(***************************************************************************)
(* The structures of Mach-O are read back as they were written: a word is  *)
(* a function from the places of its bytes to numbers, and every swap is   *)
(* the reversal of its places; fields lie apart, so a field is loaded as   *)
(* it was stored; hence every reader gives back every field.  What is      *)
(* dumped of a section, in the second part, gives the section back; what   *)
(* is taken from the header of an archive member, in the third, is what    *)
(* the header states.                                                      *)
(***************************************************************************)
EXTENDS FileBytes, SequenceTheorems, WellFoundedInduction, TLAPS

LEMMA Constants == NameLen \in Nat /\ NameLen > 0
BY FileBytesAssumption

(* n bytes, the first the least significant.                               *)
Word(n) == [1 .. n -> Nat]

LEMMA WordSeq ==
  ASSUME NEW n \in Nat, NEW x \in Word(n)
  PROVE  x \in Seq(Nat) /\ Len(x) = n /\ DOMAIN x = 1 .. n /\ \A k \in 1 .. n : x[k] \in Nat
BY DEF Word

(* The bytes of a word from the last to the first, and back.               *)
LEMMA ReverseTwice ==
  ASSUME NEW n \in Nat, NEW x \in Word(n)
  PROVE  /\ Structures!Reverse(x) \in Word(n)
         /\ Structures!Reverse(Structures!Reverse(x)) = x
<1>1. /\ Structures!Reverse(x) = [k \in 1 .. n |-> x[n + 1 - k]]
      /\ Structures!Reverse(x) \in Word(n)
  BY WordSeq DEF Structures!Reverse, Word
<1> DEFINE y == Structures!Reverse(x)
<1>2. y = [k \in 1 .. n |-> x[n + 1 - k]] /\ y \in Word(n)
  BY <1>1
<1> HIDE DEF y
<1>3. Structures!Reverse(y) = [k \in 1 .. n |-> y[n + 1 - k]]
  BY <1>2, WordSeq DEF Structures!Reverse, Word
<1>4. \A k \in 1 .. n : y[n + 1 - k] = x[k]
  BY <1>2
<1>5. Structures!Reverse(y) = x
  BY <1>3, <1>4 DEF Word
<1> QED
  BY <1>1, <1>5 DEF y

(* Shifts of four bytes.                                                   *)
LEMMA SwapReverses ==
  ASSUME NEW x \in Word(4)
  PROVE  Structures!s(x, TRUE) = Structures!Reverse(x)
<1>1. DOMAIN x = 1 .. 4 /\ Len(x) = 4
  BY WordSeq
<1>2. Structures!Reverse(x) = [k \in 1 .. 4 |-> x[5 - k]]
  BY <1>1 DEF Structures!Reverse
<1>3. DOMAIN Structures!s(x, TRUE) = 1 .. 4 /\ Structures!s(x, TRUE) = [k \in 1 .. 4 |-> Structures!s(x, TRUE)[k]]
  BY <1>1 DEF Structures!s, Structures!Or, Structures!And, Structures!Shl, Structures!Shr
<1>4. \A k \in 1 .. 4 : Structures!s(x, TRUE)[k] = x[5 - k]
  BY <1>1 DEF Structures!s, Structures!Or, Structures!And, Structures!Shl, Structures!Shr
<1> QED
  BY <1>2, <1>3, <1>4

(* The three lines of sl, which shift by four bytes, by two and by one.    *)
LEMMA ExchangeMoves ==
  ASSUME NEW x \in Word(8), NEW S \in SUBSET (1 .. 8), NEW k \in {1, 2, 4},
         \A m \in 1 .. 8 : m \in S => m + k \in 1 .. 8 /\ m + k \notin S,
         \A m \in 1 .. 8 : m \notin S => m - k \in S
  PROVE  /\ Structures!Exchange(x, S, k) \in Word(8)
         /\ \A m \in 1 .. 8 : Structures!Exchange(x, S, k)[m] =
                                IF m \in S THEN x[m + k] ELSE x[m - k]
<1>1. DOMAIN x = 1 .. 8 /\ \A m \in 1 .. 8 : x[m] \in Nat
  BY WordSeq
<1>2. \A m \in 1 .. 8 :
         /\ Structures!Shl(Structures!And(x, S), k)[m] = IF m \in S THEN 0 ELSE x[m - k]
         /\ Structures!Shr(Structures!And(x, 1 .. 8 \ S), k)[m] = IF m \in S THEN x[m + k] ELSE 0
  BY <1>1 DEF Structures!Shl, Structures!Shr, Structures!And
<1>3. /\ DOMAIN Structures!Exchange(x, S, k) = 1 .. 8
      /\ Structures!Exchange(x, S, k) = [m \in 1 .. 8 |-> Structures!Exchange(x, S, k)[m]]
  BY <1>1 DEF Structures!Exchange, Structures!Or, Structures!Shl, Structures!And
<1>4. \A m \in 1 .. 8 : Structures!Exchange(x, S, k)[m] =
                         IF m \in S THEN x[m + k] ELSE x[m - k]
  BY <1>1, <1>2, <1>3 DEF Structures!Exchange, Structures!Or
<1> QED
  BY <1>1, <1>3, <1>4 DEF Word

LEMMA SwapLongReverses ==
  ASSUME NEW x \in Word(8)
  PROVE  Structures!sl(x, TRUE) = Structures!Reverse(x)
<1> DEFINE a == Structures!Exchange(x, 1 .. 4, 4)
           b == Structures!Exchange(a, {1, 2, 5, 6}, 2)
           c == Structures!Exchange(b, {1, 3, 5, 7}, 1)
<1>1. a \in Word(8) /\ \A m \in 1 .. 8 : a[m] = IF m \in 1 .. 4 THEN x[m + 4] ELSE x[m - 4]
  BY ExchangeMoves
<1>2. Structures!sl(x, TRUE) = c
  BY DEF Structures!sl
<1> HIDE DEF a
<1>3. b \in Word(8) /\ \A m \in 1 .. 8 : b[m] = IF m \in {1, 2, 5, 6} THEN a[m + 2] ELSE a[m - 2]
  BY <1>1, ExchangeMoves
<1> HIDE DEF b
<1>4. c \in Word(8) /\ \A m \in 1 .. 8 : c[m] = IF m \in {1, 3, 5, 7} THEN b[m + 1] ELSE b[m - 1]
  BY <1>3, ExchangeMoves
<1> HIDE DEF c
<1>5. \A m \in 1 .. 8 : c[m] = x[9 - m]
  BY <1>1, <1>3, <1>4
<1>6. Structures!Reverse(x) = [m \in 1 .. 8 |-> x[9 - m]]
  <2>1. DOMAIN x = 1 .. 8 /\ Len(x) = 8
    BY WordSeq
  <2> QED
    BY <2>1 DEF Structures!Reverse
<1>7. c = [m \in 1 .. 8 |-> c[m]]
  BY <1>4 DEF Word
<1> QED
  BY <1>2, <1>5, <1>6, <1>7
-----------------------------------------------------------------------------
(* The fields of a structure lie apart, in the part of the file the image  *)
(* shows.                                                                  *)
LaidOut(layout) ==
  /\ \A f \in DOMAIN layout : /\ layout[f][1] \in Nat /\ layout[f][2] \in Nat \ {0}
                              /\ layout[f][1] + layout[f][2] <= 2 * NameLen + 64
  /\ \A f, g \in DOMAIN layout :
       f # g => \/ layout[f][1] + layout[f][2] <= layout[g][1]
                \/ layout[g][1] + layout[g][2] <= layout[f][1]

AllKinds == {"mach_header", "load_command", "symtab", "nlist", "segment", "section",
             "fat_header", "fat_arch"}

LEMMA LayoutsApart ==
  ASSUME NEW kind \in AllKinds, NEW wide \in BOOLEAN
  PROVE  LaidOut(Structures!Layout(kind, wide))
<1>1. CASE kind = "mach_header"
  BY <1>1, Constants DEF Structures!Layout, LaidOut, Structures!mach_header
<1>2. CASE kind = "load_command"
  BY <1>2, Constants DEF Structures!Layout, LaidOut, Structures!load_command
<1>3. CASE kind = "symtab"
  BY <1>3, Constants DEF Structures!Layout, LaidOut, Structures!symtab_command
<1>4. CASE kind = "nlist"
  BY <1>4, Constants DEF Structures!Layout, LaidOut, Structures!nlist
<1>5. CASE kind = "segment"
  BY <1>5, Constants DEF Structures!Layout, LaidOut, Structures!segment
<1>6. CASE kind = "section"
  BY <1>6, Constants DEF Structures!Layout, LaidOut, Structures!section
<1>7. CASE kind = "fat_header"
  BY <1>7, Constants DEF Structures!Layout, LaidOut, Structures!fat_header
<1>8. CASE kind = "fat_arch"
  BY <1>8, Constants DEF Structures!Layout, LaidOut, Structures!fat_arch
<1> QED
  BY <1>1, <1>2, <1>3, <1>4, <1>5, <1>6, <1>7, <1>8 DEF AllKinds

(* What the machine loads at a field is what was stored there.             *)
LEMMA LoadedAsStored ==
  ASSUME NEW layout, LaidOut(layout), NEW rec, NEW big \in BOOLEAN, NEW f \in DOMAIN layout,
         rec[f] \in Word(layout[f][2])
  PROVE  Structures!At(Structures!Image(layout, rec, big), layout, f)
           = Structures!Stored(f, rec[f], big)
<1> DEFINE n         == layout[f][2]
           stored    == Structures!Stored(f, rec[f], big)
           Covers(g, i1) == i1 \in layout[g][1] .. layout[g][1] + layout[g][2] - 1
           image     == Structures!Image(layout, rec, big)
<1>1. n \in Nat /\ layout[f][1] \in Nat /\ layout[f][1] + n <= 2 * NameLen + 64
  BY DEF LaidOut
<1>2. stored \in Word(n)
  BY <1>1, ReverseTwice DEF Structures!Stored
<1>3. ASSUME NEW k \in 1 .. n
      PROVE  image[layout[f][1] + k - 1] = stored[k]
  <2> DEFINE i1 == layout[f][1] + k - 1
  <2>1. i1 \in 0 .. 2 * NameLen + 64 /\ Covers(f, i1)
    BY <1>1, Constants
  <2>2. \A g \in DOMAIN layout : Covers(g, i1) => g = f
    BY <1>1, <2>1 DEF LaidOut
  <2>3. (CHOOSE g \in DOMAIN layout : Covers(g, i1)) = f
    BY <2>1, <2>2
  <2>4. image[i1] = Structures!Stored(f, rec[f], big)[i1 - layout[f][1] + 1]
    BY <2>1, <2>3 DEF Structures!Image
  <2>5. i1 - layout[f][1] + 1 = k
    BY <1>1
  <2> QED
    BY <2>4, <2>5
<1> HIDE DEF image
<1>4. Structures!At(image, layout, f) = [k \in 1 .. n |-> stored[k]]
  BY <1>3 DEF Structures!At
<1> HIDE DEF stored
<1>5. stored = [k \in 1 .. n |-> stored[k]]
  BY <1>2 DEF Word
<1> QED
  BY <1>4, <1>5 DEF image, stored
-----------------------------------------------------------------------------
(* A record with bytes in every field of a layout.                         *)
Holds(rec, layout) ==
  DOMAIN rec = DOMAIN layout /\ \A f \in DOMAIN layout : rec[f] \in Word(layout[f][2])

LEMMA ExtendSame ==
  ASSUME NEW n \in Nat, NEW x \in Word(n)
  PROVE  Structures!Extend(x, Len(x)) = x
<1>1. Len(x) = n /\ DOMAIN x = 1 .. n
  BY WordSeq
<1> QED
  BY <1>1 DEF Structures!Extend, Word

LEMMA ExtendLen ==
  ASSUME NEW m \in Nat, NEW n \in Nat, NEW x \in Word(m)
  PROVE  Structures!Extend(x, n) \in Word(n) /\ Len(Structures!Extend(x, n)) = n
<1>1. DOMAIN x = 1 .. m /\ \A k \in 1 .. m : x[k] \in Nat
  BY WordSeq
<1>2. Structures!Extend(x, n) \in Word(n)
  BY <1>1 DEF Structures!Extend, Word
<1> QED
  BY <1>2, WordSeq

(* Fields of four bytes, of eight, and of bytes.                           *)
LEMMA FieldRead ==
  ASSUME NEW layout, LaidOut(layout), NEW rec, Holds(rec, layout), NEW big \in BOOLEAN,
         NEW g \in DOMAIN layout,
         NEW loaded, loaded = Structures!At(Structures!Image(layout, rec, big), layout, g)
  PROVE  /\ g \notin Structures!Names /\ layout[g][2] = 4 => Structures!s(loaded, big) = rec[g]
         /\ g \notin Structures!Names /\ layout[g][2] = 8 => Structures!sl(loaded, big) = rec[g]
         /\ g \in Structures!Names \/ layout[g][2] = 1 => loaded = rec[g]
<1>1. loaded = Structures!Stored(g, rec[g], big) /\ rec[g] \in Word(layout[g][2]) /\ layout[g][2] \in Nat
  BY LoadedAsStored DEF Holds, LaidOut
<1>2. ASSUME g \notin Structures!Names, layout[g][2] = 4 PROVE Structures!s(loaded, big) = rec[g]
  <2>1. CASE big
    BY <1>1, <1>2, <2>1, SwapReverses, ReverseTwice DEF Structures!Stored
  <2>2. CASE ~big
    BY <1>1, <2>2 DEF Structures!Stored, Structures!s
  <2> QED
    BY <2>1, <2>2
<1>3. ASSUME g \notin Structures!Names, layout[g][2] = 8 PROVE Structures!sl(loaded, big) = rec[g]
  <2>1. CASE big
    BY <1>1, <1>3, <2>1, SwapLongReverses, ReverseTwice DEF Structures!Stored
  <2>2. CASE ~big
    BY <1>1, <2>2 DEF Structures!Stored, Structures!sl
  <2> QED
    BY <2>1, <2>2
<1>4. ASSUME g \in Structures!Names \/ layout[g][2] = 1 PROVE loaded = rec[g]
  <2>1. CASE g \in Structures!Names \/ ~big
    BY <1>1, <2>1 DEF Structures!Stored
  <2>2. CASE layout[g][2] = 1
    <3>1. DOMAIN rec[g] = 1 .. 1 /\ Len(rec[g]) = 1
      BY <1>1, <2>2, WordSeq
    <3>2. Structures!Reverse(rec[g]) = rec[g]
      BY <1>1, <2>2, <3>1 DEF Structures!Reverse, Word
    <3> QED
      BY <1>1, <3>2 DEF Structures!Stored
  <2> QED
    BY <1>4, <2>1, <2>2
<1> QED
  BY <1>2, <1>3, <1>4

(* What a reader gives for a field: what was written, extended to eight    *)
(* bytes if it is an address; n_desc is not swapped.                       *)
Reads(fields, rec) ==
  \A f \in DOMAIN fields \cap DOMAIN rec :
    f # "n_desc" => fields[f] = rec[f] \/ fields[f] = Structures!Extend(rec[f], 8)

LEMMA WordsRead ==
  ASSUME NEW layout, LaidOut(layout), NEW rec, Holds(rec, layout), NEW big \in BOOLEAN,
         NEW fields \in SUBSET (DOMAIN layout \ Structures!Names),
         \A f \in fields : layout[f][2] = 4,
         NEW words, words = Structures!Words(Structures!Image(layout, rec, big), layout, fields, big)
  PROVE  words = [f \in fields |-> rec[f]] /\ Reads(words, rec)
<1>1. words = [f \in fields |->
                 Structures!s(Structures!At(Structures!Image(layout, rec, big), layout, f), big)]
  BY DEF Structures!Words
<1>2. ASSUME NEW f \in fields
      PROVE  Structures!s(Structures!At(Structures!Image(layout, rec, big), layout, f), big) = rec[f]
  <2> DEFINE x == Structures!At(Structures!Image(layout, rec, big), layout, f)
  <2>1. f \in DOMAIN layout /\ f \notin Structures!Names /\ layout[f][2] = 4
    OBVIOUS
  <2>2. PICK y : y = x
    OBVIOUS
  <2>3. f \notin Structures!Names /\ layout[f][2] = 4 => Structures!s(y, big) = rec[f]
    BY <2>1, <2>2, FieldRead
  <2> QED
    BY <2>1, <2>2, <2>3
<1>3. words = [f \in fields |-> rec[f]]
  BY <1>1, <1>2, Zenon
<1> QED
  BY <1>3 DEF Reads

LEMMA LongsRead ==
  ASSUME NEW layout, LaidOut(layout), NEW rec, Holds(rec, layout), NEW big \in BOOLEAN, NEW wide \in BOOLEAN,
         NEW fields \in SUBSET (DOMAIN layout \ Structures!Names),
         \A f \in fields : layout[f][2] = IF wide THEN 8 ELSE 4,
         NEW longs,
         longs = Structures!Longs(Structures!Image(layout, rec, big), layout, fields, big, wide)
  PROVE  /\ longs = [f \in fields |-> IF wide THEN rec[f] ELSE Structures!Extend(rec[f], 8)]
         /\ Reads(longs, rec)
<1> DEFINE Loaded(f) == Structures!At(Structures!Image(layout, rec, big), layout, f)
<1>1. longs = [f \in fields |-> IF wide THEN Structures!sl(Loaded(f), big)
                                ELSE Structures!Extend(Structures!s(Loaded(f), big), 8)]
  BY DEF Structures!Longs
<1>2. ASSUME NEW f \in fields
      PROVE  /\ wide => Structures!sl(Loaded(f), big) = rec[f]
             /\ ~wide => Structures!s(Loaded(f), big) = rec[f]
  <2>1. f \in DOMAIN layout /\ f \notin Structures!Names /\ layout[f][2] = IF wide THEN 8 ELSE 4
    OBVIOUS
  <2> QED
    BY <2>1, FieldRead
<1> HIDE DEF Loaded
<1>3. longs = [f \in fields |-> IF wide THEN rec[f] ELSE Structures!Extend(rec[f], 8)]
  <2>1. CASE wide
    BY <1>1, <1>2, <2>1, Zenon
  <2>2. CASE ~wide
    BY <1>1, <1>2, <2>2, Zenon
  <2> QED
    BY <2>1, <2>2
<1> QED
  BY <1>3 DEF Reads

LEMMA BytesRead ==
  ASSUME NEW layout, LaidOut(layout), NEW rec, Holds(rec, layout), NEW big \in BOOLEAN, NEW fields \in SUBSET DOMAIN layout,
         \A f \in fields : f \in Structures!Names \/ layout[f][2] = 1 \/ f = "n_desc",
         NEW bytes, bytes = Structures!Bytes(Structures!Image(layout, rec, big), layout, fields)
  PROVE  /\ DOMAIN bytes = fields /\ \A f \in fields : f # "n_desc" => bytes[f] = rec[f]
         /\ Reads(bytes, rec)
<1>1. bytes = [f \in fields |-> Structures!At(Structures!Image(layout, rec, big), layout, f)]
  BY DEF Structures!Bytes
<1>2. ASSUME NEW f \in fields, f # "n_desc"
      PROVE  Structures!At(Structures!Image(layout, rec, big), layout, f) = rec[f]
  <2>1. f \in DOMAIN layout /\ (f \in Structures!Names \/ layout[f][2] = 1)
    BY <1>2
  <2> QED
    BY <2>1, FieldRead
<1>3. DOMAIN bytes = fields /\ \A f \in fields : f # "n_desc" => bytes[f] = rec[f]
  BY <1>1, <1>2, Zenon
<1> QED
  BY <1>3 DEF Reads

(* The parts of a structure are joined.                                    *)
LEMMA JoinReads ==
  ASSUME NEW p, NEW q, NEW rec, Reads(p, rec), Reads(q, rec)
  PROVE  Reads(Structures!Join(p, q), rec)
<1>1. /\ DOMAIN Structures!Join(p, q) = DOMAIN p \cup DOMAIN q
      /\ \A g \in DOMAIN p : Structures!Join(p, q)[g] = p[g]
      /\ \A g \in DOMAIN q : g \notin DOMAIN p => Structures!Join(p, q)[g] = q[g]
  BY DEF Structures!Join
<1> QED
  BY <1>1 DEF Reads
-----------------------------------------------------------------------------
(* Every reader gives every field it reads.                                *)
LEMMA ReaderReads ==
  ASSUME NEW kind \in AllKinds, NEW wide \in BOOLEAN, NEW big \in BOOLEAN, NEW rec,
         Holds(rec, Structures!Layout(kind, wide)), NEW v, v.is_swap = big, v.is_64 = wide
  PROVE  Reads(Structures!Read(kind, Structures!Image(Structures!Layout(kind, wide), rec, big), v), rec)
<1>1. PICK L : L = Structures!Layout(kind, wide)
  OBVIOUS
<1>2. PICK p : p = Structures!Image(L, rec, big)
  OBVIOUS
<1> DEFINE W(fields) == Structures!Words(p, L, fields, big)
           A(fields) == Structures!Longs(p, L, fields, big, wide)
           B(fields) == Structures!Bytes(p, L, fields)
<1>3. /\ LaidOut(L) /\ Holds(rec, L) 
      /\ Structures!Image(Structures!Layout(kind, wide), rec, big) = p
  BY <1>1, <1>2, LayoutsApart
<1>4. ASSUME NEW fields \in SUBSET (DOMAIN L \ Structures!Names), \A f \in fields : L[f][2] = 4
      PROVE  Reads(W(fields), rec)
  BY <1>2, <1>3, <1>4, WordsRead
<1>5. ASSUME NEW fields \in SUBSET (DOMAIN L \ Structures!Names),
             \A f \in fields : L[f][2] = IF wide THEN 8 ELSE 4
      PROVE  Reads(A(fields), rec)
  BY <1>2, <1>3, <1>5, LongsRead
<1>6. ASSUME NEW fields \in SUBSET DOMAIN L,
             \A f \in fields : f \in Structures!Names \/ L[f][2] = 1 \/ f = "n_desc"
      PROVE  Reads(B(fields), rec)
  BY <1>2, <1>3, <1>6, BytesRead
<1>7. ASSUME NEW a, NEW b, Reads(a, rec), Reads(b, rec)
      PROVE  Reads(Structures!Join(a, b), rec)
  BY <1>7, JoinReads
<1> HIDE DEF W, A, B
<1>11. CASE kind = "mach_header"
  <2>1. L = Structures!mach_header
    BY <1>1, <1>11 DEF Structures!Layout
  <2>2. Reads(W(DOMAIN L), rec)
    BY <1>4, <2>1 DEF Structures!mach_header, Structures!Names
  <2>3. ASSUME NEW x, NEW y PROVE Reads([subtype |-> x, caps |-> y], rec)
    BY <1>3, <2>1 DEF Reads, Holds, Structures!mach_header
  <2> QED
    BY <1>3, <1>7, <1>11, <2>1, <2>2, <2>3 DEF Structures!Read, Structures!disp_header, W
<1>12. CASE kind = "load_command"
  <2>1. L = Structures!load_command
    BY <1>1, <1>12 DEF Structures!Layout
  <2>2. Reads(W({"cmd", "cmdsize"}), rec)
    BY <1>4, <2>1 DEF Structures!load_command, Structures!Names
  <2> QED
    BY <1>3, <1>12, <2>1, <2>2 DEF Structures!Read, Structures!read_load, W
<1>13. CASE kind = "symtab"
  <2>1. L = Structures!symtab_command
    BY <1>1, <1>13 DEF Structures!Layout
  <2>2. Reads(W(DOMAIN L), rec)
    BY <1>4, <2>1 DEF Structures!symtab_command, Structures!Names
  <2> QED
    BY <1>3, <1>13, <2>1, <2>2 DEF Structures!Read, Structures!read_symtab_cmd, W
<1>14. CASE kind = "fat_header"
  <2>1. L = Structures!fat_header
    BY <1>1, <1>14 DEF Structures!Layout
  <2>2. Reads(W({"nfat_arch"}), rec)
    BY <1>4, <2>1 DEF Structures!fat_header, Structures!Names
  <2> QED
    BY <1>3, <1>14, <2>1, <2>2 DEF Structures!Read, Structures!get_vm_fat, W
<1>15. CASE kind = "fat_arch"
  <2>1. L = Structures!fat_arch(wide)
    BY <1>1, <1>15 DEF Structures!Layout
  <2>2. Reads(W({"cputype"}), rec)
    BY <1>4, <2>1 DEF Structures!fat_arch, Structures!Names
  <2>3. Reads(A({"offset", "size"}), rec)
    BY <1>5, <2>1 DEF Structures!fat_arch, Structures!Names
  <2> QED
    BY <1>3, <1>7, <1>15, <2>1, <2>2, <2>3 DEF Structures!Read, Structures!get_arch_map, W, A
<1>16. CASE kind = "nlist"
  <2>1. L = Structures!nlist(wide)
    BY <1>1, <1>16 DEF Structures!Layout
  <2>2. Reads(B({"n_type", "n_sect", "n_desc"}), rec)
    BY <1>6, <2>1 DEF Structures!nlist, Structures!Names
  <2>3. Reads(W({"n_strx"}), rec)
    BY <1>4, <2>1 DEF Structures!nlist, Structures!Names
  <2>4. Reads(A({"n_value"}), rec)
    BY <1>5, <2>1 DEF Structures!nlist, Structures!Names
  <2> QED
    BY <1>3, <1>7, <1>16, <2>1, <2>2, <2>3, <2>4
       DEF Structures!Read, Structures!read_sym_token, W, A, B
<1>17. CASE kind = "segment"
  <2>1. L = Structures!segment(wide)
    BY <1>1, <1>17 DEF Structures!Layout
  <2>2. Reads(B({"segname"}), rec)
    BY <1>6, <2>1 DEF Structures!segment, Structures!Names
  <2>3. Reads(A({"vmaddr", "vmsize", "fileoff", "filesize"}), rec)
    BY <1>5, <2>1 DEF Structures!segment, Structures!Names
  <2>4. Reads(W({"nsects", "flags"}), rec)
    BY <1>4, <2>1 DEF Structures!segment, Structures!Names
  <2> QED
    BY <1>3, <1>7, <1>17, <2>1, <2>2, <2>3, <2>4
       DEF Structures!Read, Structures!read_segment, W, A, B
<1>18. CASE kind = "section"
  <2>1. L = Structures!section(wide)
    BY <1>1, <1>18 DEF Structures!Layout
  <2>2. Reads(B(Structures!Names), rec)
    BY <1>6, <2>1 DEF Structures!section, Structures!Names
  <2>3. Reads(A({"addr", "size"}), rec)
    BY <1>5, <2>1 DEF Structures!section, Structures!Names
  <2>4. Reads(W({"offset", "align", "reloff", "nreloc", "flags"}), rec)
    BY <1>4, <2>1 DEF Structures!section, Structures!Names
  <2> QED
    BY <1>3, <1>7, <1>18, <2>1, <2>2, <2>3, <2>4
       DEF Structures!Read, Structures!read_section, W, A, B
<1> QED
  BY <1>11, <1>12, <1>13, <1>14, <1>15, <1>16, <1>17, <1>18 DEF AllKinds
-----------------------------------------------------------------------------
(* The columns of the header line.                                         *)
LEMMA ColumnsWhole ==
  ASSUME NEW x \in Word(4), NEW low, low = Structures!And(x, 1 .. 3),
         NEW high, high = Structures!And(Structures!Shr(x, 3), {1})
  PROVE  /\ Structures!Or(low, Structures!Shl(high, 3)) = x
         /\ low[4] = 0 /\ \A k \in 2 .. 4 : high[k] = 0
<1>1. DOMAIN x = 1 .. 4 /\ \A k \in 1 .. 4 : x[k] \in Nat
  BY WordSeq
<1>2. low = [k \in 1 .. 4 |-> IF k \in 1 .. 3 THEN x[k] ELSE 0]
  BY <1>1 DEF Structures!And
<1>3. high = [k \in 1 .. 4 |-> IF k = 1 THEN x[4] ELSE 0]
  BY <1>1 DEF Structures!And, Structures!Shr
<1>4. Structures!Shl(high, 3) = [k \in 1 .. 4 |-> IF k = 4 THEN x[4] ELSE 0]
  BY <1>3 DEF Structures!Shl
<1>5. Structures!Or(low, Structures!Shl(high, 3)) = [k \in 1 .. 4 |-> x[k]]
  BY <1>1, <1>2, <1>4 DEF Structures!Or
<1> QED
  BY <1>2, <1>3, <1>5 DEF Word

LEMMA HeaderRead ==
  ASSUME NEW big \in BOOLEAN, NEW rec, Holds(rec, Structures!mach_header), NEW p,
         p = Structures!Image(Structures!mach_header, rec, big)
  PROVE  /\ Structures!disp_header(p, big).subtype = Structures!And(rec.cpusubtype, 1 .. 3)
         /\ Structures!disp_header(p, big).caps
              = Structures!And(Structures!Shr(rec.cpusubtype, 3), {1})
         /\ rec.cpusubtype \in Word(4)
<1>1. LaidOut(Structures!mach_header)
  BY LayoutsApart DEF AllKinds, Structures!Layout
<1>2. PICK h : h = Structures!Words(p, Structures!mach_header, DOMAIN Structures!mach_header, big)
  OBVIOUS
<1>3. h = [f \in DOMAIN Structures!mach_header |-> rec[f]]
  <2>1. /\ DOMAIN Structures!mach_header \in SUBSET (DOMAIN Structures!mach_header \ Structures!Names)
        /\ \A f \in DOMAIN Structures!mach_header : Structures!mach_header[f][2] = 4
    BY DEF Structures!mach_header, Structures!Names
  <2> QED
    BY <1>1, <1>2, <2>1, WordsRead
<1>4. h.cpusubtype = rec.cpusubtype /\ rec.cpusubtype \in Word(4)
      /\ "subtype" \notin DOMAIN h /\ "caps" \notin DOMAIN h
  BY <1>3 DEF Structures!mach_header, Holds
<1> QED
  BY <1>2, <1>4 DEF Structures!disp_header, Structures!Join
-----------------------------------------------------------------------------
(* Names.                                                                  *)
LEMMA LeastOf ==
  ASSUME NEW T, T \subseteq Nat, T # {}
  PROVE  \E x \in T : \A y \in T : x <= y
<1>1. IsWellFoundedOn(OpToRel(<, Nat), Nat)
  BY NatLessThanWellFounded
<1>2. PICK x \in T : \A y \in T : ~(<<y, x>> \in OpToRel(<, Nat))
  BY <1>1, WFMin
<1>3. \A y \in T : ~(y < x)
  BY <1>2 DEF OpToRel
<1> QED
  BY <1>3

LEMMA FirstNul ==
  ASSUME NEW x \in Seq(Nat), NEW m \in 1 .. Len(x), x[m] = 0, \A k \in 1 .. m - 1 : x[k] # 0
  PROVE  Structures!CString(x) = SubSeq(x, 1, m - 1)
<1> DEFINE nuls == {k \in DOMAIN x : x[k] = 0}
<1>1. m \in nuls /\ \A k \in nuls : m <= k
  OBVIOUS
<1>2. \A k \in nuls : (\A j \in nuls : k <= j) => k = m
  BY <1>1
<1>3. (CHOOSE k \in nuls : \A j \in nuls : k <= j) = m
  BY <1>1, <1>2
<1> QED
  BY <1>1, <1>3 DEF Structures!CString

LEMMA NulInside ==
  ASSUME NEW x \in Seq(Nat), Len(Structures!CString(x)) < Len(x)
  PROVE  \E m \in 1 .. Len(x) : x[m] = 0 /\ \A k \in 1 .. m - 1 : x[k] # 0
<1> DEFINE nuls == {k \in DOMAIN x : x[k] = 0}
<1>1. Len(x) \in Nat /\ DOMAIN x = 1 .. Len(x)
  OBVIOUS
<1>2. nuls # {}
  <2> SUFFICES ASSUME nuls = {} PROVE Structures!CString(x) = x
    BY <1>1
  <2> QED
    BY DEF Structures!CString
<1>3. PICK m \in nuls : \A k \in nuls : m <= k
  <2>1. nuls \subseteq Nat
    BY <1>1
  <2> HIDE DEF nuls
  <2> QED
    BY <1>2, <2>1, LeastOf
<1> QED
  BY <1>1, <1>3

(* What follows the NUL of a name does not matter.                         *)
LEMMA NameEnds ==
  ASSUME NEW x \in Seq(Nat), Len(Structures!CString(x)) < Len(x), NEW y \in Seq(Nat)
  PROVE  /\ x \o y \in Seq(Nat)
         /\ Structures!CString(x \o y) = Structures!CString(x)
         /\ Len(Structures!CString(x \o y)) < Len(x \o y)
<1>1. PICK m \in 1 .. Len(x) : x[m] = 0 /\ \A k \in 1 .. m - 1 : x[k] # 0
  BY NulInside
<1>2. PICK z : z = x \o y
  OBVIOUS
<1>3. /\ z \in Seq(Nat) /\ Len(z) = Len(x) + Len(y) /\ Len(x) \in Nat /\ Len(y) \in Nat
      /\ \A k \in 1 .. Len(x) : z[k] = x[k]
  BY <1>2
<1>4. m \in 1 .. Len(z) /\ z[m] = 0 /\ \A k \in 1 .. m - 1 : z[k] # 0
  <2>1. m \in Nat /\ m >= 1 /\ m <= Len(x) /\ m <= Len(z)
    BY <1>3
  <2>2. \A k \in 1 .. m - 1 : z[k] = x[k]
    BY <1>3, <2>1
  <2> QED
    BY <1>1, <1>3, <2>1, <2>2
<1>5. Structures!CString(z) = SubSeq(z, 1, m - 1)
  BY <1>3, <1>4, FirstNul
<1>6. Structures!CString(x) = SubSeq(x, 1, m - 1)
  BY <1>1, FirstNul
<1>7. SubSeq(z, 1, m - 1) = SubSeq(x, 1, m - 1)
  BY <1>1, <1>3
<1> QED
  BY <1>2, <1>3, <1>5, <1>6, <1>7

LEMMA SectionRead ==
  ASSUME NEW wide \in BOOLEAN, NEW big \in BOOLEAN, NEW rec,
         Holds(rec, Structures!section(wide)), NEW p,
         p = Structures!Image(Structures!section(wide), rec, big),
         NEW sec, sec = Structures!read_section(p, big, wide)
  PROVE  /\ sec.sectname = rec.sectname /\ sec.segname = rec.segname
         /\ sec.addr \in Seq(Nat) /\ sec.size \in Seq(Nat)
<1>1. PICK L : L = Structures!section(wide)
  OBVIOUS
<1>2. LaidOut(L) /\ Holds(rec, L) /\ p = Structures!Image(L, rec, big)
  BY <1>1, LayoutsApart DEF AllKinds, Structures!Layout
<1>3. PICK b : b = Structures!Bytes(p, L, Structures!Names)
  OBVIOUS
<1>4. PICK a : a = Structures!Longs(p, L, {"addr", "size"}, big, wide)
  OBVIOUS
<1>5. PICK w : w = Structures!Words(p, L, {"offset", "align", "reloff", "nreloc", "flags"}, big)
  OBVIOUS
<1>6. sec = Structures!Join(b, Structures!Join(a, w))
  BY <1>1, <1>3, <1>4, <1>5 DEF Structures!read_section
<1>7. DOMAIN b = Structures!Names /\ \A f \in Structures!Names : b[f] = rec[f]
  <2>1. Structures!Names \in SUBSET DOMAIN L /\ "n_desc" \notin Structures!Names
    BY <1>1 DEF Structures!section, Structures!Names
  <2> QED
    BY <1>2, <1>3, <2>1, BytesRead
<1>8. a = [f \in {"addr", "size"} |-> IF wide THEN rec[f] ELSE Structures!Extend(rec[f], 8)]
  <2>1. /\ {"addr", "size"} \in SUBSET (DOMAIN L \ Structures!Names)
        /\ \A f \in {"addr", "size"} : L[f][2] = IF wide THEN 8 ELSE 4
    BY <1>1 DEF Structures!section, Structures!Names
  <2> QED
    BY <1>2, <1>4, <2>1, LongsRead
<1>9. ASSUME NEW f \in {"addr", "size"} PROVE a[f] \in Seq(Nat)
  <2>1. rec[f] \in Word(IF wide THEN 8 ELSE 4)
    BY <1>1, <1>2 DEF Holds, Structures!section
  <2>2. CASE wide
    BY <1>8, <2>1, <2>2, WordSeq
  <2>3. CASE ~wide
    <3>1. Structures!Extend(rec[f], 8) \in Word(8)
      BY <2>1, <2>3, ExtendLen
    <3> QED
      BY <1>8, <2>3, <3>1, WordSeq
  <2> QED
    BY <2>2, <2>3
<1>10. DOMAIN a = {"addr", "size"}
  BY <1>8
<1>11. sec.sectname = b.sectname /\ sec.segname = b.segname
  BY <1>6, <1>7 DEF Structures!Names, Structures!Join
<1>12. sec.addr = a.addr /\ sec.size = a.size
  BY <1>6, <1>7, <1>10 DEF Structures!Names, Structures!Join
<1> QED
  BY <1>7, <1>9, <1>11, <1>12 DEF Structures!Names

(* strcmp, from a name on in place, sees the name.                         *)
LEMMA NamesSeen ==
  ASSUME NEW wide \in BOOLEAN, NEW big \in BOOLEAN, NEW rec,
         Holds(rec, Structures!section(wide)), NEW sec,
         sec = Structures!read_section(Structures!Image(Structures!section(wide), rec, big), big, wide),
         Len(Structures!CString(rec.sectname)) < NameLen,
         Len(Structures!CString(rec.segname)) < NameLen,
         NEW pair, pair = <<pair[1], pair[2]>>
  PROVE  Structures!Selected(sec, pair) <=>
           pair = <<Structures!CString(rec.segname), Structures!CString(rec.sectname)>>
<1>1. /\ sec.sectname = rec.sectname /\ sec.segname = rec.segname
      /\ sec.addr \in Seq(Nat) /\ sec.size \in Seq(Nat)
  BY SectionRead
<1>2. PICK x, y : x = rec.sectname /\ y = rec.segname
  OBVIOUS
<1>3. x \in Seq(Nat) /\ Len(x) = NameLen /\ y \in Seq(Nat) /\ Len(y) = NameLen
  <2>1. x \in Word(NameLen) /\ y \in Word(NameLen)
    BY <1>2 DEF Holds, Structures!section
  <2> QED
    BY <2>1, Constants, WordSeq
<1>4. Structures!CString(y \o sec.addr \o sec.size) = Structures!CString(y)
  <2>1. /\ y \o sec.addr \in Seq(Nat)
        /\ Structures!CString(y \o sec.addr) = Structures!CString(y)
        /\ Len(Structures!CString(y \o sec.addr)) < Len(y \o sec.addr)
    BY <1>1, <1>2, <1>3, NameEnds
  <2> QED
    BY <1>1, <2>1, NameEnds
<1>5. Structures!CString(x \o y \o sec.addr \o sec.size) = Structures!CString(x)
  <2>1. /\ x \o y \in Seq(Nat)
        /\ Structures!CString(x \o y) = Structures!CString(x)
        /\ Len(Structures!CString(x \o y)) < Len(x \o y)
    BY <1>2, <1>3, NameEnds
  <2>2. /\ x \o y \o sec.addr \in Seq(Nat)
        /\ Structures!CString(x \o y \o sec.addr) = Structures!CString(x)
        /\ Len(Structures!CString(x \o y \o sec.addr)) < Len(x \o y \o sec.addr)
    BY <1>1, <2>1, NameEnds
  <2> QED
    BY <1>1, <2>2, NameEnds
<1> QED
  BY <1>1, <1>2, <1>4, <1>5 DEF Structures!Selected
-----------------------------------------------------------------------------
(* Magic numbers.                                                          *)
Are(x, a, b, c, d) == x \in Word(4) /\ x[1] = a /\ x[2] = b /\ x[3] = c /\ x[4] = d

LEMMA MagicsAre ==
  /\ Are(Structures!FAT_MAGIC, 190, 186, 254, 202)
  /\ Are(Structures!FAT_MAGIC_64, 191, 186, 254, 202)
  /\ Are(Structures!MH_MAGIC, 206, 250, 237, 254)
  /\ Are(Structures!MH_MAGIC_64, 207, 250, 237, 254)
BY DEF Are, Word, Structures!FAT_MAGIC, Structures!FAT_MAGIC_64, Structures!MH_MAGIC,
       Structures!MH_MAGIC_64

LEMMA SameBytes ==
  ASSUME NEW x \in Word(4), NEW y \in Word(4), \A k \in 1 .. 4 : x[k] = y[k] PROVE x = y
BY DEF Word

LEMMA ReversedAre ==
  ASSUME NEW a, NEW b, NEW c, NEW d, NEW x, Are(x, a, b, c, d)
  PROVE  Are(Structures!Reverse(x), d, c, b, a)
<1>1. x \in Word(4) /\ Len(x) = 4 /\ DOMAIN x = 1 .. 4
  BY WordSeq DEF Are
<1>2. Structures!Reverse(x) \in Word(4)
  BY <1>1, ReverseTwice
<1>3. Structures!Reverse(x) = [k \in 1 .. 4 |-> x[5 - k]]
  BY <1>1 DEF Structures!Reverse
<1> QED
  BY <1>2, <1>3 DEF Are

LEMMA FirstFour ==
  ASSUME NEW x \in Word(4) PROVE SubSeq(x, 1, 4) = x
<1>1. x \in Seq(Nat) /\ Len(x) = 4 /\ DOMAIN x = 1 .. 4
  BY WordSeq
<1>2. SubSeq(x, 1, 4) = [k \in 1 .. 4 |-> x[k]]
  BY <1>1
<1> QED
  BY <1>2 DEF Word

(* The magic numbers as a machine of the other byte order sees them.       *)
LEMMA CigamsAre ==
  ASSUME NEW x, x \in Structures!Cigams
  PROVE  \/ Are(x, 202, 254, 186, 190) \/ Are(x, 202, 254, 186, 191)
         \/ Are(x, 254, 237, 250, 206) \/ Are(x, 254, 237, 250, 207)
<1>1. /\ Are(Structures!Reverse(Structures!FAT_MAGIC), 202, 254, 186, 190)
      /\ Are(Structures!Reverse(Structures!FAT_MAGIC_64), 202, 254, 186, 191)
      /\ Are(Structures!Reverse(Structures!MH_MAGIC), 254, 237, 250, 206)
      /\ Are(Structures!Reverse(Structures!MH_MAGIC_64), 254, 237, 250, 207)
  BY MagicsAre, ReversedAre
<1> QED
  BY <1>1 DEF Structures!Cigams

(* Of a file that starts with a magic number, in either order, get_type    *)
(* finds the type, the order and the width.                                *)
LEMMA MagicTold ==
  ASSUME NEW type \in {"f_fat", "f_object"}, NEW wide \in BOOLEAN, NEW big \in BOOLEAN,
         NEW p, p = Structures!Stored("magic", Structures!Magic(type, wide), big)
  PROVE  Structures!get_type(p) = [type |-> type, is_swap |-> big, is_64 |-> wide]
<1>1. PICK m : m = Structures!Magic(type, wide)
  OBVIOUS
<1>2. /\ m \in Word(4) /\ m \in {Structures!FAT_MAGIC, Structures!FAT_MAGIC_64,
                                 Structures!MH_MAGIC, Structures!MH_MAGIC_64}
      /\ m[1] \in {190, 191, 206, 207}
  BY <1>1, MagicsAre DEF Structures!Magic, Are
<1>3. p = IF big THEN Structures!Reverse(m) ELSE m
  BY <1>1 DEF Structures!Stored, Structures!Names
<1>4. p \in Word(4)
  BY <1>2, <1>3, ReverseTwice
<1>5. p \in Structures!Cigams <=> big
  <2>1. CASE big
    BY <1>2, <1>3, <2>1 DEF Structures!Cigams
  <2>2. CASE ~big
    <3>1. p \notin Structures!Cigams
      <4> SUFFICES ASSUME p \in Structures!Cigams PROVE FALSE
        OBVIOUS
      <4>1. p[1] \in {202, 254}
        BY CigamsAre DEF Are
      <4> QED
        BY <1>2, <1>3, <2>2, <4>1
    <3> QED
      BY <2>2, <3>1
  <2> QED
    BY <2>1, <2>2
<1>6. /\ big => Structures!s(p, TRUE) = m
      /\ ~big => p = m
  <2>1. Structures!s(p, TRUE) = Structures!Reverse(p)
    BY <1>4, SwapReverses
  <2>2. Structures!Reverse(Structures!Reverse(m)) = m
    BY <1>2, ReverseTwice
  <2> QED
    BY <1>3, <2>1, <2>2
<1>7. /\ m \in {Structures!FAT_MAGIC, Structures!FAT_MAGIC_64} <=> type = "f_fat"
      /\ m \in {Structures!MH_MAGIC, Structures!MH_MAGIC_64} <=> type = "f_object"
      /\ m \in {Structures!FAT_MAGIC_64, Structures!MH_MAGIC_64} <=> wide
  BY <1>1, MagicsAre DEF Structures!Magic, Are
<1>8. SubSeq(p, 1, 4) = p
  BY <1>4, FirstFour
<1>9. Structures!s(p, p \in Structures!Cigams) = m
  BY <1>5, <1>6 DEF Structures!s
<1>10. (p \in Structures!Cigams) = big
  BY <1>5
<1>11. (m \in {Structures!FAT_MAGIC_64, Structures!MH_MAGIC_64}) = wide
  BY <1>7
<1>12. (CASE m \in {Structures!FAT_MAGIC, Structures!FAT_MAGIC_64} -> "f_fat"
          [] m \in {Structures!MH_MAGIC, Structures!MH_MAGIC_64} -> "f_object"
          [] p = Structures!AR_START -> "f_ranlib" [] OTHER -> "f_err") = type
  <2>1. p # Structures!AR_START
    <3>1. Len(p) = 4
      BY <1>4, WordSeq
    <3>2. Len(Structures!AR_START) = 8
      BY DEF Structures!AR_START
    <3> QED
      BY <3>1, <3>2
  <2>2. CASE type = "f_fat"
    <3>1. /\ m \in {Structures!FAT_MAGIC, Structures!FAT_MAGIC_64}
          /\ ~(m \in {Structures!MH_MAGIC, Structures!MH_MAGIC_64})
      BY <1>7, <2>2
    <3> QED
      BY <2>1, <2>2, <3>1, Zenon
  <2>3. CASE type = "f_object"
    <3>1. /\ m \in {Structures!MH_MAGIC, Structures!MH_MAGIC_64}
          /\ ~(m \in {Structures!FAT_MAGIC, Structures!FAT_MAGIC_64})
      BY <1>7, <2>3
    <3> QED
      BY <2>1, <2>3, <3>1, Zenon
  <2> QED
    BY <2>2, <2>3
<1> QED
  BY <1>8, <1>9, <1>10, <1>11, <1>12, Zenon DEF Structures!get_type

(* A file that starts with none is not taken for one: of the starts        *)
(* considered, "!<arch>\n" is an archive's, the others are no one's.       *)
LEMMA NoMagicTold ==
  ASSUME NEW p \in {Structures!AR_START} \cup Starts
  PROVE  /\ Structures!get_type(p).type = IF p = Structures!AR_START THEN "f_ranlib" ELSE "f_err"
         /\ ~Structures!get_type(p).is_swap /\ ~Structures!get_type(p).is_64
<1>1. PICK m : m = SubSeq(p, 1, 4)
  OBVIOUS
<1>2. m[1] \in {33, 202, 254, 0} /\ (m[1] = 202 => m[4] = 189) /\ (m[1] = 254 => m[2] = 202)
  BY <1>1 DEF Starts, Structures!AR_START
<1>3. m \notin Structures!Cigams
  BY <1>2, CigamsAre DEF Are
<1>4. Structures!s(m, m \in Structures!Cigams) = m
  BY <1>3 DEF Structures!s
<1>5. m \notin {Structures!FAT_MAGIC, Structures!FAT_MAGIC_64}
      /\ m \notin {Structures!MH_MAGIC, Structures!MH_MAGIC_64}
      /\ m \notin {Structures!FAT_MAGIC_64, Structures!MH_MAGIC_64}
  BY <1>2, MagicsAre DEF Are
<1>6. Structures!get_type(p).type = IF p = Structures!AR_START THEN "f_ranlib" ELSE "f_err"
  BY <1>1, <1>4, <1>5 DEF Structures!get_type
<1>7. Structures!get_type(p).is_swap = (m \in Structures!Cigams)
  BY <1>1 DEF Structures!get_type
<1>8. Structures!get_type(p).is_64 = (m \in {Structures!FAT_MAGIC_64, Structures!MH_MAGIC_64})
  BY <1>1, <1>4 DEF Structures!get_type
<1> QED
  BY <1>3, <1>5, <1>6, <1>7, <1>8
-----------------------------------------------------------------------------
(* Whatever the bytes of the fields are: with the order and the width that *)
(* get_type finds in the magic number, the reader of every structure gives *)
(* back what was written, for both orders and both widths.  An address of  *)
(* 32 bits is extended with zeros, and n_desc is not swapped.              *)
THEOREM AnyBytesReadBack ==
  ASSUME NEW type \in {"f_fat", "f_object"}, NEW kind \in AllKinds,
         NEW wide \in BOOLEAN, NEW big \in BOOLEAN,
         NEW rec, Holds(rec, Structures!Layout(kind, wide)),
         NEW v, v = Structures!get_type(Structures!Stored("magic", Structures!Magic(type, wide), big)),
         NEW read, read = Structures!Read(kind, Structures!Image(Structures!Layout(kind, wide), rec, big), v)
  PROVE  \A f \in DOMAIN read \cap DOMAIN rec :
           f # "n_desc" => read[f] = Structures!Extend(rec[f], Len(read[f]))
<1>1. v = [type |-> type, is_swap |-> big, is_64 |-> wide]
  BY MagicTold
<1>2. Reads(read, rec)
  <2>1. v.is_swap = big /\ v.is_64 = wide
    BY <1>1
  <2> QED
    BY <2>1, ReaderReads
<1>3. ASSUME NEW f \in DOMAIN read \cap DOMAIN rec, f # "n_desc"
      PROVE  read[f] = Structures!Extend(rec[f], Len(read[f]))
  <2>1. PICK n \in Nat : rec[f] \in Word(n)
    <3>1. /\ f \in DOMAIN Structures!Layout(kind, wide)
          /\ rec[f] \in Word(Structures!Layout(kind, wide)[f][2])
      BY DEF Holds
    <3>2. Structures!Layout(kind, wide)[f][2] \in Nat
      BY <3>1, LayoutsApart DEF LaidOut
    <3> QED
      BY <3>1, <3>2
  <2>2. CASE read[f] = rec[f]
    BY <2>1, <2>2, ExtendSame
  <2>3. CASE read[f] = Structures!Extend(rec[f], 8)
    <3>1. Len(Structures!Extend(rec[f], 8)) = 8
      BY <2>1, ExtendLen
    <3> QED
      BY <2>3, <3>1
  <2> QED
    BY <1>2, <1>3, <2>2, <2>3 DEF Reads
<1> QED
  BY <1>3
-----------------------------------------------------------------------------
(* The files considered.                                                   *)
LEMMA SameLayout ==
  ASSUME NEW kind \in AllKinds, NEW wide \in BOOLEAN
  PROVE  MachO!Layout(kind, wide) = Structures!Layout(kind, wide)
<1>1. CASE kind = "mach_header"
  BY <1>1 DEF Structures!Layout, MachO!Layout, Structures!mach_header, MachO!mach_header
<1>2. CASE kind = "load_command"
  BY <1>2 DEF Structures!Layout, MachO!Layout, Structures!load_command, MachO!load_command
<1>3. CASE kind = "symtab"
  BY <1>3 DEF Structures!Layout, MachO!Layout, Structures!symtab_command, MachO!symtab_command
<1>4. CASE kind = "nlist"
  BY <1>4 DEF Structures!Layout, MachO!Layout, Structures!nlist, MachO!nlist
<1>5. CASE kind = "segment"
  BY <1>5 DEF Structures!Layout, MachO!Layout, Structures!segment, MachO!segment
<1>6. CASE kind = "section"
  BY <1>6 DEF Structures!Layout, MachO!Layout, Structures!section, MachO!section
<1>7. CASE kind = "fat_header"
  BY <1>7 DEF Structures!Layout, MachO!Layout, Structures!fat_header, MachO!fat_header
<1>8. CASE kind = "fat_arch"
  BY <1>8 DEF Structures!Layout, MachO!Layout, Structures!fat_arch, MachO!fat_arch
<1> QED
  BY <1>1, <1>2, <1>3, <1>4, <1>5, <1>6, <1>7, <1>8 DEF AllKinds

LEMMA RecordsHold ==
  ASSUME NEW kind \in AllKinds, NEW wide \in BOOLEAN,
         NEW rec \in Records(Structures!Layout(kind, wide))
  PROVE  Holds(rec, Structures!Layout(kind, wide))
<1>1. PICK L : L = Structures!Layout(kind, wide)
  OBVIOUS
<1>2. LaidOut(L)
  BY <1>1, LayoutsApart
<1>3. \A f \in DOMAIN L : f \in {"sectname", "segname"} => L[f][2] = NameLen
  BY <1>1, SMTT(30) DEF AllKinds, Structures!Layout, Structures!mach_header, Structures!load_command,
     Structures!symtab_command, Structures!nlist, Structures!segment, Structures!section,
     Structures!fat_header, Structures!fat_arch
<1>0. rec \in Records(L)
  BY <1>1
<1> DEFINE NameIn(g) == IF g \in DOMAIN L THEN NameValues ELSE {<< >>}
<1>4. PICK c \in [sectname : NameIn("sectname"), segname : NameIn("segname"),
                  zero : {{}} \cup {{g} : g \in DOMAIN L} \cup {DOMAIN L}] :
           rec = [g \in DOMAIN L |->
                    IF g \in MachO!Names THEN c[g]
                    ELSE IF g \in c.zero THEN [m \in 1 .. L[g][2] |-> 0] ELSE Own(L, g)]
  BY <1>0 DEF Records
<1>5. ASSUME NEW g \in DOMAIN L PROVE rec[g] \in Word(L[g][2])
  <2>1. L[g][1] \in Nat /\ L[g][2] \in Nat
    BY <1>2 DEF LaidOut
  <2>2. CASE g \in MachO!Names
    <3>1. NameValues \subseteq Word(NameLen)
      BY FileBytesAssumption DEF NameValues, Word
    <3>2. c[g] \in NameValues
      BY <2>2 DEF MachO!Names
    <3> QED
      BY <1>3, <1>4, <2>2, <3>1, <3>2 DEF MachO!Names
  <2>3. CASE g \notin MachO!Names
    <3>1. [m \in 1 .. L[g][2] |-> 0] \in Word(L[g][2])
      BY DEF Word
    <3>2. Own(L, g) \in Word(L[g][2])
      BY <2>1 DEF Own, Word
    <3> QED
      BY <1>4, <2>3, <3>1, <3>2
  <2> QED
    BY <2>2, <2>3
<1> QED
  BY <1>1, <1>4, <1>5 DEF Holds

LEMMA GoodFile ==
  ASSUME NEW f \in Good
  PROVE  /\ f.type \in {"f_object", "f_fat"} /\ f.big \in BOOLEAN /\ f.wide \in BOOLEAN
         /\ f.kind \in AllKinds /\ Holds(f.rec, Structures!Layout(f.kind, f.wide))
<1>1. PICK t \in DOMAIN Kinds :
           \E k \in Kinds[t], b \in BOOLEAN, w \in BOOLEAN : \E r \in Records(MachO!Layout(k, w)) :
              f = [type |-> t, big |-> b, wide |-> w, kind |-> k, rec |-> r]
  BY DEF Good
<1>4. PICK k \in Kinds[t], b \in BOOLEAN, w \in BOOLEAN : \E r \in Records(MachO!Layout(k, w)) :
              f = [type |-> t, big |-> b, wide |-> w, kind |-> k, rec |-> r]
  BY <1>1
<1>5. PICK r \in Records(MachO!Layout(k, w)) :
              f = [type |-> t, big |-> b, wide |-> w, kind |-> k, rec |-> r]
  BY <1>4
<1>2. t \in {"f_object", "f_fat"} /\ k \in AllKinds
  BY DEF Kinds, AllKinds
<1>3. Holds(r, Structures!Layout(k, w))
  BY <1>2, SameLayout, RecordsHold
<1> QED
  BY <1>2, <1>3, <1>5

(* What get_type finds in a file is what the file is.                      *)
LEMMA FileTold ==
  ASSUME NEW f \in Files, NEW v, v = Structures!get_type(Structures!Start(f))
  PROVE  /\ v.type = f.type
         /\ v.type \in {"f_fat", "f_object"} =>
              f \in Good /\ v = [type |-> f.type, is_swap |-> f.big, is_64 |-> f.wide]
         /\ v.type \notin {"f_fat", "f_object"} => ~v.is_swap /\ ~v.is_64
<1>1. CASE f \in Good
  <2>1. f.type \in {"f_object", "f_fat"} /\ f.big \in BOOLEAN /\ f.wide \in BOOLEAN
    BY <1>1, GoodFile
  <2>2. Structures!Start(f) = Structures!Stored("magic", Structures!Magic(f.type, f.wide), f.big)
    BY <2>1 DEF Structures!Start
  <2>3. v = [type |-> f.type, is_swap |-> f.big, is_64 |-> f.wide]
    BY <2>1, <2>2, MagicTold
  <2>4. v.type = f.type
    BY <2>3
  <2> QED
    BY <1>1, <2>1, <2>3, <2>4
<1>2. CASE f = [type |-> "f_ranlib", rec |-> << >>]
  <2>1. Structures!Start(f) = Structures!AR_START
    BY <1>2 DEF Structures!Start
  <2>2. v.type = "f_ranlib" /\ ~v.is_swap /\ ~v.is_64
    BY <2>1, NoMagicTold
  <2> QED
    BY <1>2, <2>2
<1>3. CASE f \in {[type |-> "f_err", start |-> b, rec |-> << >>] : b \in Starts}
  <2>1. PICK b \in Starts : f = [type |-> "f_err", start |-> b, rec |-> << >>]
    BY <1>3
  <2>2. Structures!Start(f) = b
    BY <2>1 DEF Structures!Start
  <2>3. b # Structures!AR_START
    <3>1. b[8] # 10
      BY DEF Starts
    <3>2. Structures!AR_START[8] = 10
      BY DEF Structures!AR_START
    <3> QED
      BY <3>1, <3>2
  <2>4. v.type = "f_err" /\ ~v.is_swap /\ ~v.is_64
    BY <2>2, <2>3, NoMagicTold
  <2> QED
    BY <2>1, <2>4
<1> QED
  BY <1>1, <1>2, <1>3 DEF Files

(* What the tools know of the file: nothing yet, the type, or the type and *)
(* the structure.                                                          *)
Told == Structures!get_type(Structures!Start(file))

TakenFrom ==
  Structures!Read(file.kind,
                  Structures!Image(Structures!Layout(file.kind, file.wide), file.rec, file.big), Told)

StructureInv ==
  part = "structure" =>
    /\ file \in Files
    /\ (vm = << >> /\ out = << >>) \/ vm = Told
    /\ out = << >> \/ (file \in Good /\ out = TakenFrom)

LEMMA InitStructure == Init => StructureInv
BY DEF Init, StructureInv, Structures!Init

LEMMA StepStructure ==
  ASSUME StructureInv, [Next]_vars PROVE StructureInv'
<1> SUFFICES ASSUME part' = "structure" PROVE StructureInv'
  BY DEF StructureInv
<1>1. CASE Next
  <2>1. part = "structure" /\ Structures!Next
    BY <1>1 DEF Next, ReadStructure, ReadMember, PrintDump
  <2>2. /\ file \in Files
        /\ (vm = << >> /\ out = << >>) \/ vm = Told
        /\ out = << >> \/ (file \in Good /\ out = TakenFrom)
    BY <2>1 DEF StructureInv
  <2>3. CASE Structures!GetType
    <3>1. vm' = Told /\ file' = file /\ out' = out
      BY <2>3 DEF Structures!GetType, Told
    <3>2. Told' = Told /\ TakenFrom' = TakenFrom
      BY <3>1 DEF Told, TakenFrom
    <3> QED
      BY <2>2, <3>1, <3>2 DEF StructureInv
  <2>4. CASE Structures!ReadStructure
    <3>1. /\ vm # << >> /\ vm.type \in {"f_fat", "f_object"} /\ vm' = vm /\ file' = file
          /\ out' = Structures!Read(file.kind,
                      Structures!Image(Structures!Layout(file.kind, file.wide), file.rec, file.big), vm)
      BY <2>4 DEF Structures!ReadStructure
    <3>2. vm = Told
      BY <2>2, <3>1
    <3>3. file \in Good
      BY <2>2, <3>1, <3>2, FileTold DEF Told
    <3>4. Told' = Told /\ TakenFrom' = TakenFrom /\ out' = TakenFrom
      BY <3>1, <3>2 DEF Told, TakenFrom
    <3> QED
      BY <2>2, <3>1, <3>2, <3>3, <3>4 DEF StructureInv
  <2> QED
    BY <2>1, <2>3, <2>4 DEF Structures!Next
<1>2. CASE UNCHANGED vars
  BY <1>2 DEF vars, StructureInv, Told, TakenFrom
<1> QED
  BY <1>1, <1>2

LEMMA StructureAsWritten ==
  ASSUME StructureInv PROVE FieldsAsWritten
<1> SUFFICES ASSUME part = "structure" PROVE Structures!FieldsAsWritten
  BY DEF FieldsAsWritten
<1>1. /\ file \in Files
      /\ (vm = << >> /\ out = << >>) \/ vm = Told
      /\ out = << >> \/ (file \in Good /\ out = TakenFrom)
  BY DEF StructureInv
<1>2. Structures!TypeAsWritten
  <2> SUFFICES ASSUME vm # << >>
               PROVE  /\ vm.type = file.type
                      /\ vm.type \in {"f_fat", "f_object"} =>
                           vm.is_swap = file.big /\ vm.is_64 = file.wide
                      /\ vm.type \notin {"f_fat", "f_object"} => ~vm.is_swap /\ ~vm.is_64
    BY DEF Structures!TypeAsWritten
  <2>1. vm = Structures!get_type(Structures!Start(file))
    BY <1>1 DEF Told
  <2> QED
    BY <1>1, <2>1, FileTold
<1>3. CASE out = << >>
  BY <1>2, <1>3 DEF Structures!FieldsAsWritten, Structures!ReadBack, Structures!NothingMasked,
                    Structures!SelectedByName
<1>4. CASE file \in Good /\ out = TakenFrom
  <2>1. /\ file.type \in {"f_object", "f_fat"} /\ file.big \in BOOLEAN /\ file.wide \in BOOLEAN
        /\ file.kind \in AllKinds /\ Holds(file.rec, Structures!Layout(file.kind, file.wide))
    BY <1>4, GoodFile
  <2>2. Told = Structures!get_type(Structures!Stored("magic", Structures!Magic(file.type, file.wide),
                                                     file.big))
    BY <2>1 DEF Told, Structures!Start
  <2>3. Told.is_swap = file.big /\ Told.is_64 = file.wide
    BY <2>1, <2>2, MagicTold
  <2>4. Structures!ReadBack
    BY <1>4, <2>1, <2>2, AnyBytesReadBack DEF Structures!ReadBack, TakenFrom
  <2>5. Structures!NothingMasked
    <3> SUFFICES ASSUME file.kind = "mach_header"
                 PROVE  /\ Structures!Or(out.subtype, Structures!Shl(out.caps, 3)) = file.rec.cpusubtype
                        /\ out.subtype[4] = 0 /\ \A k \in 2 .. 4 : out.caps[k] = 0
      BY DEF Structures!NothingMasked
    <3>1. Structures!Layout(file.kind, file.wide) = Structures!mach_header
      BY DEF Structures!Layout
    <3>2. out = Structures!disp_header(
                  Structures!Image(Structures!mach_header, file.rec, file.big), file.big)
      BY <1>4, <2>3, <3>1 DEF TakenFrom, Structures!Read
    <3>3. /\ out.subtype = Structures!And(file.rec.cpusubtype, 1 .. 3)
          /\ out.caps = Structures!And(Structures!Shr(file.rec.cpusubtype, 3), {1})
          /\ file.rec.cpusubtype \in Word(4)
      BY <2>1, <3>1, <3>2, HeaderRead
    <3> QED
      BY <3>3, ColumnsWhole
  <2>6. Structures!SelectedByName
    <3> SUFFICES ASSUME file.kind = "section",
                        \A f \in Structures!Names :
                          Len(Structures!CString(file.rec[f])) < NameLen,
                        NEW pair \in Short \X Short
                 PROVE  Structures!Selected(out, pair) <=>
                          pair = <<Structures!CString(file.rec["segname"]),
                                   Structures!CString(file.rec["sectname"])>>
      BY DEF Structures!SelectedByName
    <3>1. Structures!Layout(file.kind, file.wide) = Structures!section(file.wide)
      BY DEF Structures!Layout
    <3>2. out = Structures!read_section(
                  Structures!Image(Structures!section(file.wide), file.rec, file.big),
                  file.big, file.wide)
      BY <1>4, <2>3, <3>1 DEF TakenFrom, Structures!Read
    <3>3. pair = <<pair[1], pair[2]>>
      OBVIOUS
    <3>4. /\ Len(Structures!CString(file.rec.sectname)) < NameLen
          /\ Len(Structures!CString(file.rec.segname)) < NameLen
      BY DEF Structures!Names
    <3> QED
      BY <2>1, <3>1, <3>2, <3>3, <3>4, NamesSeen
  <2> QED
    BY <1>2, <2>4, <2>5, <2>6 DEF Structures!FieldsAsWritten
<1> QED
  BY <1>1, <1>3, <1>4

(* For names of any length and any characters: the type, the byte order    *)
(* and the width of every file considered are those it was written with,   *)
(* every field of every structure is read back, the two columns of the     *)
(* header line lose no bit, and a section is selected by its two names.    *)
THEOREM FieldsRead == Spec => []FieldsAsWritten
<1>1. Init => StructureInv
  BY InitStructure
<1>2. StructureInv /\ [Next]_vars => StructureInv'
  BY StepStructure
<1>3. StructureInv => FieldsAsWritten
  BY StructureAsWritten
<1> QED
  BY <1>1, <1>2, <1>3, PTL DEF Spec
-----------------------------------------------------------------------------
(***************************************************************************)
(* The dump of a section.  What disp_data has printed is described as it   *)
(* stands, without a formula for the place of each piece: the bytes so far *)
(* in their order, each complete row, the row under way, the word under    *)
(* way.  Every byte adds to one row and to one word only.                  *)
(***************************************************************************)
(* The places in a row and in a word, and those of the next byte.          *)
LEMMA Sixteens ==
  ASSUME NEW n \in Nat
  PROVE  /\ n % 16 \in 0 .. 15 /\ n % 4 \in 0 .. 3
         /\ (n + 1) % 16 = IF n % 16 = 15 THEN 0 ELSE (n % 16) + 1
         /\ (n + 1) % 4 = IF n % 4 = 3 THEN 0 ELSE (n % 4) + 1
         /\ n % 16 = 15 => n % 4 = 3
         /\ n % 16 = 0 => n % 4 = 0
OBVIOUS

(* The first place of the row of the place n.                              *)
LEMMA FirstOfRow ==
  ASSUME NEW n \in Nat
  PROVE  \E f \in Nat : /\ f = n - (n % 16) /\ f % 16 = 0 /\ f <= n /\ n <= f + 15
                        /\ n % 16 = 0 => f = n
                        /\ n % 16 # 15 => f = (n + 1) - ((n + 1) % 16)
<1>1. PICK r \in 0 .. 15 : r = n % 16
  BY Sixteens
<1>2. n - r \in Nat /\ (n - r) % 16 = 0
  BY <1>1
<1>3. r # 15 => (n + 1) % 16 = r + 1
  BY <1>1, Sixteens
<1>4. r # 15 => n - r = (n + 1) - ((n + 1) % 16)
  BY <1>3
<1> QED
  BY <1>1, <1>2, <1>4

(* Two rows do not overlap.                                                *)
LEMMA RowsApart ==
  ASSUME NEW m \in Nat, NEW n \in Nat, m % 16 = 0, n % 16 = 0, m < n
  PROVE  m + 15 < n
OBVIOUS

Pieces == {Dumps!Name(Dumps!get_cpu(vm.cpu))}
  \cup [kind : {"address"}, value : Nat, digits : {8, 16}]
  \cup [kind : {"byte"}, place : Nat]
  \cup [kind : {"blank", "tab", "newline"}]

(* Where DispByte puts the byte.                                           *)
At == Len(out) + (IF i % 16 = 0 THEN 3 ELSE 1)

Digits == IF vm.is_64 THEN 16 ELSE 8

(* What the call prints, piece by piece.                                   *)
Grown ==
  /\ out' \in Seq(Pieces) /\ Len(out') >= At
  /\ \A k \in 1 .. Len(out) : out'[k] = out[k]
  /\ out'[At] = Dumps!ByteAt(i)
  /\ i % 16 = 0 => /\ out'[Len(out) + 1] = Dumps!Address((addr + i) % Word64, Digits)
                   /\ out'[Len(out) + 2] = Dumps!Tab
  /\ Len(out') = At + (IF vm.is_swap /\ i % 4 # 3 THEN 0 ELSE IF i % 16 = 15 THEN 2 ELSE 1)
  /\ Len(out') > At => out'[At + 1] = Dumps!Blank
  /\ Len(out') > At + 1 => out'[At + 2] = Dumps!Newline

DumpType ==
  /\ vm \in [is_64 : BOOLEAN, is_swap : BOOLEAN, cpu : Cpus]
  /\ addr \in Nat /\ size \in Nat /\ i \in 0 .. size
  /\ done \in BOOLEAN /\ (done => i = size)
  /\ out \in Seq(Pieces) /\ Len(out) >= 2
  /\ out[1] = Dumps!Name(Dumps!get_cpu(vm.cpu)) /\ out[2] = Dumps!Newline

(* Every byte so far stands once and in its order.                         *)
DumpPlaces ==
  /\ \A place \in 0 .. i - 1 : \E k \in Dumps!Bytes : out[k].place = place
  /\ \A k \in Dumps!Bytes : out[k].place \in 0 .. i - 1
  /\ \A j, k \in Dumps!Bytes : j < k => out[j].place < out[k].place

DumpAddresses == \A k \in DOMAIN out : out[k].kind = "address" => k - 1 \in Dumps!Ends

(* A row begins with a multiple of sixteen.                                *)
RowAt(a) ==
  /\ a + 3 \in Dumps!Bytes
  /\ out[a + 3].place % 16 = 0
  /\ out[a + 1] = Dumps!Address((addr + out[a + 3].place) % Word64, Digits)
  /\ \A k \in Dumps!Bytes :
       Dumps!InRow(a, k) <=> out[k].place \in out[a + 3].place .. out[a + 3].place + 15

DumpRows == \A a \in Dumps!Ends \ {Len(out)} : RowAt(a)

(* The end of what is printed: a row is complete, or under way.            *)
DumpEnd ==
  IF done \/ i % 16 = 0 THEN out[Len(out)] = Dumps!Newline
  ELSE \E a \in Dumps!Ends \ {Len(out)} :
         Dumps!InRow(a, Len(out)) /\ out[a + 3].place = i - (i % 16)

(* The bytes of the word under way, and what stands before them.           *)
Pending == IF vm.is_swap THEN i % 4 ELSE 0

DumpWords ==
  /\ Dumps!WordsTogether
  /\ ~done => \A c \in 1 .. Pending : out[Len(out) + 1 - c] = Dumps!ByteAt(i - c)
  /\ ~done /\ i % 16 # 0 =>
       Len(out) > Pending /\ out[Len(out) - Pending].kind \in {"tab", "blank"}

DumpInv == DumpType /\ DumpPlaces /\ DumpAddresses /\ DumpRows /\ DumpEnd /\ DumpWords

(* s is the sequence p followed by the sequence q, place by place.         *)
Follows(s, p, q) ==
  /\ Len(s) = Len(p) + Len(q)
  /\ \A k \in 1 .. Len(p) : s[k] = p[k]
  /\ \A k \in 1 .. Len(q) : s[Len(p) + k] = q[k]

LEMMA TwoParts ==
  ASSUME NEW S, NEW p \in Seq(S), NEW q \in Seq(S)
  PROVE  p \o q \in Seq(S) /\ Follows(p \o q, p, q)
<1>1. /\ p \o q \in Seq(S)
      /\ Len(p \o q) = Len(p) + Len(q)
      /\ \A k \in 1 .. Len(p) : (p \o q)[k] = p[k]
      /\ \A k \in 1 .. Len(q) : (p \o q)[Len(p) + k] = q[k]
  OBVIOUS
<1> QED
  BY <1>1, Zenon DEF Follows

(* The three pieces that depend on the place of the byte.                  *)
LEMMA PieceParts ==
  ASSUME DumpType, i < size
  PROVE  /\ Dumps!RowStart \in Seq(Pieces)
         /\ Len(Dumps!RowStart) = IF i % 16 = 0 THEN 2 ELSE 0
         /\ i % 16 = 0 => /\ Dumps!RowStart[1] = Dumps!Address((addr + i) % Word64, Digits)
                          /\ Dumps!RowStart[2] = Dumps!Tab
         /\ <<Dumps!ByteAt(i)>> \in Seq(Pieces)
         /\ Dumps!Separator \in Seq(Pieces)
         /\ Len(Dumps!Separator) = IF vm.is_swap /\ i % 4 # 3 THEN 0 ELSE 1
         /\ Len(Dumps!Separator) = 1 => Dumps!Separator[1] = Dumps!Blank
         /\ Dumps!RowEnd \in Seq(Pieces)
         /\ Len(Dumps!RowEnd) = IF i % 16 = 15 THEN 1 ELSE 0
         /\ Len(Dumps!RowEnd) = 1 => Dumps!RowEnd[1] = Dumps!Newline
<1>1. i \in Nat /\ vm.is_64 \in BOOLEAN /\ (addr + i) % Word64 \in Nat
  BY FileBytesAssumption DEF DumpType
<1>2. Digits \in {8, 16}
  BY DEF Digits
<1>3. PICK byte : byte = Dumps!ByteAt(i)
  OBVIOUS
<1>4. PICK addressed : addressed = Dumps!Address((addr + i) % Word64, Digits)
  OBVIOUS
<1>5. PICK blank : blank = Dumps!Blank
  OBVIOUS
<1>6. PICK tab : tab = Dumps!Tab
  OBVIOUS
<1>7. PICK newline : newline = Dumps!Newline
  OBVIOUS
<1>8. byte \in Pieces
  BY <1>1, <1>3 DEF Pieces, Dumps!ByteAt
<1>9. addressed \in Pieces
  BY <1>1, <1>2, <1>4 DEF Pieces, Dumps!Address
<1>10. blank \in Pieces /\ tab \in Pieces /\ newline \in Pieces
  BY <1>5, <1>6, <1>7 DEF Pieces, Dumps!Blank, Dumps!Tab, Dumps!Newline
<1>11. /\ Dumps!RowStart = IF i % 16 = 0 THEN <<addressed, tab>> ELSE << >>
       /\ Dumps!Separator = IF vm.is_swap /\ i % 4 # 3 THEN << >> ELSE <<blank>>
       /\ Dumps!RowEnd = IF i % 16 = 15 THEN <<newline>> ELSE << >>
  BY <1>4, <1>5, <1>6, <1>7 DEF Dumps!RowStart, Dumps!Separator, Dumps!RowEnd, Digits
<1>12. PICK e : e = << >>
  OBVIOUS
<1>18. e \in Seq(Pieces) /\ Len(e) = 0
  BY <1>12
<1>13. /\ Dumps!RowStart \in Seq(Pieces)
       /\ Len(Dumps!RowStart) = IF i % 16 = 0 THEN 2 ELSE 0
       /\ i % 16 = 0 => Dumps!RowStart[1] = addressed /\ Dumps!RowStart[2] = tab
  <2>1. CASE i % 16 = 0
    <3>1. Dumps!RowStart = <<addressed, tab>>
      BY <1>11, <2>1, Zenon
    <3> QED
      BY <1>9, <1>10, <2>1, <3>1
  <2>2. CASE i % 16 # 0
    <3>1. Dumps!RowStart = e
      BY <1>11, <1>12, <2>2, Zenon
    <3> QED
      BY <1>18, <2>2, <3>1
  <2> QED
    BY <2>1, <2>2
<1>14. /\ Dumps!Separator \in Seq(Pieces)
       /\ Len(Dumps!Separator) = IF vm.is_swap /\ i % 4 # 3 THEN 0 ELSE 1
       /\ Len(Dumps!Separator) = 1 => Dumps!Separator[1] = blank
  <2>1. CASE vm.is_swap /\ i % 4 # 3
    <3>1. Dumps!Separator = e
      BY <1>11, <1>12, <2>1, Zenon
    <3> QED
      BY <1>18, <2>1, <3>1
  <2>2. CASE ~(vm.is_swap /\ i % 4 # 3)
    <3>1. Dumps!Separator = <<blank>>
      BY <1>11, <2>2, Zenon
    <3> QED
      BY <1>10, <2>2, <3>1
  <2> QED
    BY <2>1, <2>2
<1>15. /\ Dumps!RowEnd \in Seq(Pieces)
       /\ Len(Dumps!RowEnd) = IF i % 16 = 15 THEN 1 ELSE 0
       /\ Len(Dumps!RowEnd) = 1 => Dumps!RowEnd[1] = newline
  <2>1. CASE i % 16 # 15
    <3>1. Dumps!RowEnd = e
      BY <1>11, <1>12, <2>1, Zenon
    <3> QED
      BY <1>18, <2>1, <3>1
  <2>2. CASE i % 16 = 15
    <3>1. Dumps!RowEnd = <<newline>>
      BY <1>11, <2>2, Zenon
    <3> QED
      BY <1>10, <2>2, <3>1
  <2> QED
    BY <2>1, <2>2
<1>16. <<byte>> \in Seq(Pieces)
  BY <1>8
<1>17. <<Dumps!ByteAt(i)>> \in Seq(Pieces)
  BY <1>3, <1>16, Zenon
<1> QED
  BY <1>4, <1>5, <1>6, <1>7, <1>13, <1>14, <1>15, <1>17, Zenon

(* Each byte adds what Grown says.                                         *)
LEMMA Grows ==
  ASSUME DumpType, Dumps!DispByte
  PROVE  Grown /\ i' = i + 1 /\ UNCHANGED <<vm, addr, size, done>> /\ ~done /\ i < size
<1>1. /\ i < size /\ i' = i + 1 /\ UNCHANGED <<vm, addr, size, done>>
      /\ out' = out \o Dumps!RowStart \o <<Dumps!ByteAt(i)>> \o Dumps!Separator \o Dumps!RowEnd
  BY DEF Dumps!DispByte
<1>30. i \in Nat
  BY DEF DumpType
<1>2. i \in Nat /\ i % 16 \in 0 .. 15 /\ (i % 16 = 15 => i % 4 = 3)
  BY <1>30, Sixteens
<1>3. out \in Seq(Pieces) /\ Len(out) \in Nat /\ ~done
  BY <1>1 DEF DumpType
<1>4. PICK start \in Seq(Pieces) : start = Dumps!RowStart
  BY <1>1, PieceParts
<1>5. PICK one \in Seq(Pieces) : one = <<Dumps!ByteAt(i)>>
  BY <1>1, PieceParts
<1>6. PICK sep \in Seq(Pieces) : sep = Dumps!Separator
  BY <1>1, PieceParts
<1>7. PICK end \in Seq(Pieces) : end = Dumps!RowEnd
  BY <1>1, PieceParts
<1>8. Len(one) = 1 /\ one[1] = Dumps!ByteAt(i)
  BY <1>5
<1>9. PICK s2 : s2 = out \o start
  OBVIOUS
<1>10. PICK s3 : s3 = s2 \o one
  OBVIOUS
<1>11. PICK s4 : s4 = s3 \o sep
  OBVIOUS
<1>15. PICK s : s = s4 \o end
  OBVIOUS
<1>16. out' = s
  BY <1>1, <1>4, <1>5, <1>6, <1>7, <1>9, <1>10, <1>11, <1>15, Zenon
<1>17. s2 \in Seq(Pieces) /\ Follows(s2, out, start)
  BY <1>3, <1>9, TwoParts, Zenon
<1>18. s3 \in Seq(Pieces) /\ Follows(s3, s2, one)
  BY <1>10, <1>17, TwoParts, Zenon
<1>19. s4 \in Seq(Pieces) /\ Follows(s4, s3, sep)
  BY <1>11, <1>18, TwoParts, Zenon
<1>20. s \in Seq(Pieces) /\ Follows(s, s4, end)
  BY <1>15, <1>19, TwoParts, Zenon
<1>12. /\ Len(start) = IF i % 16 = 0 THEN 2 ELSE 0
       /\ i % 16 = 0 => /\ start[1] = Dumps!Address((addr + i) % Word64, Digits)
                        /\ start[2] = Dumps!Tab
       /\ Len(sep) = IF vm.is_swap /\ i % 4 # 3 THEN 0 ELSE 1
       /\ Len(sep) = 1 => sep[1] = Dumps!Blank
       /\ Len(end) = IF i % 16 = 15 THEN 1 ELSE 0
       /\ Len(end) = 1 => end[1] = Dumps!Newline
  BY <1>1, <1>4, <1>6, <1>7, PieceParts
<1>13. At = Len(out) + Len(start) + 1
  BY <1>3, <1>12 DEF At
<1>21. /\ Len(sep) \in {0, 1} /\ Len(end) \in {0, 1} /\ Len(start) \in Nat
       /\ (Len(end) = 1 => Len(sep) = 1)
  BY <1>2, <1>12
<1>22. /\ Len(s2) = At - 1 /\ Len(s3) = At /\ Len(s4) = At + Len(sep)
       /\ Len(s) = At + Len(sep) + Len(end) /\ At \in Nat
  BY <1>3, <1>8, <1>13, <1>17, <1>18, <1>19, <1>20, <1>21 DEF Follows
<1>23. \A k \in 1 .. Len(out) : s[k] = out[k]
  BY <1>3, <1>13, <1>17, <1>18, <1>19, <1>20, <1>21, <1>22, SMTT(30) DEF Follows
<1>24. s[At] = Dumps!ByteAt(i)
  <2>4. At \in 1 .. Len(s3) /\ At \in 1 .. Len(s4)
    BY <1>3, <1>13, <1>21, <1>22
  <2>1. s[At] = s3[At]
    BY <1>19, <1>20, <2>4, Zenon DEF Follows
  <2>2. 1 \in 1 .. Len(one) /\ At = Len(s2) + 1
    BY <1>8, <1>22
  <2>3. s3[At] = one[1]
    BY <1>18, <2>2, Zenon DEF Follows
  <2> QED
    BY <1>8, <2>1, <2>3, Zenon
<1>25. i % 16 = 0 => /\ s[Len(out) + 1] = Dumps!Address((addr + i) % Word64, Digits)
                     /\ s[Len(out) + 2] = Dumps!Tab
  <2> SUFFICES ASSUME i % 16 = 0
               PROVE  /\ s[Len(out) + 1] = Dumps!Address((addr + i) % Word64, Digits)
                      /\ s[Len(out) + 2] = Dumps!Tab
    OBVIOUS
  <2>1. 1 \in 1 .. Len(start) /\ 2 \in 1 .. Len(start)
    BY <1>12
  <2>2. s2[Len(out) + 1] = start[1] /\ s2[Len(out) + 2] = start[2]
    BY <1>17, <2>1, Zenon DEF Follows
  <2>3. \A k \in 1 .. Len(s2) : s[k] = s2[k]
    BY <1>3, <1>13, <1>18, <1>19, <1>20, <1>21, <1>22 DEF Follows
  <2>4. Len(out) + 1 \in 1 .. Len(s2) /\ Len(out) + 2 \in 1 .. Len(s2)
    BY <1>3, <1>12, <1>13, <1>22
  <2> QED
    BY <1>12, <2>2, <2>3, <2>4, Zenon
<1>26. Len(s) > At => s[At + 1] = Dumps!Blank
  <2> SUFFICES ASSUME Len(s) > At
               PROVE  s[At + 1] = Dumps!Blank
    OBVIOUS
  <2>1. Len(sep) = 1 /\ 1 \in 1 .. Len(sep) /\ At + 1 = Len(s3) + 1 /\ At + 1 \in 1 .. Len(s4)
    BY <1>21, <1>22
  <2>2. s4[At + 1] = sep[1] /\ s[At + 1] = s4[At + 1]
    BY <1>19, <1>20, <2>1, Zenon DEF Follows
  <2> QED
    BY <1>12, <2>1, <2>2, Zenon
<1>27. Len(s) > At + 1 => s[At + 2] = Dumps!Newline
  <2> SUFFICES ASSUME Len(s) > At + 1
               PROVE  s[At + 2] = Dumps!Newline
    OBVIOUS
  <2>4. PICK a \in Nat : a = At
    BY <1>22
  <2>5. PICK b \in {0, 1} : b = Len(sep)
    BY <1>21
  <2>6. PICK c \in {0, 1} : c = Len(end)
    BY <1>21
  <2>7. PICK l \in Nat : l = Len(s)
    BY <1>20
  <2>8. l = a + b + c /\ l > a + 1
    BY <1>22, <2>4, <2>5, <2>6, <2>7
  <2>9. b = 1 /\ c = 1
    BY <2>8
  <2>3. Len(end) = 1 /\ Len(sep) = 1
    BY <2>5, <2>6, <2>9, Zenon
  <2>1. 1 \in 1 .. Len(end) /\ At + 2 = Len(s4) + 1
    BY <1>22, <2>3
  <2>2. s[At + 2] = end[1]
    BY <1>20, <2>1, Zenon DEF Follows
  <2> QED
    BY <1>12, <2>2, <2>3, Zenon
<1>28. /\ Len(s) >= At
       /\ Len(s) = At + (IF vm.is_swap /\ i % 4 # 3 THEN 0 ELSE IF i % 16 = 15 THEN 2 ELSE 1)
  BY <1>2, <1>12, <1>22
<1>29. Grown
  BY <1>16, <1>20, <1>23, <1>24, <1>25, <1>26, <1>27, <1>28, Zenon DEF Grown
<1> QED
  BY <1>1, <1>3, <1>29

(* The pieces of the next state.                                           *)
GrownFrom(n, at, m) ==
  /\ n = Len(out) /\ m = Len(out') /\ at = At /\ n < at /\ at <= m
  /\ (i % 16 = 15 => m = at + 2)
  /\ DOMAIN out = 1 .. n /\ DOMAIN out' = 1 .. m
  /\ at = (IF i % 16 = 0 THEN n + 3 ELSE n + 1)
  /\ m = at + (IF vm.is_swap /\ i % 4 # 3 THEN 0 ELSE IF i % 16 = 15 THEN 2 ELSE 1)
  /\ \A k \in 1 .. n : out'[k] = out[k]
  /\ Dumps!Bytes' = Dumps!Bytes \cup {at}
  /\ Dumps!Ends' = Dumps!Ends \cup (IF i % 16 = 15 THEN {m} ELSE {})
  /\ \A k \in n + 1 .. m :
       /\ k = at <=> out'[k].kind = "byte"
       /\ out'[k].kind = "address" => k = n + 1 /\ i % 16 = 0
       /\ out'[k].kind = "newline" => k = m

LEMMA SequenceDomain ==
  ASSUME NEW S, NEW p \in Seq(S)
  PROVE  DOMAIN p = 1 .. Len(p)
OBVIOUS

LEMMA GrownPlaces ==
  ASSUME DumpType, Dumps!DispByte
  PROVE  \E n, at, m \in Nat : GrownFrom(n, at, m)
<1>1. /\ Grown /\ out \in Seq(Pieces) /\ i \in Nat
      /\ i % 16 \in 0 .. 15 /\ (i % 16 = 15 => i % 4 = 3)
  BY Grows, Sixteens DEF DumpType
<1>2. PICK n \in Nat : n = Len(out)
  BY <1>1
<1>3. PICK m \in Nat : m = Len(out')
  BY <1>1 DEF Grown
<1>4. PICK at \in Nat : at = At
  BY <1>2 DEF At
<1>5. at = IF i % 16 = 0 THEN n + 3 ELSE n + 1
  BY <1>2, <1>4 DEF At
<1>6. /\ out' \in Seq(Pieces)
      /\ \A k \in 1 .. n : out'[k] = out[k]
      /\ out'[at] = Dumps!ByteAt(i)
      /\ i % 16 = 0 => /\ out'[n + 1] = Dumps!Address((addr + i) % Word64, Digits)
                       /\ out'[n + 2] = Dumps!Tab
      /\ m = at + (IF vm.is_swap /\ i % 4 # 3 THEN 0 ELSE IF i % 16 = 15 THEN 2 ELSE 1)
      /\ m > at => out'[at + 1] = Dumps!Blank
      /\ m > at + 1 => out'[at + 2] = Dumps!Newline
  BY <1>1, <1>2, <1>3, <1>4, Zenon DEF Grown
<1>18. DOMAIN out = 1 .. Len(out) /\ DOMAIN out' = 1 .. Len(out')
  BY <1>1, <1>6, SequenceDomain, Zenon
<1>7. DOMAIN out = 1 .. n /\ DOMAIN out' = 1 .. m
  BY <1>2, <1>3, <1>18, Zenon
<1>8. at > n /\ m \in {at, at + 1, at + 2} /\ (m = at + 2 <=> i % 16 = 15)
  BY <1>1, <1>5, <1>6
<1>9. PICK row, full \in BOOLEAN : (row <=> i % 16 = 0) /\ (full <=> i % 16 = 15)
  OBVIOUS
<1>10. \A k \in n + 1 .. m :
         \/ k = n + 1 /\ row
         \/ k = n + 2 /\ row
         \/ k = at
         \/ k = at + 1 /\ m > at
         \/ k = at + 2 /\ m > at + 1 /\ k = m /\ full
  BY <1>5, <1>8, <1>9
<1>11. /\ row => out'[n + 1].kind = "address" /\ out'[n + 2].kind = "tab"
       /\ out'[at].kind = "byte"
       /\ m > at => out'[at + 1].kind = "blank"
       /\ m > at + 1 => out'[at + 2] = Dumps!Newline /\ out'[at + 2].kind = "newline"
  BY <1>6, <1>9 DEF Dumps!Address, Dumps!Tab, Dumps!ByteAt, Dumps!Blank, Dumps!Newline
<1>12. \A k \in n + 1 .. m :
         /\ k = at <=> out'[k].kind = "byte"
         /\ out'[k].kind = "address" => k = n + 1 /\ row
         /\ out'[k].kind = "newline" => k = m /\ full
         /\ full /\ k = m => out'[k] = Dumps!Newline
  <2> TAKE k \in n + 1 .. m
  <2>1. CASE k = at
    <3>1. ~(full /\ k = m)
      BY <1>8, <1>9, <2>1
    <3> QED
      BY <1>11, <2>1, <3>1
  <2>2. CASE k = n + 1 /\ row
    <3>1. k # at /\ k # m
      BY <1>5, <1>8, <1>9, <2>2
    <3> QED
      BY <1>11, <2>2, <3>1
  <2>3. CASE k = n + 2 /\ row
    <3>1. k # at /\ k # m
      BY <1>5, <1>8, <1>9, <2>3
    <3> QED
      BY <1>11, <2>3, <3>1
  <2>4. CASE k = at + 1 /\ m > at
    <3>1. k # at /\ ~(full /\ k = m)
      BY <1>8, <1>9, <2>4
    <3> QED
      BY <1>11, <2>4, <3>1
  <2>5. CASE k = at + 2 /\ m > at + 1 /\ k = m /\ full
    <3>1. k # at
      BY <2>5
    <3> QED
      BY <1>11, <2>5, <3>1
  <2> QED
    BY <1>10, <2>1, <2>2, <2>3, <2>4, <2>5
<1>13. at \in n + 1 .. m /\ (full => m \in n + 1 .. m)
  BY <1>8
<1>14. \A k : k \in 1 .. m <=> k \in 1 .. n \/ k \in n + 1 .. m
  BY <1>8
<1>15. Dumps!Newline.kind = "newline"
  BY DEF Dumps!Newline
<1>16. Dumps!Bytes' = Dumps!Bytes \cup {at}
  BY <1>6, <1>7, <1>12, <1>13, <1>14 DEF Dumps!Bytes
<1>17. Dumps!Ends' = Dumps!Ends \cup (IF i % 16 = 15 THEN {m} ELSE {})
  BY <1>6, <1>7, <1>9, <1>12, <1>13, <1>14, <1>15 DEF Dumps!Ends
<1>19. \A k \in n + 1 .. m :
         /\ k = at <=> out'[k].kind = "byte"
         /\ out'[k].kind = "address" => k = n + 1 /\ i % 16 = 0
         /\ out'[k].kind = "newline" => k = m
  BY <1>9, <1>12
<1>21. n < at /\ at <= m /\ (i % 16 = 15 => m = at + 2)
  BY <1>8
<1>20. GrownFrom(n, at, m)
  BY <1>21, <1>2, <1>3, <1>4, <1>5, <1>6, <1>7, <1>16, <1>17, <1>19, Zenon DEF GrownFrom
<1> QED
  BY <1>20

(* Ends are newlines, and bytes are none.                                  *)
LEMMA NoNewlines ==
  ASSUME DumpType
  PROVE  /\ \A a \in Dumps!Ends : a \in 1 .. Len(out) /\ out[a].kind = "newline"
         /\ \A k \in Dumps!Bytes : k \in 1 .. Len(out) /\ k \notin Dumps!Ends
         /\ 2 \in Dumps!Ends
<1>1. DOMAIN out = 1 .. Len(out)
  BY SequenceDomain, Zenon DEF DumpType
<1>2. Dumps!Newline.kind = "newline"
  BY DEF Dumps!Newline
<1>3. 2 \in 1 .. Len(out) /\ out[2] = Dumps!Newline
  BY DEF DumpType
<1> QED
  BY <1>1, <1>2, <1>3 DEF Dumps!Ends, Dumps!Bytes

LEMMA TypeStep ==
  ASSUME DumpType, Dumps!DispByte
  PROVE  DumpType'
<1>1. /\ Grown /\ i' = i + 1 /\ UNCHANGED <<vm, addr, size, done>> /\ ~done /\ i < size
  BY Grows
<1>2. PICK n, at, m \in Nat : GrownFrom(n, at, m)
  BY GrownPlaces
<1>3. vm' = vm /\ addr' = addr /\ size' = size /\ done' = done
  BY <1>1
<1>4. i' \in 0 .. size' /\ (done' => i' = size')
  BY <1>1, <1>3 DEF DumpType
<1>5. /\ n = Len(out) /\ m = Len(out') /\ \A k \in 1 .. n : out'[k] = out[k]
      /\ n < at /\ at <= m
  BY <1>2, Zenon DEF GrownFrom
<1>6. n >= 2
  BY <1>5 DEF DumpType
<1>7. out'[1] = out[1] /\ out'[2] = out[2] /\ Len(out') >= 2
  BY <1>5, <1>6
<1>8. Pieces' = Pieces
  BY <1>3, Zenon DEF Pieces
<1>9. out' \in Seq(Pieces')
  BY <1>1, <1>8, Zenon DEF Grown
<1> QED
  BY <1>3, <1>4, <1>7, <1>9, Zenon DEF DumpType

LEMMA PlacesStep ==
  ASSUME DumpType, DumpPlaces, Dumps!DispByte
  PROVE  DumpPlaces'
<1>1. Grown /\ i' = i + 1 /\ i \in Nat
  BY Grows DEF DumpType
<1>2. PICK n, at, m \in Nat : GrownFrom(n, at, m)
  BY GrownPlaces
<1>3. /\ Dumps!Bytes' = Dumps!Bytes \cup {at} /\ n = Len(out)
      /\ \A k \in 1 .. n : out'[k] = out[k]
      /\ at = (IF i % 16 = 0 THEN n + 3 ELSE n + 1)
  BY <1>2, Zenon DEF GrownFrom
<1>4. out'[at] = Dumps!ByteAt(i)
  BY <1>1, <1>2, Zenon DEF Grown, GrownFrom
<1>5. out'[at].place = i
  BY <1>4 DEF Dumps!ByteAt
<1>6. \A k \in Dumps!Bytes : k \in 1 .. n /\ k < at /\ out'[k] = out[k]
  BY <1>3, NoNewlines
<1>7. /\ \A place \in 0 .. i - 1 : \E k \in Dumps!Bytes : out[k].place = place
      /\ \A k \in Dumps!Bytes : out[k].place \in 0 .. i - 1
      /\ \A j, k \in Dumps!Bytes : j < k => out[j].place < out[k].place
  BY DEF DumpPlaces
<1>8. \A place \in 0 .. i : \E k \in Dumps!Bytes' : out'[k].place = place
  <2> TAKE place \in 0 .. i
  <2>1. CASE place = i
    BY <1>3, <1>5, <2>1
  <2>2. CASE place \in 0 .. i - 1
    BY <1>3, <1>6, <1>7, <2>2
  <2> QED
    BY <1>1, <2>1, <2>2
<1>9. \A k \in Dumps!Bytes' : out'[k].place \in 0 .. i
  <2>1. \A k \in Dumps!Bytes : out'[k].place \in 0 .. i - 1
    BY <1>6, <1>7, Zenon
  <2>2. \A place \in 0 .. i - 1 : place \in 0 .. i
    BY <1>1
  <2>3. i \in 0 .. i
    BY <1>1
  <2> QED
    BY <1>3, <1>5, <2>1, <2>2, <2>3, Zenon
<1>10. ASSUME NEW j \in Dumps!Bytes', NEW k \in Dumps!Bytes', j < k
       PROVE  out'[j].place < out'[k].place
  <2>1. j \in Dumps!Bytes
    BY <1>3, <1>6, <1>10
  <2>2. CASE k = at
    BY <1>1, <1>5, <1>6, <1>7, <2>1, <2>2
  <2>3. CASE k \in Dumps!Bytes
    BY <1>6, <1>7, <1>10, <2>1, <2>3
  <2> QED
    BY <1>3, <2>2, <2>3
<1>11. 0 .. i' - 1 = 0 .. i
  BY <1>1
<1> QED
  BY <1>8, <1>9, <1>10, <1>11, Zenon DEF DumpPlaces

LEMMA AddressesStep ==
  ASSUME DumpType, DumpAddresses, DumpEnd, Dumps!DispByte
  PROVE  DumpAddresses'
<1>1. ~done
  BY Grows
<1>2. PICK n, at, m \in Nat : GrownFrom(n, at, m)
  BY GrownPlaces
<1>3. /\ n = Len(out) /\ DOMAIN out = 1 .. n /\ DOMAIN out' = 1 .. m
      /\ \A k \in 1 .. n : out'[k] = out[k]
      /\ \A k \in n + 1 .. m : out'[k].kind = "address" => k = n + 1 /\ i % 16 = 0
      /\ Dumps!Ends \subseteq Dumps!Ends'
  BY <1>2, Zenon DEF GrownFrom
<1>4. i % 16 = 0 => n \in Dumps!Ends
  BY <1>1, <1>3 DEF DumpEnd, Dumps!Ends, DumpType
<1>5. SUFFICES ASSUME NEW k \in 1 .. m, out'[k].kind = "address"
               PROVE  k - 1 \in Dumps!Ends'
  BY <1>3, Zenon DEF DumpAddresses
<1>6. CASE k \in 1 .. n
  <2>1. out[k].kind = "address"
    BY <1>3, <1>5, <1>6
  <2> QED
    BY <1>3, <1>6, <2>1, Zenon DEF DumpAddresses
<1>7. CASE k \in n + 1 .. m
  BY <1>3, <1>4, <1>5, <1>7
<1> QED
  BY <1>6, <1>7

(* A byte belongs to the row under way, which begins with it or before it, *)
(* and to no row that is complete.                                         *)
LEMMA RowsStep ==
  ASSUME DumpType, DumpPlaces, DumpRows, DumpEnd, Dumps!DispByte
  PROVE  DumpRows' /\ DumpEnd'
<1>1. /\ Grown /\ i' = i + 1 /\ i \in Nat /\ vm' = vm /\ addr' = addr /\ done' = done /\ ~done
  BY Grows DEF DumpType
<1>2. PICK n, at, m \in Nat : GrownFrom(n, at, m)
  BY GrownPlaces
<1>3. /\ n = Len(out) /\ m = Len(out') /\ n < at /\ at <= m
      /\ DOMAIN out = 1 .. n /\ DOMAIN out' = 1 .. m
      /\ \A k \in 1 .. n : out'[k] = out[k]
      /\ Dumps!Bytes' = Dumps!Bytes \cup {at}
      /\ Dumps!Ends' = Dumps!Ends \cup (IF i % 16 = 15 THEN {m} ELSE {})
  BY <1>2, Zenon DEF GrownFrom
<1>4. at = (IF i % 16 = 0 THEN n + 3 ELSE n + 1)
  BY <1>2, Zenon DEF GrownFrom
<1>5. out'[at].place = i
  BY <1>1, <1>2 DEF Grown, GrownFrom, Dumps!ByteAt
<1>6. /\ \A a \in Dumps!Ends : a \in 1 .. n
      /\ \A k \in Dumps!Bytes : k \in 1 .. n /\ k \notin Dumps!Ends /\ out'[k] = out[k]
  BY <1>3, NoNewlines
<1>15. i % 16 = 15 => m = at + 2
  BY <1>2, Zenon DEF GrownFrom
<1>7. i % 16 = 15 => m > at
  BY <1>15
(* An end before the last place of `out` is one of out'.                   *)
<1>8. /\ \A k \in 1 .. at : k \in Dumps!Ends' <=> k \in Dumps!Ends
      /\ \A k \in n + 1 .. m : k \in Dumps!Ends' => k = m
      /\ i % 16 # 15 => Dumps!Ends' = Dumps!Ends
  BY <1>3, <1>6, <1>7
<1>9. ASSUME NEW a \in 1 .. n, NEW k \in 1 .. n
      PROVE  Dumps!InRow(a, k)' <=> Dumps!InRow(a, k)
  <2>1. \A j \in a + 1 .. k : j \in Dumps!Ends' <=> j \in Dumps!Ends
    BY <1>3, <1>8
  <2> QED
    BY <2>1 DEF Dumps!InRow
<1>14. PICK f \in Nat :
         /\ f = i - (i % 16) /\ f % 16 = 0 /\ f <= i /\ i <= f + 15
         /\ i % 16 = 0 => f = i
         /\ i % 16 # 15 => f = i' - (i' % 16)
  BY <1>1, FirstOfRow
(* The row of the byte printed.                                            *)
<1>10. PICK a0 \in Dumps!Ends :
         /\ i % 16 = 0 => a0 = n
         /\ i % 16 # 0 => a0 # n /\ Dumps!InRow(a0, n) /\ out[a0 + 3].place = f
  <2>1. CASE i % 16 = 0
    <3>1. n \in Dumps!Ends
      BY <1>1, <1>3, <2>1 DEF DumpEnd, Dumps!Ends, DumpType
    <3> QED
      BY <2>1, <3>1
  <2>2. CASE i % 16 # 0
    BY <1>1, <1>3, <1>14, <2>2 DEF DumpEnd
  <2> QED
    BY <2>1, <2>2
<1>11. \A j \in a0 + 1 .. n : j \notin Dumps!Ends
  BY <1>3, <1>6, <1>10 DEF Dumps!InRow
<1>12. ASSUME NEW a \in Dumps!Ends
       PROVE  Dumps!InRow(a, at)' <=> a = a0
  <2>1. CASE a = a0
    <3>1. \A j \in a0 + 1 .. at : j \notin Dumps!Ends'
      BY <1>3, <1>6, <1>8, <1>11
    <3> QED
      BY <1>3, <1>6, <2>1, <3>1 DEF Dumps!InRow
  <2>2. CASE a # a0
    <3>1. a < a0 /\ a0 \in a + 1 .. at /\ a0 \in 1 .. at
      BY <1>3, <1>6, <1>11, <2>2
    <3>2. a0 \in Dumps!Ends'
      BY <1>8, <3>1
    <3> QED
      BY <2>2, <3>1, <3>2, Zenon DEF Dumps!InRow
  <2> QED
    BY <2>1, <2>2
(* The place that its first byte has, which the address names.             *)
<1>13. /\ a0 + 3 \in Dumps!Bytes'
       /\ out'[a0 + 3].place = f
       /\ out'[a0 + 1] = Dumps!Address((addr + out'[a0 + 3].place) % Word64, Digits)
       /\ a0 + 3 <= at
  <2>1. CASE i % 16 = 0
    <3>1. a0 = n /\ at = n + 3 /\ f = i
      BY <1>4, <1>10, <1>14, <2>1
    <3>2. out'[n + 1] = Dumps!Address((addr + i) % Word64, Digits)
      BY <1>1, <1>3, <2>1, Zenon DEF Grown
    <3> QED
      BY <1>3, <1>5, <3>1, <3>2
  <2>2. CASE i % 16 # 0
    <3>1. a0 # n /\ RowAt(a0) /\ out[a0 + 3].place = f
      BY <1>3, <1>10, <2>2, Zenon DEF DumpRows
    <3>2. a0 + 3 \in Dumps!Bytes /\ a0 + 1 \in 1 .. n /\ a0 + 3 \in 1 .. n
      BY <1>6, <3>1 DEF RowAt
    <3>3. out'[a0 + 3] = out[a0 + 3] /\ out'[a0 + 1] = out[a0 + 1]
      BY <1>3, <3>2
    <3>4. out[a0 + 1] = Dumps!Address((addr + out[a0 + 3].place) % Word64, Digits)
      BY <3>1, Zenon DEF RowAt
    <3>5. out'[a0 + 1] = Dumps!Address((addr + out'[a0 + 3].place) % Word64, Digits)
      BY <3>3, <3>4, Zenon
    <3> QED
      BY <1>3, <3>1, <3>2, <3>3, <3>5
  <2> QED
    BY <2>1, <2>2
<1>16. ASSUME NEW a \in Dumps!Ends, a # a0
       PROVE  /\ a < a0 /\ a # n /\ a + 3 \in Dumps!Bytes
              /\ out[a + 3].place % 16 = 0 /\ out[a + 3].place \in Nat
              /\ out[a + 3].place + 15 < i
  <2>1. a < a0
    BY <1>6, <1>11, <1>16
  <2>2. a # n
    BY <1>6, <2>1
  <2>3. RowAt(a)
    BY <1>3, <2>2, Zenon DEF DumpRows
  <2>4. a + 3 \in Dumps!Bytes /\ out[a + 3].place % 16 = 0
    BY <2>3, Zenon DEF RowAt
  <2>5. out[a + 3].place \in 0 .. i - 1
    BY <2>4, Zenon DEF DumpPlaces
  <2>6. PICK p \in 0 .. i - 1 : p = out[a + 3].place
    BY <2>5
  <2>7. p < f
    <3>1. CASE i % 16 = 0
      BY <1>14, <3>1
    <3>2. CASE i % 16 # 0
      <4>1. RowAt(a0)
        BY <1>3, <1>10, <3>2, Zenon DEF DumpRows
      <4>2. a0 + 3 \in Dumps!Bytes
        BY <4>1, Zenon DEF RowAt
      <4>3. a + 3 < a0 + 3
        BY <1>6, <2>1
      <4> QED
        BY <1>10, <2>4, <2>6, <3>2, <4>2, <4>3 DEF DumpPlaces
    <3> QED
      BY <3>1, <3>2
  <2>8. p \in Nat /\ p % 16 = 0
    BY <2>4, <2>6
  <2>9. p + 15 < f
    BY <1>14, <2>7, <2>8, RowsApart
  <2>10. p + 15 < i
    BY <1>1, <1>14, <2>8, <2>9
  <2> QED
    BY <2>1, <2>2, <2>4, <2>6, <2>8, <2>10
<1>17. ASSUME NEW a \in Dumps!Ends
       PROVE  RowAt(a)'
  <2>1. CASE a = a0
    <3>1. ASSUME NEW k \in Dumps!Bytes'
          PROVE  Dumps!InRow(a0, k)' <=> out'[k].place \in f .. f + 15
      <4>1. CASE k = at
        <5>1. i \in f .. f + 15
          BY <1>1, <1>14
        <5>2. Dumps!InRow(a0, at)'
          BY <1>12
        <5> QED
          BY <1>5, <4>1, <5>1, <5>2
      <4>2. CASE k \in Dumps!Bytes /\ i % 16 = 0
        <5>1. out'[k].place \in 0 .. i - 1
          BY <1>6, <4>2 DEF DumpPlaces
        <5>2. a0 = n /\ k \in 1 .. n /\ f = i
          BY <1>6, <1>10, <1>14, <4>2
        <5> QED
          BY <5>1, <5>2 DEF Dumps!InRow
      <4>3. CASE k \in Dumps!Bytes /\ i % 16 # 0
        <5>1. RowAt(a0) /\ out[a0 + 3].place = f
          BY <1>3, <1>10, <4>3, Zenon DEF DumpRows
        <5>2. Dumps!InRow(a0, k) <=> out[k].place \in f .. f + 15
          BY <4>3, <5>1, Zenon DEF RowAt
        <5> QED
          BY <1>6, <1>9, <4>3, <5>2
      <4> QED
        BY <1>3, <4>1, <4>2, <4>3
    <3>2. Digits' = Digits
      BY <1>1 DEF Digits
    <3>3. out'[a0 + 1] = Dumps!Address((addr' + out'[a0 + 3].place) % Word64, Digits')
      BY <1>1, <1>13, <3>2
    <3>4. /\ a0 + 3 \in Dumps!Bytes'
          /\ out'[a0 + 3].place % 16 = 0
          /\ \A k \in Dumps!Bytes' :
               Dumps!InRow(a0, k)' <=> out'[k].place \in out'[a0 + 3].place .. out'[a0 + 3].place + 15
      BY <1>13, <1>14, <3>1
    <3> QED
      BY <2>1, <3>3, <3>4, Zenon DEF RowAt
  <2>2. CASE a # a0
    <3>1. PICK p \in Nat : p = out[a + 3].place /\ p % 16 = 0 /\ p + 15 < i
      BY <1>16, <2>2
    <3>2. RowAt(a) /\ a + 3 \in Dumps!Bytes
      BY <1>3, <1>16, <2>2, Zenon DEF DumpRows
    <3>3. a + 1 \in 1 .. n /\ a + 3 \in 1 .. n
      BY <1>6, <3>2
    <3>4. out'[a + 3] = out[a + 3] /\ out'[a + 1] = out[a + 1]
      BY <1>3, <3>3
    <3>5. ASSUME NEW k \in Dumps!Bytes'
          PROVE  Dumps!InRow(a, k)' <=> out'[k].place \in p .. p + 15
      <4>1. CASE k = at
        <5>1. i \notin p .. p + 15
          BY <1>1, <3>1
        <5> QED
          BY <1>5, <1>12, <2>2, <4>1, <5>1
      <4>2. CASE k \in Dumps!Bytes
        <5>1. Dumps!InRow(a, k) <=> out[k].place \in p .. p + 15
          BY <3>1, <3>2, <4>2, Zenon DEF RowAt
        <5> QED
          BY <1>6, <1>9, <4>2, <5>1
      <4> QED
        BY <1>3, <4>1, <4>2
    <3>6. out[a + 1] = Dumps!Address((addr + out[a + 3].place) % Word64, Digits)
      BY <3>2, Zenon DEF RowAt
    <3>7. Digits' = Digits
      BY <1>1 DEF Digits
    <3>8. out'[a + 1] = Dumps!Address((addr' + out'[a + 3].place) % Word64, Digits')
      BY <1>1, <3>4, <3>6, <3>7
    <3>9. /\ a + 3 \in Dumps!Bytes'
          /\ out'[a + 3].place % 16 = 0
          /\ \A k \in Dumps!Bytes' :
               Dumps!InRow(a, k)' <=> out'[k].place \in out'[a + 3].place .. out'[a + 3].place + 15
      BY <1>3, <3>1, <3>2, <3>4, <3>5
    <3> QED
      BY <3>8, <3>9, Zenon DEF RowAt
  <2> QED
    BY <2>1, <2>2
<1>18. DumpRows'
  <2>1. \A a \in Dumps!Ends' \ {m} : a \in Dumps!Ends
    BY <1>3
  <2> QED
    BY <1>3, <1>17, <2>1, Zenon DEF DumpRows
<1>19. DumpEnd'
  <2>1. CASE i % 16 = 15
    <3>1. i' % 16 = 0
      BY <1>1, <2>1, Sixteens
    <3>2. m > at + 1 /\ at + 2 = m
      BY <1>15, <2>1
    <3>3. out'[m] = Dumps!Newline
      BY <1>1, <1>2, <3>2 DEF Grown, GrownFrom
    <3> QED
      BY <1>3, <3>1, <3>3, Zenon DEF DumpEnd
  <2>2. CASE i % 16 # 15
    <3>1. i' % 16 # 0
      BY <1>1, <2>2, Sixteens
    <3>2. \A j \in a0 + 1 .. m : j \notin Dumps!Ends'
      BY <1>3, <1>6, <1>8, <1>11, <2>2
    <3>3. a0 \in Dumps!Ends' \ {m} /\ a0 < m
      BY <1>3, <1>6
    <3>4. Dumps!InRow(a0, m)'
      BY <3>2, <3>3, Zenon DEF Dumps!InRow
    <3>5. out'[a0 + 3].place = i' - (i' % 16)
      BY <1>13, <1>14, <2>2
    <3> QED
      BY <1>1, <1>3, <3>1, <3>3, <3>4, <3>5, Zenon DEF DumpEnd
  <2> QED
    BY <2>1, <2>2
<1> QED
  BY <1>18, <1>19

(* A blank is printed after a whole word only.                             *)
LEMMA WordsStep ==
  ASSUME DumpType, DumpEnd, DumpWords, Dumps!DispByte
  PROVE  DumpWords'
<1>1. /\ Grown /\ i' = i + 1 /\ i \in Nat /\ vm' = vm /\ done' = done /\ ~done
      /\ vm.is_swap \in BOOLEAN
  BY Grows DEF DumpType
<1>2. PICK n, at, m \in Nat : GrownFrom(n, at, m)
  BY GrownPlaces
<1>3. /\ n = Len(out) /\ m = Len(out') /\ n < at /\ at <= m /\ at = At
      /\ DOMAIN out = 1 .. n /\ DOMAIN out' = 1 .. m
      /\ \A k \in 1 .. n : out'[k] = out[k]
      /\ Dumps!Bytes' = Dumps!Bytes \cup {at}
      /\ \A k \in n + 1 .. m : k = at <=> out'[k].kind = "byte"
  BY <1>2, Zenon DEF GrownFrom
<1>4. PICK q, r \in Nat : q = i % 4 /\ r = i % 16
  BY <1>1, Sixteens
<1>5. /\ q \in 0 .. 3 /\ r \in 0 .. 15 /\ (r = 15 => q = 3) /\ (r = 0 => q = 0)
      /\ i' % 4 = (IF q = 3 THEN 0 ELSE q + 1) /\ (r # 15 => i' % 16 = r + 1)
      /\ (r = 15 => i' % 16 = 0)
  BY <1>1, <1>4, Sixteens
<1>6. /\ at = (IF r = 0 THEN n + 3 ELSE n + 1)
      /\ m = at + (IF vm.is_swap /\ q # 3 THEN 0 ELSE IF r = 15 THEN 2 ELSE 1)
  BY <1>2, <1>4, Zenon DEF GrownFrom
<1>7. /\ out'[at] = Dumps!ByteAt(i)
      /\ r = 0 => out'[n + 2] = Dumps!Tab
      /\ m > at => out'[at + 1] = Dumps!Blank
      /\ m > at + 1 => out'[at + 2] = Dumps!Newline
  BY <1>1, <1>3, <1>4, Zenon DEF Grown
<1>8. /\ out'[at].kind = "byte" /\ out'[at].place = i
      /\ r = 0 => out'[n + 2].kind = "tab"
      /\ m > at => out'[at + 1].kind = "blank"
      /\ m > at + 1 => out'[at + 2].kind = "newline"
  BY <1>7 DEF Dumps!ByteAt, Dumps!Tab, Dumps!Blank, Dumps!Newline
<1>9. Dumps!Blank.kind = "blank"
  BY DEF Dumps!Blank
<1>10. PICK p \in 0 .. 3 : p = IF vm.is_swap THEN q ELSE 0
  BY <1>5
<1>11. /\ \A c \in 1 .. p : out[n + 1 - c] = Dumps!ByteAt(i - c)
       /\ r # 0 => n > p /\ out[n - p].kind \in {"tab", "blank"}
  BY <1>1, <1>3, <1>4, <1>10, Zenon DEF DumpWords, Pending
(* What stands before the bytes of the word of the byte printed.           *)
<1>12. PICK b \in 1 .. m :
         /\ b = at - p - 1
         /\ out'[b].kind \in {"tab", "blank"}
         /\ \A c \in 0 .. p : out'[at - c] = Dumps!ByteAt(i - c)
  <2>1. CASE r = 0
    <3>1. p = 0 /\ at - p - 1 = n + 2 /\ n + 2 \in 1 .. m
      BY <1>3, <1>5, <1>6, <1>10, <2>1
    <3>2. \A c \in 0 .. p : c = 0 /\ at - c = at /\ i - c = i
      BY <1>1, <3>1
    <3> QED
      BY <1>7, <1>8, <2>1, <3>1, <3>2
  <2>2. CASE r # 0
    <3>1. at = n + 1 /\ n > p /\ n - p \in 1 .. n /\ n - p \in 1 .. m /\ n - p = at - p - 1
      BY <1>3, <1>6, <1>11, <2>2
    <3>2. out'[n - p].kind \in {"tab", "blank"}
      BY <1>3, <1>11, <2>2, <3>1
    <3>3. ASSUME NEW c \in 0 .. p
          PROVE  out'[at - c] = Dumps!ByteAt(i - c)
      <4>1. CASE c = 0
        <5>1. at - c = at /\ i - c = i
          BY <1>1, <4>1
        <5> QED
          BY <1>7, <5>1
      <4>2. CASE c \in 1 .. p
        <5>1. at - c = n + 1 - c /\ n + 1 - c \in 1 .. n
          BY <3>1, <4>2
        <5> QED
          BY <1>3, <1>11, <4>2, <5>1
      <4> QED
        BY <4>1, <4>2
    <3> QED
      BY <3>1, <3>2, <3>3
  <2> QED
    BY <2>1, <2>2
<1>13. \A k \in 1 .. n : k \in Dumps!Bytes' <=> k \in Dumps!Bytes
  BY <1>3
<1>14. b \notin Dumps!Bytes' /\ \A k \in b + 1 .. at : k \in Dumps!Bytes'
  <2>1. out'[b].kind # "byte"
    BY <1>12
  <2>5. \A c \in 0 .. p : out'[at - c].kind = "byte"
    <3>1. \A k : Dumps!ByteAt(k).kind = "byte"
      BY DEF Dumps!ByteAt
    <3> QED
      BY <1>12, <3>1, Zenon
  <2>6. \A c \in 0 .. p : at - c \in 1 .. m
    BY <1>3, <1>12
  <2>2. \A c \in 0 .. p : out'[at - c].kind = "byte" /\ at - c \in 1 .. m
    BY <2>5, <2>6
  <2>3. \A k \in b + 1 .. at : at - k \in 0 .. p /\ at - (at - k) = k
    BY <1>12
  <2>4. \A k \in b + 1 .. at : out'[k].kind = "byte" /\ k \in 1 .. m
    BY <2>2, <2>3
  <2> QED
    BY <1>3, <2>1, <2>4 DEF Dumps!Bytes
<1>15. Dumps!WordsTogether'
  <2>1. ASSUME NEW j \in 1 .. m, NEW k \in 1 .. m, j < k, out'[j].kind \in {"tab", "blank"},
               out'[k] = Dumps!Blank, \A l \in j + 1 .. k - 1 : l \in Dumps!Bytes'
        PROVE  /\ k - j - 1 = IF vm.is_swap THEN 4 ELSE 1
               /\ vm.is_swap => out'[j + 1].place % 4 = 0
    <3>1. CASE k \in 1 .. n
      <4>1. j \in 1 .. n /\ out[j].kind \in {"tab", "blank"} /\ out[k] = Dumps!Blank
        BY <1>3, <2>1, <3>1
      <4>2. \A l \in j + 1 .. k - 1 : l \in Dumps!Bytes
        BY <1>13, <2>1, <3>1
      <4>3. /\ k - j - 1 = IF vm.is_swap THEN 4 ELSE 1
            /\ vm.is_swap => out[j + 1].place % 4 = 0
        BY <1>3, <2>1, <3>1, <4>1, <4>2, Zenon DEF DumpWords, Dumps!WordsTogether
      <4>4. j + 1 \in 1 .. n
        BY <2>1, <3>1
      <4> QED
        BY <1>3, <4>3, <4>4
    <3>2. CASE k \notin 1 .. n
      <4>1. k = at + 1 /\ m > at
        <5>1. out'[k].kind = "blank"
          BY <1>9, <2>1
        <5>2. k \in n + 1 .. m
          BY <3>2
        <5>3. k # at /\ (k = at + 2 /\ m > at + 1 => FALSE)
          BY <1>8, <5>1
        <5>4. ~(r = 0 /\ k = n + 2)
          BY <1>8, <5>1
        <5>5. ~(r = 0 /\ k = n + 1)
          <6>1. r = 0 => out'[n + 1].kind = "address"
            BY <1>1, <1>3, <1>4 DEF Grown, Dumps!Address
          <6> QED
            BY <5>1, <6>1
        <5> QED
          BY <1>5, <1>6, <5>2, <5>3, <5>4, <5>5
      <4>2. j = b
        <5>1. b \notin j + 1 .. k - 1
          BY <1>14, <2>1
        <5>2. j \notin Dumps!Bytes'
          BY <2>1 DEF Dumps!Bytes
        <5>3. j \notin b + 1 .. at
          BY <1>14, <5>2
        <5>4. b < at
          BY <1>12
        <5> QED
          BY <2>1, <4>1, <5>1, <5>3, <5>4
      <4>3. vm.is_swap => q = 3
        BY <1>1, <1>6, <4>1
      <4>4. p = (IF vm.is_swap THEN 3 ELSE 0) /\ k - j - 1 = p + 1 /\ j + 1 = at - p
        BY <1>10, <1>12, <4>1, <4>2, <4>3
      <4>5. vm.is_swap => out'[j + 1].place = i - 3 /\ (i - 3) % 4 = 0
        <5>1. ASSUME vm.is_swap PROVE (i - 3) % 4 = 0
          BY <1>1, <1>4, <4>3, <5>1
        <5>2. out'[at - p] = Dumps!ByteAt(i - p)
          BY <1>12
        <5>3. out'[j + 1].place = i - p
          BY <4>4, <5>2 DEF Dumps!ByteAt
        <5> QED
          BY <4>4, <5>1, <5>3
      <4> QED
        BY <4>4, <4>5
    <3> QED
      BY <3>1, <3>2
  <2>2. vm'.is_swap = vm.is_swap
    BY <1>1
  <2> QED
    BY <1>3, <2>1, <2>2, Zenon DEF Dumps!WordsTogether, Dumps!Blank
<1>16. CASE vm.is_swap /\ q # 3
  <2>1. m = at /\ p = q /\ Pending' = p + 1 /\ b = m - (p + 1)
    BY <1>1, <1>5, <1>6, <1>10, <1>12, <1>16 DEF Pending
  <2>2. ASSUME NEW c \in 1 .. p + 1
        PROVE  out'[m + 1 - c] = Dumps!ByteAt(i' - c)
    <3>1. PICK d \in 0 .. p : d = c - 1
      BY <2>2
    <3>2. m + 1 - c = at - d /\ i' - c = i - d
      BY <1>1, <2>1, <3>1
    <3> QED
      BY <1>12, <3>2
  <2>3. m > p + 1 /\ out'[m - (p + 1)].kind \in {"tab", "blank"}
    BY <1>12, <2>1
  <2> QED
    BY <1>3, <1>15, <2>1, <2>2, <2>3, Zenon DEF DumpWords
<1>17. CASE ~(vm.is_swap /\ q # 3)
  <2>1. PICK z : z = Pending'
    OBVIOUS
  <2>2. z = 0
    BY <1>1, <1>5, <1>17, <2>1 DEF Pending
  <2>3. \A c \in 1 .. z : out'[m + 1 - c] = Dumps!ByteAt(i' - c)
    BY <2>2
  <2>4. i' % 16 # 0 => m > z /\ out'[m - z].kind \in {"tab", "blank"}
    BY <1>5, <1>6, <1>8, <1>17, <2>2
  <2> QED
    BY <1>3, <1>15, <2>1, <2>3, <2>4, Zenon DEF DumpWords
<1> QED
  BY <1>16, <1>17

(* The last newline ends the row under way, if there is one.               *)
LEMMA EndStep ==
  ASSUME DumpInv, Dumps!EndData
  PROVE  DumpInv'
<1>1. /\ DumpType /\ i \in Nat /\ i = size /\ ~done /\ done' = TRUE
      /\ vm' = vm /\ addr' = addr /\ size' = size /\ i' = i
      /\ out' = out \o Dumps!LastNewline
  BY DEF Dumps!EndData, DumpInv, DumpType
<1>2. out \in Seq(Pieces) /\ Dumps!Newline \in Pieces
  BY <1>1 DEF DumpType, Pieces, Dumps!Newline
<1>3. CASE i % 16 = 0
  <2>1. PICK e : e = << >>
    OBVIOUS
  <2>2. Dumps!LastNewline = e
    BY <1>3, <2>1, Zenon DEF Dumps!LastNewline
  <2>3. out \o e = out
    BY <1>2, <2>1
  <2>4. out' = out
    BY <1>1, <2>2, <2>3, Zenon
  <2>5. /\ Dumps!Bytes' = Dumps!Bytes /\ Dumps!Ends' = Dumps!Ends /\ Digits' = Digits
        /\ Pieces' = Pieces
    BY <1>1, <2>4, Zenon DEF Dumps!Bytes, Dumps!Ends, Digits, Pieces
  <2>6. /\ DumpType' /\ DumpPlaces' /\ DumpAddresses' /\ DumpRows'
    <3>1. DumpType'
      BY <1>1, <2>4, <2>5, Zenon DEF DumpType
    <3>2. DumpPlaces' /\ DumpAddresses'
      BY <1>1, <2>4, <2>5, Zenon DEF DumpInv, DumpPlaces, DumpAddresses
    <3>3. DumpRows'
      BY <1>1, <2>4, <2>5, Zenon DEF DumpInv, DumpRows, RowAt, Dumps!InRow
    <3> QED
      BY <3>1, <3>2, <3>3
  <2>7. DumpEnd' /\ DumpWords'
    <3>1. out[Len(out)] = Dumps!Newline
      BY <1>3, Zenon DEF DumpInv, DumpEnd
    <3>2. Dumps!WordsTogether'
      BY <1>1, <2>4, <2>5, Zenon DEF DumpInv, DumpWords, Dumps!WordsTogether, Dumps!Blank
    <3> QED
      BY <1>1, <2>4, <3>1, <3>2, Zenon DEF DumpEnd, DumpWords
  <2> QED
    BY <2>6, <2>7 DEF DumpInv
<1>4. CASE i % 16 # 0
  <2>1. PICK e : e = <<Dumps!Newline>>
    OBVIOUS
  <2>2. e \in Seq(Pieces) /\ Len(e) = 1 /\ e[1] = Dumps!Newline
    BY <1>2, <2>1
  <2>3. Dumps!LastNewline = e
    BY <1>4, <2>1, Zenon DEF Dumps!LastNewline
  <2>4. out' \in Seq(Pieces) /\ Follows(out', out, e)
    BY <1>1, <1>2, <2>2, <2>3, TwoParts, Zenon
  <2>5. PICK n \in Nat : n = Len(out) /\ n >= 2
    BY <1>1 DEF DumpType
  <2>6. Len(out') = n + 1
    BY <2>2, <2>4, <2>5 DEF Follows
  <2>7. DOMAIN out = 1 .. n /\ DOMAIN out' = 1 .. n + 1
    BY <1>2, <2>4, <2>5, <2>6, SequenceDomain, Zenon
  <2>8. \A k \in 1 .. n : out'[k] = out[k]
    BY <2>4, <2>5, Zenon DEF Follows
  <2>9. out'[n + 1] = Dumps!Newline
    <3>1. 1 \in 1 .. Len(e)
      BY <2>2
    <3> QED
      BY <2>2, <2>4, <2>5, <3>1, Zenon DEF Follows
  <2>10. out'[n + 1].kind = "newline"
    BY <2>9 DEF Dumps!Newline
  <2>11. Dumps!Bytes' = Dumps!Bytes /\ Dumps!Ends' = Dumps!Ends \cup {n + 1}
    BY <2>7, <2>8, <2>9, <2>10 DEF Dumps!Bytes, Dumps!Ends
  <2>12. /\ \A a \in Dumps!Ends : a \in 1 .. n
         /\ \A k \in Dumps!Bytes : k \in 1 .. n
    BY <1>1, <2>5, NoNewlines
  <2>13. n \notin Dumps!Ends
    <3>1. PICK a \in Dumps!Ends \ {n} : Dumps!InRow(a, n)
      BY <1>1, <1>4, <2>5, Zenon DEF DumpInv, DumpEnd
    <3>2. n \in a + 1 .. n
      BY <2>12, <3>1
    <3> QED
      BY <3>1, <3>2, Zenon DEF Dumps!InRow
  <2>14. DumpType'
    <3>1. out'[1] = out[1] /\ out'[2] = out[2] /\ Len(out') >= 2
      BY <2>5, <2>6, <2>8, SMTT(30)
    <3>2. Pieces' = Pieces
      BY <1>1, Zenon DEF Pieces
    <3> QED
      BY <1>1, <2>4, <3>1, <3>2, Zenon DEF DumpType
  <2>15. DumpPlaces'
    <3>1. \A k \in Dumps!Bytes : out'[k] = out[k]
      BY <2>8, <2>12, Zenon
    <3>2. i' = i /\ Dumps!Bytes' = Dumps!Bytes /\ DumpPlaces
      BY <1>1, <2>11, Zenon DEF DumpInv
    <3>3. \A place \in 0 .. i - 1 : \E k \in Dumps!Bytes : out'[k].place = place
      BY <3>1, <3>2, Zenon DEF DumpPlaces
    <3>4. \A k \in Dumps!Bytes : out'[k].place \in 0 .. i - 1
      BY <3>1, <3>2, Zenon DEF DumpPlaces
    <3>5. \A j, k \in Dumps!Bytes : j < k => out'[j].place < out'[k].place
      BY <3>1, <3>2, Zenon DEF DumpPlaces
    <3> QED
      BY <3>2, <3>3, <3>4, <3>5, Zenon DEF DumpPlaces
  <2>16. DumpAddresses'
    <3>1. \A k \in 1 .. n + 1 : out'[k].kind = "address" => k \in 1 .. n
      BY <2>10
    <3> QED
      BY <2>7, <2>8, <2>11, <3>1, Zenon DEF DumpInv, DumpAddresses
  <2>17. DumpRows'
    <3>1. SUFFICES ASSUME NEW a \in Dumps!Ends
                   PROVE  RowAt(a)'
      BY <2>6, <2>11, Zenon DEF DumpRows
    <3>2. RowAt(a)
      BY <2>5, <2>13, Zenon DEF DumpInv, DumpRows
    <3>3. a + 3 \in Dumps!Bytes /\ a + 1 \in 1 .. n /\ a + 3 \in 1 .. n
      BY <2>12, <3>2 DEF RowAt
    <3>4. out'[a + 1] = out[a + 1] /\ out'[a + 3] = out[a + 3] /\ Digits' = Digits
      BY <1>1, <2>8, <3>3 DEF Digits
    <3>5. ASSUME NEW k \in Dumps!Bytes
          PROVE  (Dumps!InRow(a, k)' <=> Dumps!InRow(a, k)) /\ out'[k] = out[k]
      <4>1. \A j \in a + 1 .. k : j \in Dumps!Ends' <=> j \in Dumps!Ends
        BY <2>11, <2>12
      <4> QED
        BY <2>8, <2>12, <4>1 DEF Dumps!InRow
    <3> QED
      BY <1>1, <2>11, <3>2, <3>3, <3>4, <3>5, Zenon DEF RowAt
  <2>18. DumpEnd'
    BY <1>1, <2>6, <2>9, Zenon DEF DumpEnd
  <2>19. DumpWords'
    <3>1. ASSUME NEW j \in 1 .. n + 1, NEW k \in 1 .. n + 1, j < k, out'[k] = Dumps!Blank,
                 out'[j].kind \in {"tab", "blank"}, \A l \in j + 1 .. k - 1 : l \in Dumps!Bytes
          PROVE  /\ k - j - 1 = IF vm.is_swap THEN 4 ELSE 1
                 /\ vm.is_swap => out'[j + 1].place % 4 = 0
      <4>1. k # n + 1
        BY <2>10, <3>1 DEF Dumps!Blank
      <4>2. k \in 1 .. n /\ j \in 1 .. n /\ j + 1 \in 1 .. n
        BY <3>1, <4>1
      <4>3. out'[k] = out[k] /\ out'[j] = out[j] /\ out'[j + 1] = out[j + 1]
        BY <2>8, <4>2
      <4> QED
        BY <2>7, <3>1, <4>2, <4>3, Zenon DEF DumpInv, DumpWords, Dumps!WordsTogether
    <3>2. Dumps!WordsTogether'
      BY <1>1, <2>7, <2>11, <3>1, Zenon DEF Dumps!WordsTogether, Dumps!Blank
    <3> QED
      BY <1>1, <3>2, Zenon DEF DumpWords
  <2> QED
    BY <2>14, <2>15, <2>16, <2>17, <2>18, <2>19 DEF DumpInv
<1> QED
  BY <1>3, <1>4

LEMMA DumpBegins ==
  ASSUME Dumps!Init
  PROVE  DumpInv
<1>1. /\ vm \in [is_64 : BOOLEAN, is_swap : BOOLEAN, cpu : Cpus] /\ addr \in Nat /\ size \in Nat
      /\ i = 0 /\ done = FALSE /\ out = <<Dumps!Name(Dumps!get_cpu(vm.cpu)), Dumps!Newline>>
  BY FileBytesAssumption DEF Dumps!Init
<1>2. PICK x \in Pieces : x = Dumps!Name(Dumps!get_cpu(vm.cpu))
  BY DEF Pieces
<1>3. PICK y \in Pieces : y = Dumps!Newline
  BY DEF Pieces, Dumps!Newline
<1>4. out = <<x, y>>
  BY <1>1, <1>2, <1>3, Zenon
<1>5. out \in Seq(Pieces) /\ Len(out) = 2 /\ DOMAIN out = 1 .. 2 /\ out[1] = x /\ out[2] = y
  BY <1>4
<1>6. x.kind = "name" /\ y.kind = "newline"
  BY <1>2, <1>3 DEF Dumps!Name, Dumps!Newline
<1>7. \A k \in 1 .. 2 : k = 1 \/ k = 2
  OBVIOUS
<1>8. Dumps!Bytes = {} /\ Dumps!Ends = {2}
  BY <1>3, <1>5, <1>6, <1>7 DEF Dumps!Bytes, Dumps!Ends
<1>9. i % 16 = 0 /\ 0 .. i - 1 = {}
  BY <1>1
<1>10. DumpType
  <2>1. out \in Seq(Pieces) /\ Len(out) >= 2
    BY <1>5
  <2>2. done \in BOOLEAN /\ (done => i = size)
    BY <1>1, Zenon
  <2>3. i \in 0 .. size
    BY <1>1
  <2> QED
    BY <1>1, <1>2, <1>3, <1>5, <2>1, <2>2, <2>3, Zenon DEF DumpType
<1>11. DumpPlaces
  BY <1>8, <1>9 DEF DumpPlaces
<1>12. DumpAddresses /\ DumpRows
  BY <1>5, <1>6, <1>7, <1>8 DEF DumpAddresses, DumpRows
<1>13. DumpEnd
  BY <1>3, <1>5, <1>9 DEF DumpEnd
<1>14. DumpWords
  <2>1. Dumps!WordsTogether
    BY <1>3, <1>5, <1>6, <1>7 DEF Dumps!WordsTogether
  <2>2. PICK z : z = Pending
    OBVIOUS
  <2>3. z = 0
    BY <1>1, <2>2 DEF Pending
  <2>4. \A c \in 1 .. z : out[Len(out) + 1 - c] = Dumps!ByteAt(i - c)
    BY <2>3
  <2> QED
    BY <1>9, <2>1, <2>2, <2>4, Zenon DEF DumpWords
<1> QED
  BY <1>10, <1>11, <1>12, <1>13, <1>14 DEF DumpInv

(* The type whose name `text` is.                                          *)
NumberOf(text) ==
  CASE text = "any" -> -1 [] text = "x86_64" -> 16777223 [] text = "ppc64" -> 16777234
    [] text = "arm64" -> 16777228 [] text = "vax" -> 1 [] text = "romp" -> 2
    [] text = "ns32032" -> 4 [] text = "ns32332" -> 5 [] text = "i386" -> 7
    [] text = "mips" -> 8 [] text = "ns32532" -> 9 [] text = "hppa" -> 11
    [] text = "arm" -> 12 [] text = "mc88000" -> 13 [] text = "sparc" -> 14
    [] text = "i860" -> 15 [] text = "i860_little" -> 16 [] text = "rs6000" -> 17
    [] text = "ppc" -> 18

(* The name of a type that has a meaning tells its number.                 *)
CpuTold(cpu) ==
  /\ cpu \in Dumps!KnownCpus <=> Dumps!get_cpu(cpu) \notin {"", "unknown"}
  /\ cpu \in Dumps!KnownCpus => NumberOf(Dumps!get_cpu(cpu)) = cpu

LEMMA TableTold == ASSUME NEW cpu \in 1 .. 18 PROVE CpuTold(cpu)
<1> USE DEF Dumps!get_cpu, Dumps!TableEntry, Dumps!names, Dumps!KnownCpus, NumberOf, Dumps!Abi64,
        Dumps!CPU_TYPE_ANY, Dumps!CPU_TYPE_X86_64, Dumps!CPU_TYPE_ARM64, Dumps!CPU_TYPE_POWERPC64, CpuTold
<1>1. CASE cpu = 1  BY <1>1, SMTT(30)
<1>2. CASE cpu = 2  BY <1>2, SMTT(30)
<1>3. CASE cpu = 3  BY <1>3, SMTT(30)
<1>4. CASE cpu = 4  BY <1>4, SMTT(30)
<1>5. CASE cpu = 5  BY <1>5, SMTT(30)
<1>6. CASE cpu = 6  BY <1>6, SMTT(30)
<1>7. CASE cpu = 7  BY <1>7, SMTT(30)
<1>8. CASE cpu = 8  BY <1>8, SMTT(30)
<1>9. CASE cpu = 9  BY <1>9, SMTT(30)
<1>10. CASE cpu = 10  BY <1>10, SMTT(30)
<1>11. CASE cpu = 11  BY <1>11, SMTT(30)
<1>12. CASE cpu = 12  BY <1>12, SMTT(30)
<1>13. CASE cpu = 13  BY <1>13, SMTT(30)
<1>14. CASE cpu = 14  BY <1>14, SMTT(30)
<1>15. CASE cpu = 15  BY <1>15, SMTT(30)
<1>16. CASE cpu = 16  BY <1>16, SMTT(30)
<1>17. CASE cpu = 17  BY <1>17, SMTT(30)
<1>18. CASE cpu = 18  BY <1>18, SMTT(30)
<1> HIDE DEF Dumps!get_cpu, Dumps!TableEntry, Dumps!names, Dumps!KnownCpus, NumberOf, Dumps!Abi64,
        Dumps!CPU_TYPE_ANY, Dumps!CPU_TYPE_X86_64, Dumps!CPU_TYPE_ARM64, Dumps!CPU_TYPE_POWERPC64, CpuTold
<1> QED
  BY <1>1, <1>2, <1>3, <1>4, <1>5, <1>6, <1>7, <1>8, <1>9,
     <1>10, <1>11, <1>12, <1>13, <1>14, <1>15, <1>16, <1>17, <1>18, SMTT(30)

LEMMA NamesTold == ASSUME NEW cpu \in Int PROVE CpuTold(cpu)
<1>1. CASE cpu \in 1 .. 18
  BY <1>1, TableTold
<1> USE DEF Dumps!get_cpu, Dumps!TableEntry, Dumps!names, Dumps!KnownCpus, NumberOf, Dumps!Abi64,
        Dumps!CPU_TYPE_ANY, Dumps!CPU_TYPE_X86_64, Dumps!CPU_TYPE_ARM64, Dumps!CPU_TYPE_POWERPC64, CpuTold
<1>2. CASE cpu = Dumps!CPU_TYPE_ANY  BY <1>2, SMTT(30)
<1>3. CASE cpu = Dumps!CPU_TYPE_X86_64  BY <1>3, SMTT(30)
<1>4. CASE cpu = Dumps!CPU_TYPE_POWERPC64  BY <1>4, SMTT(30)
<1>5. CASE cpu = Dumps!CPU_TYPE_ARM64  BY <1>5, SMTT(30)
<1> HIDE DEF Dumps!get_cpu, Dumps!TableEntry, Dumps!names, Dumps!KnownCpus, NumberOf, Dumps!Abi64,
        Dumps!CPU_TYPE_ANY, Dumps!CPU_TYPE_X86_64, Dumps!CPU_TYPE_ARM64, Dumps!CPU_TYPE_POWERPC64, CpuTold
<1>6. CASE cpu \notin 1 .. 18 /\ cpu # Dumps!CPU_TYPE_ANY /\ cpu # Dumps!CPU_TYPE_X86_64
             /\ cpu # Dumps!CPU_TYPE_POWERPC64 /\ cpu # Dumps!CPU_TYPE_ARM64
  BY <1>6, SMTT(30) DEF Dumps!get_cpu, Dumps!KnownCpus, CpuTold
<1> QED
  BY <1>1, <1>2, <1>3, <1>4, <1>5, <1>6, Zenon

LEMMA DumpKept == (part = "dump" => DumpInv) /\ [Next]_vars => (part = "dump" => DumpInv)'
<1> SUFFICES ASSUME part = "dump" => DumpInv, [Next]_vars, (part = "dump")'
             PROVE  DumpInv'
  OBVIOUS
<1>1. CASE UNCHANGED vars
  <2>1. UNCHANGED <<part, vm, out, addr, size, i, done>>
    BY <1>1 DEF vars
  <2>2. DumpInv
    BY <2>1
  <2>3. Dumps!Bytes' = Dumps!Bytes /\ Dumps!Ends' = Dumps!Ends /\ Digits' = Digits
        /\ Pending' = Pending /\ Pieces' = Pieces
    BY <2>1, Zenon DEF Dumps!Bytes, Dumps!Ends, Digits, Pending, Pieces
  <2>4. DumpType'
    BY <2>1, <2>2, <2>3, Zenon DEF DumpInv, DumpType
  <2>5. DumpPlaces' /\ DumpAddresses'
    BY <2>1, <2>2, <2>3, Zenon DEF DumpInv, DumpPlaces, DumpAddresses
  <2>6. \A a : RowAt(a) => RowAt(a)'
    BY <2>1, <2>3, Zenon DEF RowAt, Dumps!InRow
  <2>7. DumpRows'
    BY <2>1, <2>2, <2>3, <2>6, Zenon DEF DumpInv, DumpRows
  <2>8. DumpEnd'
    BY <2>1, <2>2, <2>3, Zenon DEF DumpInv, DumpEnd, Dumps!InRow
  <2>9. Dumps!WordsTogether => Dumps!WordsTogether'
    BY <2>1, <2>3, Zenon DEF Dumps!WordsTogether, Dumps!Blank
  <2>10. DumpWords'
    BY <2>1, <2>2, <2>3, <2>9, Zenon DEF DumpInv, DumpWords
  <2> QED
    BY <2>4, <2>5, <2>7, <2>8, <2>10, Zenon DEF DumpInv
<1>2. CASE PrintDump
  <2>1. DumpInv
    BY <1>2 DEF PrintDump
  <2>2. CASE Dumps!DispByte
    <3>1. DumpType' /\ DumpPlaces'
      BY <2>1, <2>2, TypeStep, PlacesStep DEF DumpInv
    <3>2. DumpAddresses' /\ DumpRows' /\ DumpEnd' /\ DumpWords'
      BY <2>1, <2>2, AddressesStep, RowsStep, WordsStep DEF DumpInv
    <3> QED
      BY <3>1, <3>2 DEF DumpInv
  <2>3. CASE Dumps!EndData
    BY <2>1, <2>3, EndStep
  <2> QED
    BY <1>2, <2>2, <2>3 DEF PrintDump, Dumps!Next
<1>3. CASE ReadStructure \/ ReadMember
  BY <1>3 DEF ReadStructure, ReadMember
<1> QED
  BY <1>1, <1>2, <1>3 DEF Next

LEMMA DumpTold ==
  ASSUME DumpInv
  PROVE  Dumps!DumpReadsBack
<1>1. DumpType /\ DumpPlaces /\ DumpAddresses /\ DumpRows /\ DumpEnd /\ DumpWords
  BY DEF DumpInv
<1>2. Dumps!ArchitectureToldApart
  <2>1. out[1].text = Dumps!get_cpu(vm.cpu) /\ vm.cpu \in Int
    <3>1. \A text : Dumps!Name(text).text = text
      BY DEF Dumps!Name
    <3>2. out[1] = Dumps!Name(Dumps!get_cpu(vm.cpu)) /\ vm \in [is_64 : BOOLEAN, is_swap : BOOLEAN, cpu : Cpus]
      BY <1>1, Zenon DEF DumpType
    <3>3. out[1].text = Dumps!get_cpu(vm.cpu)
      BY <3>1, <3>2, Zenon
    <3>4. vm.cpu \in Int
      BY <3>2, FileBytesAssumption
    <3> QED
      BY <3>3, <3>4
  <2>2. \A cpu \in Int :
          /\ cpu \in Dumps!KnownCpus <=> Dumps!get_cpu(cpu) \notin {"", "unknown"}
          /\ cpu \in Dumps!KnownCpus => NumberOf(Dumps!get_cpu(cpu)) = cpu
    BY NamesTold, Zenon DEF CpuTold
  <2>3. \A cpu \in Cpus : cpu \in Int
    BY FileBytesAssumption
  <2> QED
    BY <2>1, <2>2, <2>3, Zenon DEF Dumps!ArchitectureToldApart
<1>3. ASSUME done
      PROVE  Dumps!ReadsBack
  <2>1. i = size
    BY <1>1, <1>3 DEF DumpType
  <2>2. Dumps!EveryByteOnce
    BY <1>1, <2>1, Zenon DEF DumpPlaces, Dumps!EveryByteOnce
  <2>3. out[Len(out)] = Dumps!Newline
    BY <1>1, <1>3, Zenon DEF DumpEnd
  <2>4. ASSUME NEW a \in Dumps!Ends \ {Len(out)}
        PROVE  /\ a + 3 \in Dumps!Bytes
               /\ out[a + 1] = Dumps!Address((addr + out[a + 3].place) % Word64, out[3].digits)
               /\ \A k \in Dumps!Bytes :
                    Dumps!InRow(a, k) <=> out[k].place \in out[a + 3].place .. out[a + 3].place + 15
    <3>1. RowAt(a)
      BY <1>1 DEF DumpRows
    <3>2. 2 \in Dumps!Ends /\ 2 # Len(out)
      <4>1. /\ a + 3 \in 1 .. Len(out) /\ a \in 1 .. Len(out) /\ 2 \in Dumps!Ends
        BY <1>1, <3>1, NoNewlines DEF RowAt
      <4>2. PICK n \in Nat : n = Len(out)
        BY <1>1, LenProperties, Zenon DEF DumpType
      <4>3. n # 2
        BY <4>1, <4>2
      <4> QED
        BY <4>1, <4>2, <4>3
    <3>3. RowAt(2)
      BY <1>1, <3>2, Zenon DEF DumpRows
    <3>4. out[3].digits = Digits
      BY <3>3 DEF RowAt, Dumps!Address
    <3> QED
      BY <3>1, <3>4, Zenon DEF RowAt
  <2>5. Dumps!RowsBegin
    BY <1>1, <2>4, Zenon DEF Dumps!RowsBegin, DumpAddresses
  <2> QED
    BY <2>2, <2>3, <2>5, Zenon DEF Dumps!ReadsBack
<1> QED
  BY <1>1, <1>2, <1>3, Zenon DEF Dumps!DumpReadsBack, DumpWords

(* For sections of every size at every address, in files of both byte      *)
(* orders and both widths: a dump gives back each byte once, in its row    *)
(* and under its address, words stay whole, and its heading tells the      *)
(* types of processor apart (disp_data, get_cpu).                          *)
THEOREM DumpRead == Spec => []DumpReadsBack
<1>1. Init => (part = "dump" => DumpInv)
  <2> SUFFICES ASSUME Init, part = "dump"
               PROVE  DumpInv
    OBVIOUS
  <2>1. Dumps!Init
    BY DEF Init
  <2> QED
    BY <2>1, DumpBegins
<1>2. (part = "dump" => DumpInv) => DumpReadsBack
  BY DumpTold DEF DumpReadsBack
<1> QED
  BY <1>1, <1>2, DumpKept, PTL DEF Spec
-----------------------------------------------------------------------------
(* The headers of archive members.  The two loops over digits, that of     *)
(* ft_pure_atoi in 32 bits and the decimal reading, are compared place by  *)
(* place; every field of the mapping is found where the header has it.     *)
(* A set of numbers with 0 and the successor of each of its members.       *)
LEMMA SetInduction ==
  ASSUME NEW T, 0 \in T, \A n \in Nat : n \in T => n + 1 \in T
  PROVE  \A n \in Nat : n \in T
<1> SUFFICES ASSUME NEW m \in Nat, m \notin T PROVE FALSE
  OBVIOUS
<1> DEFINE U == {k \in Nat : k \notin T}
<1>0. U \subseteq Nat /\ U # {}
  OBVIOUS
<1>1. PICK x \in U : \A y \in U : x <= y
  <2> HIDE DEF U
  <2> QED
    BY <1>0, LeastOf
<1>2. x # 0 /\ x - 1 \in Nat /\ x - 1 \notin U
  BY <1>1
<1>3. x - 1 \in T /\ x = (x - 1) + 1 /\ x \notin T
  BY <1>2
<1> QED
  BY <1>2, <1>3

(* The least element of a set of numbers.                                  *)
LEMMA MinIs ==
  ASSUME NEW T, T \subseteq Nat, NEW n \in T, \A y \in T : n <= y
  PROVE  Members!Min(T) = n
<1>1. \A x \in T : (\A y \in T : x <= y) => x = n
  BY SMT
<1>2. (CHOOSE x \in T : \A y \in T : x <= y) = n
  BY <1>1
<1> QED
  BY <1>2 DEF Members!Min

LEMMA MinOfTwo ==
  ASSUME NEW x \in Nat, NEW y \in Nat
  PROVE  /\ x <= y => Members!Min({x, y}) = x
         /\ y <= x => Members!Min({x, y}) = y
<1>1. ASSUME x <= y
      PROVE  Members!Min({x, y}) = x
  BY <1>1, MinIs
<1>2. ASSUME y <= x
      PROVE  Members!Min({x, y}) = y
  BY <1>2, MinIs
<1> QED
  BY <1>1, <1>2

LEMMA Beginning ==
  ASSUME NEW S, NEW x \in Seq(S), NEW n \in Nat, n <= Len(x)
  PROVE  /\ SubSeq(x, 1, n) \in Seq(S) /\ Len(SubSeq(x, 1, n)) = n
         /\ \A k \in 1 .. n : SubSeq(x, 1, n)[k] = x[k] /\ x[k] \in S
OBVIOUS

(* h holds the words of ft_pure_atoi over the first n characters of t from *)
(* the place s on.                                                         *)
AtoiLoop(h, t, s, n) ==
  h = [k \in 0 .. n |-> IF k = 0 THEN <<0, 0>> ELSE Members!Shifted(h[k - 1], t[s + k - 1])]

(* There is such a function, for every n.                                  *)
LEMMA AtoiDefined ==
  ASSUME NEW t, NEW s \in Nat
  PROVE  \A n \in Nat : \E h : AtoiLoop(h, t, s, n)
<1> DEFINE T == {n \in Nat : \E h : AtoiLoop(h, t, s, n)}
<1>1. 0 \in T
  <2>1. AtoiLoop([k \in 0 .. 0 |-> <<0, 0>>], t, s, 0)
    BY DEF AtoiLoop
  <2> QED
    BY <2>1
<1>2. ASSUME NEW n \in Nat, n \in T
      PROVE  n + 1 \in T
  <2>1. PICK f : AtoiLoop(f, t, s, n)
    BY <1>2
  <2> DEFINE g == [k \in 0 .. n + 1 |-> IF k <= n THEN f[k] ELSE Members!Shifted(f[n], t[s + n])]
  <2>2. \A k \in 0 .. n + 1 :
          g[k] = IF k = 0 THEN <<0, 0>> ELSE Members!Shifted(g[k - 1], t[s + k - 1])
    <3> TAKE k \in 0 .. n + 1
    <3>1. CASE k = n + 1
      <4>1. g[k] = Members!Shifted(f[n], t[s + n]) /\ g[k - 1] = f[n] /\ k # 0 /\ s + k - 1 = s + n
        BY <3>1
      <4> QED
        BY <4>1
    <3>2. CASE k <= n /\ k # 0
      <4>1. g[k] = f[k] /\ g[k - 1] = f[k - 1] /\ k \in 0 .. n
        BY <3>2
      <4>2. f[k] = Members!Shifted(f[k - 1], t[s + k - 1])
        BY <2>1, <3>2, <4>1 DEF AtoiLoop
      <4> QED
        BY <4>1, <4>2, <3>2
    <3>3. CASE k = 0
      BY <2>1, <3>3 DEF AtoiLoop
    <3> QED
      BY <3>1, <3>2, <3>3
  <2>3. AtoiLoop(g, t, s, n + 1)
    BY <2>2 DEF AtoiLoop
  <2> HIDE DEF g
  <2> QED
    BY <2>3
<1> HIDE DEF T
<1>3. \A n \in Nat : n \in T
  BY <1>1, <1>2, SetInduction
<1> QED
  BY <1>3 DEF T

(* ft_pure_atoi is that loop, up to the first place where it stops.        *)
LEMMA AtoiIsLoop ==
  ASSUME NEW t \in Seq(Nat), NEW s \in Nat, NEW n \in 0 .. Len(t) - s,
         \A k \in 0 .. n - 1 : Members!ft_isdigit(t[s + k]) /\ Members!MoreDigits(k),
         ~(Members!ft_isdigit(t[s + n]) /\ Members!MoreDigits(n))
  PROVE  \E h : AtoiLoop(h, t, s, n) /\ Members!ft_pure_atoi(t, s) = h[n]
<1> DEFINE Stop(k) == ~(Members!ft_isdigit(t[s + k]) /\ Members!MoreDigits(k))
           T == {k \in 0 .. Len(t) - s : Stop(k)}
<1>1. Members!Min(T) = n
  <2>1. T \subseteq Nat /\ n \in T
    OBVIOUS
  <2>2. \A k \in T : n <= k
    <3> SUFFICES ASSUME NEW k \in T, k < n PROVE FALSE
      BY <2>1
    <3>1. k \in 0 .. n - 1 /\ Stop(k)
      BY <2>1
    <3> QED
      BY <3>1
  <2> HIDE DEF T
  <2> QED
    BY <2>1, <2>2, MinIs
<1>2. n \in Nat
  OBVIOUS
<1>3. \E h : AtoiLoop(h, t, s, n)
  <2>1. \A k \in Nat : \E h : AtoiLoop(h, t, s, k)
    BY AtoiDefined
  <2> QED
    BY <1>2, <2>1
<1>4. PICK value : value = CHOOSE h : AtoiLoop(h, t, s, n)
  OBVIOUS
<1>5. AtoiLoop(value, t, s, n)
  BY <1>3, <1>4
<1>6. Members!ft_pure_atoi(t, s) = value[n]
  BY <1>1, <1>4 DEF Members!ft_pure_atoi, AtoiLoop
<1> QED
  BY <1>5, <1>6

(* The halves of a word, and the number of words.                          *)
Halves == {n \in Nat : n < 65536}
WordEnd == 4294967296

(* One more digit, in the halves of a word: value * 10 + c - '0', when it  *)
(* fits in the word.                                                       *)
LEMMA ShiftedIs ==
  ASSUME NEW w, w[1] \in Halves, w[2] \in Halves, NEW c \in Nat, Members!ft_isdigit(c)
  PROVE  /\ Members!Shifted(w, c)[1] \in Halves /\ Members!Shifted(w, c)[2] \in Halves
         /\ 10 * Members!Value(w) + c - 48 < WordEnd
              => Members!Value(Members!Shifted(w, c)) = 10 * Members!Value(w) + c - 48
<1>1. PICK a \in Halves, b \in Halves : a = w[1] /\ b = w[2]
  OBVIOUS
<1>2. a \in Nat /\ b \in Nat /\ a <= 65535 /\ b <= 65535
  BY DEF Halves
<1>3. PICK low \in Nat : low = b * 10 + c - 48
  BY <1>2 DEF Members!ft_isdigit
<1>4. PICK q \in Nat, r \in Nat : q = low \div 65536 /\ r = low % 65536
  BY <1>3
<1>5. low = 65536 * q + r /\ r < 65536
  BY <1>3, <1>4
<1>6. PICK hi \in Nat : hi = (a * 10 + q) % 65536
  BY <1>2, <1>4
<1>7. hi <= 65535
  BY <1>2, <1>4, <1>6
<1>8. Members!Shifted(w, c) = <<hi, r>>
  BY <1>1, <1>3, <1>4, <1>6 DEF Members!Shifted, Members!Half
<1>9. ASSUME 10 * (a * 65536 + b) + c - 48 < WordEnd
      PROVE  hi * 65536 + r = 10 * (a * 65536 + b) + c - 48
  <2>1. c \in 48 .. 57
    BY DEF Members!ft_isdigit
  <2>2. a * 10 + q < 65536
    BY <1>2, <1>3, <1>5, <1>9, <2>1, SMT DEF WordEnd
  <2>3. hi = a * 10 + q
    BY <1>2, <1>4, <1>6, <2>2
  <2> QED
    BY <1>2, <1>3, <1>5, <2>3
<1>10. Members!Value(w) = a * 65536 + b
  BY <1>1 DEF Members!Value, Members!Half
<1>11. Members!Value(<<hi, r>>) = hi * 65536 + r
  BY DEF Members!Value, Members!Half
<1>12. <<hi, r>>[1] \in Halves /\ <<hi, r>>[2] \in Halves
  BY <1>5, <1>7 DEF Halves
<1> QED
  BY <1>8, <1>9, <1>10, <1>11, <1>12

(* d holds the values of Decimal over the first n of the digits ds.        *)
DecimalLoop(d, ds, n) == d = [k \in 0 .. n |-> IF k = 0 THEN 0 ELSE 10 * d[k - 1] + ds[k] - 48]

LEMMA DecimalDefined ==
  ASSUME NEW ds
  PROVE  \A n \in Nat : \E d : DecimalLoop(d, ds, n)
<1> DEFINE T == {n \in Nat : \E d : DecimalLoop(d, ds, n)}
<1>1. 0 \in T
  <2>1. DecimalLoop([k \in 0 .. 0 |-> 0], ds, 0)
    BY DEF DecimalLoop
  <2> QED
    BY <2>1
<1>2. ASSUME NEW n \in Nat, n \in T
      PROVE  n + 1 \in T
  <2>1. PICK f : DecimalLoop(f, ds, n)
    BY <1>2
  <2> DEFINE g == [k \in 0 .. n + 1 |-> IF k <= n THEN f[k] ELSE 10 * f[n] + ds[n + 1] - 48]
  <2>2. \A k \in 0 .. n + 1 : g[k] = IF k = 0 THEN 0 ELSE 10 * g[k - 1] + ds[k] - 48
    <3> TAKE k \in 0 .. n + 1
    <3>1. CASE k = n + 1
      <4>1. g[k] = 10 * f[n] + ds[n + 1] - 48 /\ g[k - 1] = f[n] /\ k # 0
        BY <3>1
      <4> QED
        BY <3>1, <4>1
    <3>2. CASE k <= n /\ k # 0
      <4>1. g[k] = f[k] /\ g[k - 1] = f[k - 1] /\ k \in 0 .. n
        BY <3>2
      <4>2. f[k] = 10 * f[k - 1] + ds[k] - 48
        BY <2>1, <3>2, <4>1 DEF DecimalLoop
      <4> QED
        BY <4>1, <4>2, <3>2
    <3>3. CASE k = 0
      BY <2>1, <3>3 DEF DecimalLoop
    <3> QED
      BY <3>1, <3>2, <3>3
  <2>3. DecimalLoop(g, ds, n + 1)
    BY <2>2 DEF DecimalLoop
  <2> HIDE DEF g
  <2> QED
    BY <2>3
<1> HIDE DEF T
<1>3. \A n \in Nat : n \in T
  BY <1>1, <1>2, SetInduction
<1> QED
  BY <1>3 DEF T

LEMMA DecimalIsLoop ==
  ASSUME NEW ds \in Seq(Nat)
  PROVE  \E d : DecimalLoop(d, ds, Len(ds)) /\ Members!Decimal(ds) = d[Len(ds)]
<1>1. \E d : DecimalLoop(d, ds, Len(ds))
  <2>1. Len(ds) \in Nat
    OBVIOUS
  <2>2. \A n \in Nat : \E d : DecimalLoop(d, ds, n)
    BY DecimalDefined
  <2> QED
    BY <2>1, <2>2
<1>2. PICK f : f = CHOOSE d : DecimalLoop(d, ds, Len(ds))
  OBVIOUS
<1>3. DecimalLoop(f, ds, Len(ds))
  BY <1>1, <1>2
<1>4. Members!Decimal(ds) = f[Len(ds)]
  BY <1>2 DEF Members!Decimal, DecimalLoop
<1> QED
  BY <1>3, <1>4

(* A number of k digits, up to nine.                                       *)
OfDigits(k, v) ==
  /\ v \in Nat
  /\ \/ k = 0 /\ v < 1
     \/ k = 1 /\ v < 10
     \/ k = 2 /\ v < 100
     \/ k = 3 /\ v < 1000
     \/ k = 4 /\ v < 10000
     \/ k = 5 /\ v < 100000
     \/ k = 6 /\ v < 1000000
     \/ k = 7 /\ v < 10000000
     \/ k = 8 /\ v < 100000000
     \/ k = 9 /\ v < 1000000000

LEMMA OneDigitMore ==
  ASSUME NEW k \in Nat, k <= 8, NEW v, OfDigits(k, v), NEW c \in Nat, Members!ft_isdigit(c)
  PROVE  OfDigits(k + 1, 10 * v + c - 48) /\ 10 * v + c - 48 < WordEnd
BY SMT DEF OfDigits, WordEnd, Members!ft_isdigit

(* Up to nine digits the word and the decimal number agree.                *)
Agrees(k, w, v) ==
  /\ w[1] \in Halves /\ w[2] \in Halves
  /\ k <= 9 => OfDigits(k, v) /\ Members!Value(w) = v

LEMMA AgreesFirst == Agrees(0, <<0, 0>>, 0)
<1>1. PICK w : w = <<0, 0>>
  OBVIOUS
<1>2. w[1] = 0 /\ w[2] = 0
  BY <1>1
<1>3. OfDigits(0, 0)
  BY SMT DEF OfDigits
<1>4. Members!Value(w) = 0
  BY <1>2 DEF Members!Value, Members!Half
<1>5. 0 \in Halves
  BY DEF Halves
<1> QED
  BY <1>1, <1>2, <1>3, <1>4, <1>5, Zenon DEF Agrees

LEMMA AgreesNext ==
  ASSUME NEW k \in Nat, NEW w, NEW v, Agrees(k, w, v), NEW c \in Nat, Members!ft_isdigit(c)
  PROVE  Agrees(k + 1, Members!Shifted(w, c), 10 * v + c - 48)
<1>1. PICK u : u = Members!Shifted(w, c)
  OBVIOUS
<1>2. w[1] \in Halves /\ w[2] \in Halves
  BY DEF Agrees
<1>3. /\ u[1] \in Halves /\ u[2] \in Halves
      /\ 10 * Members!Value(w) + c - 48 < WordEnd => Members!Value(u) = 10 * Members!Value(w) + c - 48
  BY <1>1, <1>2, ShiftedIs
<1>4. ASSUME k + 1 <= 9
      PROVE  OfDigits(k + 1, 10 * v + c - 48) /\ Members!Value(u) = 10 * v + c - 48
  <2>1. k <= 8 /\ k <= 9
    BY <1>4
  <2>2. OfDigits(k, v) /\ Members!Value(w) = v
    BY <2>1 DEF Agrees
  <2>3. OfDigits(k + 1, 10 * v + c - 48) /\ 10 * v + c - 48 < WordEnd
    BY <2>1, <2>2, OneDigitMore
  <2> QED
    BY <1>3, <2>2, <2>3
<1> QED
  BY <1>1, <1>3, <1>4, Zenon DEF Agrees

LEMMA LoopsAgree ==
  ASSUME NEW t \in Seq(Nat), NEW s \in Nat, NEW n \in Nat, NEW h, AtoiLoop(h, t, s, n),
         NEW d, NEW ds \in Seq(Nat), NEW len \in Nat, DecimalLoop(d, ds, len), n <= len,
         \A k \in 1 .. n : ds[k] \in Nat /\ ds[k] = t[s + k - 1] /\ Members!ft_isdigit(ds[k])
  PROVE  Agrees(n, h[n], d[n])
<1> DEFINE T == {k \in Nat : k <= n => Agrees(k, h[k], d[k])}
<1>1. 0 \in T
  <2>1. h[0] = <<0, 0>>
    BY DEF AtoiLoop
  <2>2. d[0] = 0
    BY DEF DecimalLoop
  <2> QED
    BY <2>1, <2>2, AgreesFirst
<1>2. ASSUME NEW k \in Nat, k \in T
      PROVE  k + 1 \in T
  <2> SUFFICES ASSUME k + 1 <= n
               PROVE  Agrees(k + 1, h[k + 1], d[k + 1])
    OBVIOUS
  <2>1. Agrees(k, h[k], d[k])
    BY <1>2
  <2>2. k + 1 \in 1 .. n /\ s + (k + 1) - 1 = s + k /\ (k + 1) - 1 = k
    OBVIOUS
  <2>3. PICK c : c = ds[k + 1]
    OBVIOUS
  <2>4. c \in Nat /\ c = t[s + k] /\ Members!ft_isdigit(c)
    BY <2>2, <2>3
  <2>5. h[k + 1] = Members!Shifted(h[k], c)
    <3>1. k + 1 \in 0 .. n /\ k + 1 # 0
      OBVIOUS
    <3>2. h[k + 1] = Members!Shifted(h[(k + 1) - 1], t[s + (k + 1) - 1])
      BY <3>1 DEF AtoiLoop
    <3> QED
      BY <2>2, <2>4, <3>2
  <2>6. d[k + 1] = 10 * d[k] + c - 48
    <3>1. k + 1 \in 0 .. len /\ k + 1 # 0
      OBVIOUS
    <3>2. d[k + 1] = 10 * d[(k + 1) - 1] + ds[k + 1] - 48
      BY <3>1 DEF DecimalLoop
    <3> QED
      BY <2>2, <2>3, <3>2
  <2>7. Agrees(k + 1, Members!Shifted(h[k], c), 10 * d[k] + c - 48)
    BY <2>1, <2>4, AgreesNext
  <2> QED
    BY <2>5, <2>6, <2>7
<1> HIDE DEF T
<1>3. \A k \in Nat : k \in T
  BY <1>1, <1>2, SetInduction
<1> QED
  BY <1>3 DEF T

(* The digits that begin a text: to its end or to a character that is none. *)
LEMMA DigitsBegin ==
  ASSUME NEW text \in Seq(Nat)
  PROVE  \E n \in 0 .. Len(text) :
           /\ \A k \in 1 .. n : Members!ft_isdigit(text[k])
           /\ n < Len(text) => ~Members!ft_isdigit(text[n + 1])
           /\ Members!LeadingDigits(text) = SubSeq(text, 1, n)
<1>1. PICK len \in Nat : len = Len(text) /\ DOMAIN text = 1 .. len
  OBVIOUS
<1> DEFINE T == {k - 1 : k \in {k \in DOMAIN text : ~Members!ft_isdigit(text[k])}} \cup {Len(text)}
<1>2. T \subseteq Nat /\ len \in T
  BY <1>1
<1>3. PICK n \in T : \A y \in T : n <= y
  <2> HIDE DEF T
  <2> QED
    BY <1>2, LeastOf
<1>4. Members!Min(T) = n
  <2> HIDE DEF T
  <2> QED
    BY <1>2, <1>3, MinIs
<1>5. n \in 0 .. Len(text)
  BY <1>1, <1>2, <1>3
<1>6. \A k \in 1 .. n : Members!ft_isdigit(text[k])
  <2> SUFFICES ASSUME NEW k \in 1 .. n, ~Members!ft_isdigit(text[k])
               PROVE  FALSE
    OBVIOUS
  <2>1. k \in DOMAIN text /\ k \in Nat
    BY <1>1, <1>5
  <2>2. k - 1 \in T
    BY <2>1
  <2>3. n <= k - 1
    BY <1>3, <2>2
  <2> QED
    BY <1>5, <2>1, <2>3
<1>7. n < Len(text) => ~Members!ft_isdigit(text[n + 1])
  <2> SUFFICES ASSUME n < Len(text)
               PROVE  ~Members!ft_isdigit(text[n + 1])
    OBVIOUS
  <2>1. PICK k \in DOMAIN text : ~Members!ft_isdigit(text[k]) /\ n = k - 1
    BY <1>1, <1>5
  <2>2. k = n + 1
    BY <1>1, <2>1
  <2> QED
    BY <2>1, <2>2
<1>8. Members!LeadingDigits(text) = SubSeq(text, 1, n)
  BY <1>4 DEF Members!LeadingDigits
<1> QED
  BY <1>5, <1>6, <1>7, <1>8

(* A field of m that some other character follows is read as the number    *)
(* its leading digits are.                                                 *)
LEMMA FieldNumber ==
  ASSUME NEW m \in Seq(Nat), NEW text \in Seq(Nat), NEW s \in Nat, s >= 1, s + Len(text) <= Len(m),
         \A k \in 1 .. Len(text) : m[s + k - 1] = text[k], ~Members!ft_isdigit(m[s + Len(text)])
  PROVE  /\ Members!ft_pure_atoi(m, s)[1] \in Halves /\ Members!ft_pure_atoi(m, s)[2] \in Halves
         /\ Len(Members!LeadingDigits(text)) <= 9
              => Members!Value(Members!ft_pure_atoi(m, s)) = Members!Decimal(Members!LeadingDigits(text))
<1>1. PICK n \in 0 .. Len(text) :
        /\ \A k \in 1 .. n : Members!ft_isdigit(text[k])
        /\ n < Len(text) => ~Members!ft_isdigit(text[n + 1])
        /\ Members!LeadingDigits(text) = SubSeq(text, 1, n)
  BY DigitsBegin
<1>2. PICK len \in Nat, all \in Nat : len = Len(text) /\ all = Len(m)
  OBVIOUS
<1>3. n \in Nat /\ n <= len /\ s + len <= all
  BY <1>1, <1>2
<1>4. PICK j \in Nat : j = IF n <= 10 THEN n ELSE 11
  BY <1>3
<1>5. j \in 0 .. Len(m) - s /\ j <= n /\ j <= 11 /\ (j = n \/ j = 11)
  BY <1>2, <1>3, <1>4
<1>6. \A k \in 0 .. j - 1 : Members!ft_isdigit(m[s + k]) /\ Members!MoreDigits(k)
  <2> TAKE k \in 0 .. j - 1
  <2>1. k + 1 \in 1 .. n /\ k + 1 \in 1 .. Len(text) /\ s + (k + 1) - 1 = s + k /\ k <= 10
    BY <1>2, <1>3, <1>4, <1>5, SMTT(30)
  <2>2. Members!ft_isdigit(text[k + 1])
    BY <1>1, <2>1
  <2>3. m[s + (k + 1) - 1] = text[k + 1]
    BY <2>1
  <2> QED
    BY <2>1, <2>2, <2>3 DEF Members!MoreDigits
<1>7. ~(Members!ft_isdigit(m[s + j]) /\ Members!MoreDigits(j))
  <2>1. CASE j = 11
    BY <2>1 DEF Members!MoreDigits
  <2>2. CASE j = n /\ n < len
    <3>1. n + 1 \in 1 .. Len(text) /\ s + (n + 1) - 1 = s + n
      BY <1>2, <1>3, <2>2
    <3>2. m[s + (n + 1) - 1] = text[n + 1]
      BY <3>1
    <3> QED
      BY <1>1, <1>2, <2>2, <3>1, <3>2
  <2>3. CASE j = n /\ n = len
    BY <1>2, <2>3
  <2> QED
    BY <1>3, <1>5, <2>1, <2>2, <2>3
<1>8. PICK h : AtoiLoop(h, m, s, j) /\ Members!ft_pure_atoi(m, s) = h[j]
  BY <1>5, <1>6, <1>7, AtoiIsLoop
<1>9. PICK ds : ds = SubSeq(text, 1, n)
  OBVIOUS
<1>10. ds \in Seq(Nat) /\ Len(ds) = n /\ \A k \in 1 .. n : ds[k] = text[k] /\ ds[k] \in Nat
  <2>1. n \in Nat /\ n <= Len(text)
    BY <1>2, <1>3
  <2>2. /\ SubSeq(text, 1, n) \in Seq(Nat) /\ Len(SubSeq(text, 1, n)) = n
        /\ \A k \in 1 .. n : SubSeq(text, 1, n)[k] = text[k] /\ text[k] \in Nat
    BY <2>1, Beginning, Zenon
  <2> QED
    BY <1>9, <2>2
<1>11. PICK d : DecimalLoop(d, ds, n) /\ Members!Decimal(ds) = d[n]
  BY <1>10, DecimalIsLoop
<1>12. Agrees(j, h[j], d[j])
  <2>1. \A k \in 1 .. j : ds[k] \in Nat /\ ds[k] = m[s + k - 1] /\ Members!ft_isdigit(ds[k])
    <3> TAKE k \in 1 .. j
    <3>1. k \in 1 .. n /\ k \in 1 .. Len(text)
      BY <1>2, <1>3, <1>5
    <3> QED
      BY <1>1, <1>10, <3>1
  <2>2. n \in Nat /\ j <= n /\ ds \in Seq(Nat) /\ AtoiLoop(h, m, s, j) /\ DecimalLoop(d, ds, n)
    BY <1>3, <1>5, <1>8, <1>10, <1>11
  <2> QED
    BY <2>1, <2>2, LoopsAgree, ZenonT(40)
<1>13. n <= 9 => j = n
  BY <1>3, <1>4
<1>14. Members!LeadingDigits(text) = ds
  BY <1>1, <1>9
<1> QED
  BY <1>5, <1>8, <1>10, <1>11, <1>12, <1>13, <1>14 DEF Agrees

(* There are no more digits than characters.                               *)
LEMMA FewDigits ==
  ASSUME NEW text \in Seq(Nat)
  PROVE  Len(Members!LeadingDigits(text)) <= Len(text)
<1>1. PICK n \in 0 .. Len(text) : Members!LeadingDigits(text) = SubSeq(text, 1, n)
  BY DigitsBegin
<1>2. n \in Nat /\ Len(text) \in Nat /\ n <= Len(text)
  OBVIOUS
<1>3. Len(SubSeq(text, 1, n)) = n
  BY <1>2
<1> QED
  BY <1>1, <1>2, <1>3
-----------------------------------------------------------------------------
(* Copies of names.                                                        *)
LEMMA Offset ==
  ASSUME NEW m, NEW at \in Nat, NEW len \in Nat, NEW k \in 1 .. len, NEW all \in Nat, at + len - 1 <= all,
         m[at + k - 1] = 0
  PROVE  k - 1 \in {j \in 0 .. all - at : m[at + j] = 0}
<1>1. k \in Nat /\ k >= 1 /\ k <= len
  OBVIOUS
<1>2. k - 1 \in 0 .. all - at /\ at + (k - 1) = at + k - 1
  BY <1>1
<1> QED
  BY <1>2

(* ft_strndupwhile takes a field up to its first NUL.                      *)
LEMMA NameCopied ==
  ASSUME NEW m \in Seq(Nat), NEW field \in Seq(Nat), NEW at \in Nat, at >= 1,
         at + Len(field) - 1 <= Len(m), \A k \in 1 .. Len(field) : m[at + k - 1] = field[k],
         NEW z \in 0 .. Len(m) - at, m[at + z] = 0
  PROVE  Members!ft_strndupwhile(m, at, Len(field)) = Members!BeforeNul(field)
<1>1. PICK len \in Nat, all \in Nat : len = Len(field) /\ all = Len(m) /\ DOMAIN field = 1 .. len
  OBVIOUS
<1>2. at + len - 1 <= all
  BY <1>1
<1>3. Members!Min({k \in 0 .. len : ~Members!isvalid(m[at + k]) \/ k >= len}) = len
  <2> DEFINE T == {k \in 0 .. len : ~Members!isvalid(m[at + k]) \/ k >= len}
  <2>1. T \subseteq Nat /\ len \in T
    OBVIOUS
  <2>2. \A k \in T : len <= k
    <3> SUFFICES ASSUME NEW k \in T, k < len
                 PROVE  FALSE
      BY <2>1
    <3>1. at + k \in 1 .. Len(m) /\ ~Members!isvalid(m[at + k])
      BY <1>1, <1>2
    <3>2. m[at + k] \in Nat
      BY <3>1
    <3> QED
      BY <3>1, <3>2 DEF Members!isvalid
  <2> HIDE DEF T
  <2>3. Members!Min(T) = len
    BY <2>1, <2>2, MinIs
  <2> QED
    BY <2>3 DEF T
<1> DEFINE Z == {k \in 0 .. Len(m) - at : m[at + k] = 0}
           N == {k \in DOMAIN field : field[k] = 0}
<1>4. Z \subseteq Nat /\ z \in Z
  OBVIOUS
<1>5. PICK first \in Z : \A k \in Z : first <= k
  <2> HIDE DEF Z
  <2> QED
    BY <1>4, LeastOf
<1>6. Members!ft_strlen(m, at) = first
  <2>1. Members!Min(Z) = first
    <3> HIDE DEF Z
    <3> QED
      BY <1>4, <1>5, MinIs
  <2> QED
    BY <2>1 DEF Members!ft_strlen
<1>7. first \in Nat /\ first \in 0 .. Len(m) - at /\ m[at + first] = 0
  BY <1>5
<1>8. /\ Members!ft_strndupwhile(m, at, len)
           = SubSeq(m, at, at + Members!Min({len, first}) - 1)
  BY <1>3, <1>6 DEF Members!ft_strndupwhile, Members!ft_strndup
<1>9. CASE first < len
  <2>1. first + 1 \in N
    <3>1. first + 1 \in 1 .. Len(field) /\ at + (first + 1) - 1 = at + first
      BY <1>1, <1>7, <1>9
    <3>2. m[at + (first + 1) - 1] = field[first + 1]
      BY <3>1
    <3> QED
      BY <1>1, <1>7, <3>1, <3>2
  <2>2. \A k \in N : first + 1 <= k
    <3> TAKE k \in N
    <3>1. k \in 1 .. Len(field) /\ field[k] = 0
      BY <1>1
    <3>2. m[at + k - 1] = 0
      BY <3>1
    <3>3. k - 1 \in Z
      BY <1>1, <1>2, <3>1, <3>2, Offset
    <3>4. first <= k - 1
      BY <1>5, <3>3
    <3> QED
      BY <1>7, <3>1, <3>4
  <2>3. N \subseteq Nat
    BY <1>1
  <2>4. Members!Min(N) = first + 1
    <3> HIDE DEF N
    <3> QED
      BY <2>1, <2>2, <2>3, MinIs
  <2>5. Members!BeforeNul(field) = SubSeq(field, 1, first)
    <3>1. N # {} /\ (first + 1) - 1 = first
      BY <1>7, <2>1
    <3> QED
      BY <2>4, <3>1 DEF Members!BeforeNul
  <2>6. Members!Min({len, first}) = first
    <3>1. first \in Nat /\ first <= len
      BY <1>7, <1>9
    <3> QED
      BY <3>1, MinOfTwo, Zenon
  <2>7. SubSeq(m, at, at + first - 1) = SubSeq(field, 1, first)
    BY <1>1, <1>2, <1>7, <1>9
  <2> QED
    BY <1>1, <1>8, <2>5, <2>6, <2>7
<1>10. CASE len <= first
  <2>1. N = {}
    <3> SUFFICES ASSUME NEW k \in N
                 PROVE  FALSE
      OBVIOUS
    <3>1. k \in 1 .. Len(field) /\ field[k] = 0
      BY <1>1
    <3>2. m[at + k - 1] = 0
      BY <3>1
    <3>3. k - 1 \in Z
      BY <1>1, <1>2, <3>1, <3>2, Offset
    <3>4. first <= k - 1
      BY <1>5, <3>3
    <3> QED
      BY <1>1, <1>7, <1>10, <3>1, <3>4
  <2>2. Members!BeforeNul(field) = field
    BY <2>1 DEF Members!BeforeNul
  <2>3. Members!Min({len, first}) = len
    BY <1>7, <1>10, MinOfTwo, Zenon
  <2>4. SubSeq(m, at, at + len - 1) = field
    BY <1>1, <1>2
  <2> QED
    BY <1>1, <1>8, <2>2, <2>3, <2>4
<1> QED
  BY <1>7, <1>9, <1>10
-----------------------------------------------------------------------------
(* The mapping, field by field, of any archive of the form of FileBytes.   *)
FileShape ==
  /\ file.name \in Seq(Nat) /\ Len(file.name) = 16
  /\ file.size \in Seq(Nat) /\ Len(file.size) = 8
  /\ file.end \in Seq(Nat) /\ Len(file.end) = 4
  /\ file.rest \in Seq(Nat) /\ \E k \in 1 .. Len(file.rest) : file.rest[k] = 0
  /\ file.window \in Nat /\ file.window <= 60 + Len(file.rest)

(* From the place at on, m has the first n characters of x.                *)
Shifts(m, x, at, n) == \A k \in 1 .. n : m[at + k] = x[k]

LEMMA ShiftsTwice ==
  ASSUME NEW m, NEW p, NEW x, NEW at \in Nat, NEW n \in Nat, NEW whole \in Nat,
         Shifts(m, p, 0, whole), Shifts(p, x, at, n), at + n <= whole
  PROVE  Shifts(m, x, at, n)
<1> SUFFICES ASSUME NEW k \in 1 .. n
             PROVE  m[at + k] = x[k]
  BY DEF Shifts
<1>1. at + k \in 1 .. whole /\ 0 + (at + k) = at + k
  OBVIOUS
<1>2. m[0 + (at + k)] = p[at + k]
  BY <1>1 DEF Shifts
<1>3. p[at + k] = x[k]
  BY DEF Shifts
<1> QED
  BY <1>1, <1>2, <1>3

(* The fields of the mapping m.                                            *)
Mapped(m) ==
  /\ m \in Seq(Nat) /\ Len(m) = 60 + Len(file.rest)
  /\ Shifts(m, file.name, 0, 16)
  /\ Shifts(m, [k \in 1 .. 32 |-> 32], 16, 32)
  /\ Shifts(m, file.size, 48, 8)
  /\ Shifts(m, file.end, 56, 4)
  /\ Shifts(m, file.rest, 60, Len(file.rest))

(* The mapping has its fields where the header says.                       *)
LEMMA BytesPlaces ==
  ASSUME FileShape
  PROVE  Mapped(Members!Bytes(file))
<1>1. PICK b : b = [k \in 1 .. 32 |-> 32]
  OBVIOUS
<1>2. b \in Seq(Nat) /\ Len(b) = 32 /\ \A k \in 1 .. 32 : b[k] = 32
  BY <1>1
<1>3. PICK n, z, e, r \in Seq(Nat) : n = file.name /\ z = file.size /\ e = file.end /\ r = file.rest
  BY DEF FileShape
<1>4. Len(n) = 16 /\ Len(z) = 8 /\ Len(e) = 4
  BY <1>3 DEF FileShape
<1>5. PICK p1 : p1 = n \o b
  OBVIOUS
<1>6. p1 \in Seq(Nat) /\ Follows(p1, n, b)
  BY <1>2, <1>3, <1>5, TwoParts, Zenon
<1>7. PICK p2 : p2 = p1 \o z
  OBVIOUS
<1>8. p2 \in Seq(Nat) /\ Follows(p2, p1, z)
  BY <1>3, <1>6, <1>7, TwoParts, Zenon
<1>9. PICK p3 : p3 = p2 \o e
  OBVIOUS
<1>10. p3 \in Seq(Nat) /\ Follows(p3, p2, e)
  BY <1>3, <1>8, <1>9, TwoParts, Zenon
<1>11. PICK p4 : p4 = p3 \o r
  OBVIOUS
<1>12. p4 \in Seq(Nat) /\ Follows(p4, p3, r)
  BY <1>3, <1>10, <1>11, TwoParts, Zenon
<1>13. Members!Bytes(file) = p4
  BY <1>1, <1>3, <1>5, <1>7, <1>9, <1>11, Zenon DEF Members!Bytes, Members!Blank
<1>14. Shifts(p1, n, 0, 16) /\ Shifts(p1, b, 16, 32) /\ Len(p1) = 48
  BY <1>2, <1>4, <1>6 DEF Follows, Shifts
<1>16. Shifts(p2, p1, 0, 48) /\ Shifts(p2, z, 48, 8) /\ Len(p2) = 56
  BY <1>4, <1>8, <1>14 DEF Follows, Shifts
<1>17. Shifts(p3, p2, 0, 56) /\ Shifts(p3, e, 56, 4) /\ Len(p3) = 60
  BY <1>4, <1>10, <1>16 DEF Follows, Shifts
<1>18. Shifts(p4, p3, 0, 60) /\ Shifts(p4, r, 60, Len(r)) /\ Len(p4) = 60 + Len(r)
  BY <1>12, <1>17 DEF Follows, Shifts
<1>19. Shifts(p4, p2, 0, 56)
  BY <1>17, <1>18, ShiftsTwice
<1>20. Shifts(p4, p1, 0, 48)
  BY <1>16, <1>19, ShiftsTwice
<1>21. Shifts(p4, n, 0, 16) /\ Shifts(p4, b, 16, 32)
  BY <1>14, <1>20, ShiftsTwice
<1>22. Shifts(p4, z, 48, 8)
  BY <1>16, <1>19, ShiftsTwice
<1>23. Shifts(p4, e, 56, 4)
  BY <1>17, <1>18, ShiftsTwice
<1>24. Mapped(p4)
  BY <1>1, <1>3, <1>12, <1>18, <1>21, <1>22, <1>23, Zenon DEF Mapped
<1> QED
  BY <1>13, <1>24

LEMMA MarkIs ==
  /\ Members!LongMark \in Seq(Nat) /\ Len(Members!LongMark) = 3
  /\ Members!Symdef \in Seq(Nat) /\ Len(Members!Symdef) = 9
  /\ \A k \in 1 .. 9 : Members!Symdef[k] # 0
  /\ Members!ArEnd \in Seq(Nat) /\ Len(Members!ArEnd) = 4
BY DEF Members!LongMark, Members!Symdef, Members!ArEnd

(* A text is a prefix when its characters are those at the beginning.      *)
LEMMA PrefixIs ==
  ASSUME NEW x \in Seq(Nat), NEW y \in Seq(Nat)
  PROVE  Members!IsPrefix(x, y) <=> Len(x) <= Len(y) /\ \A k \in 1 .. Len(x) : y[k] = x[k]
<1>1. PICK n \in Nat : n = Len(x)
  OBVIOUS
<1>2. CASE n <= Len(y)
  <2>1. PICK u, v : u = SubSeq(x, 1, n) /\ v = SubSeq(y, 1, n)
    OBVIOUS
  <2>2. u \in Seq(Nat) /\ Len(u) = n /\ \A k \in 1 .. n : u[k] = x[k]
    BY <1>1, <2>1, Beginning
  <2>3. v \in Seq(Nat) /\ Len(v) = n /\ \A k \in 1 .. n : v[k] = y[k]
    BY <1>2, <2>1, Beginning
  <2>4. ASSUME u = v
        PROVE  \A k \in 1 .. n : y[k] = x[k]
    BY <2>2, <2>3, <2>4, Zenon
  <2>5. ASSUME \A k \in 1 .. n : y[k] = x[k]
        PROVE  u = v
    <3>1. \A k \in 1 .. n : u[k] = v[k]
      BY <2>2, <2>3, <2>5, Zenon
    <3>2. Len(u) = Len(v)
      BY <2>2, <2>3
    <3> QED
      BY <2>2, <2>3, <3>1, <3>2
  <2> QED
    BY <1>1, <1>2, <2>1, <2>4, <2>5, Zenon DEF Members!IsPrefix
<1>3. CASE ~(n <= Len(y))
  BY <1>1, <1>3, Zenon DEF Members!IsPrefix
<1> QED
  BY <1>2, <1>3

LEMMA StartsIs ==
  ASSUME NEW m, NEW at \in Nat, NEW x \in Seq(Nat)
  PROVE  Members!Starts(m, at, x) <=> \A k \in 1 .. Len(x) : m[at + k - 1] = x[k]
<1>1. DOMAIN x = 1 .. Len(x)
  OBVIOUS
<1> QED
  BY <1>1, Zenon DEF Members!Starts

(* The symbol index is known by a name that is cut at a NUL.               *)
LEMMA SymdefCut ==
  ASSUME NEW field \in Seq(Nat)
  PROVE  /\ Members!BeforeNul(field) \in Seq(Nat)
         /\ Members!IsSymdef(Members!BeforeNul(field)) <=> Members!IsPrefix(Members!Symdef, field)
<1> DEFINE N == {k \in DOMAIN field : field[k] = 0}
<1>1. DOMAIN field = 1 .. Len(field) /\ Len(field) \in Nat /\ N \subseteq Nat
  OBVIOUS
<1>2. CASE N = {}
  <2>1. Members!BeforeNul(field) = field
    BY <1>2 DEF Members!BeforeNul
  <2> QED
    BY <2>1 DEF Members!IsSymdef
<1>3. CASE N # {}
  <2>1. PICK p \in N : \A k \in N : p <= k
    <3> HIDE DEF N
    <3> QED
      BY <1>1, <1>3, LeastOf
  <2>2. Members!Min(N) = p
    <3> HIDE DEF N
    <3> QED
      BY <1>1, <2>1, MinIs
  <2>3. Members!BeforeNul(field) = SubSeq(field, 1, p - 1)
    BY <1>3, <2>2 DEF Members!BeforeNul
  <2>4. p - 1 \in Nat /\ p - 1 <= Len(field) /\ field[p] = 0 /\ p \in 1 .. Len(field)
    BY <1>1, <2>1
  <2>5. PICK x : x = SubSeq(field, 1, p - 1)
    OBVIOUS
  <2>6. x \in Seq(Nat) /\ Len(x) = p - 1 /\ \A k \in 1 .. p - 1 : x[k] = field[k]
    BY <2>4, <2>5, Beginning
  <2>7. Members!IsPrefix(Members!Symdef, x) <=> 9 <= p - 1 /\ \A k \in 1 .. 9 : x[k] = Members!Symdef[k]
    <3>1. Members!IsPrefix(Members!Symdef, x)
            <=> Len(Members!Symdef) <= Len(x) /\ \A k \in 1 .. Len(Members!Symdef) : x[k] = Members!Symdef[k]
      BY <2>6, PrefixIs, MarkIs, Zenon
    <3> QED
      BY <2>6, <3>1, MarkIs, Zenon
  <2>8. Members!IsPrefix(Members!Symdef, field)
          <=> 9 <= Len(field) /\ \A k \in 1 .. 9 : field[k] = Members!Symdef[k]
    BY PrefixIs, MarkIs, ZenonT(40)
  <2>9. ASSUME \A k \in 1 .. 9 : field[k] = Members!Symdef[k]
        PROVE  9 <= p - 1
    <3>1. p \notin 1 .. 9
      BY <2>4, <2>9, MarkIs, Zenon
    <3>2. p \in Nat /\ p >= 1
      BY <2>4
    <3> HIDE DEF N
    <3> QED
      BY <3>1, <3>2
  <2>10. 9 <= p - 1 => \A k \in 1 .. 9 : x[k] = field[k]
    <3>1. 9 <= p - 1 => \A k \in 1 .. 9 : k \in 1 .. p - 1
      BY <2>4
    <3> QED
      BY <2>6, <3>1, Zenon
  <2> QED
    <3>1. 9 <= p - 1 => 9 <= Len(field)
      BY <2>4
    <3>2. Members!IsPrefix(Members!Symdef, x) <=> Members!IsPrefix(Members!Symdef, field)
      BY <2>7, <2>8, <2>9, <2>10, <3>1, Zenon
    <3> QED
      BY <2>3, <2>5, <2>6, <3>2, Zenon DEF Members!IsSymdef
<1> QED
  BY <1>2, <1>3

(* What the two ways to accept a header leave, for the mapping m, the      *)
(* length w of the name and the size z.                                    *)
FromField(m, z) ==
  /\ ~Members!Starts(m, 1, Members!LongMark)
  /\ out = Members!Result("OK", Members!ft_strndupwhile(m, 1, 16), 0, z)

LongName(m, w, z) ==
  /\ Members!Starts(m, 1, Members!LongMark)
  /\ ~Members!TooLong(w) /\ Members!LongNameFits(Members!Value(w))
  /\ out = Members!Result("OK", Members!ft_strndupwhile(m, 61, Members!Value(w)), Members!Value(w), z)

(* An accepted header is whole, ends as it must, and has one of the forms. *)
LEMMA AcceptedWays ==
  ASSUME NEW m, m = Members!Bytes(file), out = Members!check_ranlib_header, out.code = "OK"
  PROVE  /\ Members!CHECK_LEN(64) /\ Members!Starts(m, 57, Members!ArEnd)
         /\ \/ FromField(m, Members!Value(Members!ft_pure_atoi(m, 49)))
            \/ LongName(m, Members!ft_pure_atoi(m, 4), Members!Value(Members!ft_pure_atoi(m, 49)))
<1>1. Members!Failed("ERR_MEM").code # "OK" /\ Members!Failed("ERR_SILENT").code # "OK"
  BY DEF Members!Failed
<1>2. PICK w, z : w = Members!ft_pure_atoi(m, 4) /\ z = Members!Value(Members!ft_pure_atoi(m, 49))
  OBVIOUS
<1>3. /\ Members!NameAt = 1 /\ Members!SizeAt = 49 /\ Members!EndAt = 57 /\ Members!LongAt = 61
      /\ Members!NameAt + 3 = 4 /\ Members!ArHeader + Members!U32 = 64
  BY DEF Members!NameAt, Members!SizeAt, Members!EndAt, Members!LongAt, Members!ArHeader, Members!U32
<1>4. out = IF ~Members!CHECK_LEN(64) THEN Members!Failed("ERR_MEM")
            ELSE IF ~Members!Starts(m, 57, Members!ArEnd) THEN Members!Failed("ERR_SILENT")
            ELSE IF ~Members!Starts(m, 1, Members!LongMark)
                 THEN Members!Result("OK", Members!ft_strndupwhile(m, 1, 16), 0, z)
            ELSE IF Members!TooLong(w) THEN Members!Failed("ERR_SILENT")
            ELSE IF ~Members!LongNameFits(Members!Value(w)) THEN Members!Failed("ERR_MEM")
            ELSE Members!Result("OK", Members!ft_strndupwhile(m, 61, Members!Value(w)), Members!Value(w), z)
  BY <1>2, <1>3, Zenon DEF Members!check_ranlib_header
<1>5. /\ Members!CHECK_LEN(64) /\ Members!Starts(m, 57, Members!ArEnd)
      /\ FromField(m, z) \/ LongName(m, w, z)
  BY <1>1, <1>4, Zenon DEF FromField, LongName
<1> QED
  BY <1>2, <1>5, Zenon

LEMMA BlankIsNoDigit == ~Members!ft_isdigit(32)
BY DEF Members!ft_isdigit

LEMMA StartsShifts ==
  ASSUME NEW m, NEW at \in Nat, NEW x \in Seq(Nat)
  PROVE  Members!Starts(m, at + 1, x) <=> Shifts(m, x, at, Len(x))
<1>2. PICK s \in Nat : s = at + 1
  OBVIOUS
<1>3. Members!Starts(m, s, x) <=> \A k \in 1 .. Len(x) : m[s + k - 1] = x[k]
  BY StartsIs
<1>4. \A k \in 1 .. Len(x) : s + k - 1 = at + k
  BY <1>2
<1>5. Members!Starts(m, s, x) <=> Shifts(m, x, at, Len(x))
  BY <1>3, <1>4, Zenon DEF Shifts
<1> QED
  BY <1>2, <1>5

(* The size, the length of the name, and the mark, as they are written.    *)
LEMMA SameText ==
  ASSUME NEW x \in Seq(Nat), NEW y \in Seq(Nat), Len(x) = Len(y), \A k \in 1 .. Len(x) : x[k] = y[k]
  PROVE  x = y
OBVIOUS

LEMMA Middle ==
  ASSUME NEW x \in Seq(Nat), Len(x) = 16
  PROVE  /\ SubSeq(x, 4, 16) \in Seq(Nat) /\ Len(SubSeq(x, 4, 16)) = 13
         /\ \A k \in 1 .. 13 : SubSeq(x, 4, 16)[k] = x[k + 3]
<1>1. \A k \in 4 .. 16 : x[k] \in Nat
  <2>1. \A k \in 4 .. 16 : k \in 1 .. 16
    OBVIOUS
  <2>2. \A k \in 1 .. Len(x) : x[k] \in Nat
    BY ElementOfSeq, Zenon
  <2> QED
    BY <2>1, <2>2, Zenon
<1>2. /\ SubSeq(x, 4, 16) \in Seq(Nat)
      /\ Len(SubSeq(x, 4, 16)) = IF 4 <= 16 THEN 16 - 4 + 1 ELSE 0
      /\ \A k \in 1 .. 16 - 4 + 1 : SubSeq(x, 4, 16)[k] = x[4 + k - 1]
  BY <1>1, SubSeqProperties
<1>3. \A k \in 1 .. 13 : 4 + k - 1 = k + 3
  OBVIOUS
<1>4. 16 - 4 + 1 = 13 /\ 4 <= 16
  OBVIOUS
<1> QED
  BY <1>2, <1>3, <1>4, Zenon

LEMMA ValueIsNumber ==
  ASSUME NEW w, w[1] \in Halves, w[2] \in Halves
  PROVE  Members!Value(w) \in Nat
BY DEF Halves, Members!Value, Members!Half

LEMMA HeaderFields ==
  ASSUME FileShape, NEW m, Mapped(m), Members!Starts(m, 57, Members!ArEnd)
  PROVE  /\ file.end = Members!ArEnd
         /\ Members!Starts(m, 1, Members!LongMark) <=> Members!Long
         /\ Members!Value(Members!ft_pure_atoi(m, 49)) = Members!Decimal(Members!LeadingDigits(file.size))
         /\ Members!Value(Members!ft_pure_atoi(m, 49)) \in Nat
         /\ Members!ft_pure_atoi(m, 4)[1] \in Halves /\ Members!ft_pure_atoi(m, 4)[2] \in Halves
         /\ Len(Members!LongDigits) <= 9
              => Members!Value(Members!ft_pure_atoi(m, 4)) = Members!Decimal(Members!LongDigits)
<1>1. PICK n, z, e, r \in Seq(Nat) : n = file.name /\ z = file.size /\ e = file.end /\ r = file.rest
  BY DEF FileShape
<1>2. Len(n) = 16 /\ Len(z) = 8 /\ Len(e) = 4
  BY <1>1 DEF FileShape
<1>3. m \in Seq(Nat) /\ Len(m) = 60 + Len(r) /\ Len(m) >= 60
  <2>1. m \in Seq(Nat) /\ Len(m) = 60 + Len(r)
    BY <1>1, Zenon DEF Mapped
  <2> QED
    BY <1>1, <2>1
<1>4. Shifts(m, n, 0, 16) /\ Shifts(m, z, 48, 8) /\ Shifts(m, e, 56, 4)
  BY <1>1 DEF Mapped
<1>5. e = Members!ArEnd
  <2>1. PICK a \in Seq(Nat) : a = Members!ArEnd /\ Len(a) = 4
    BY MarkIs
  <2>2. Members!Starts(m, 56 + 1, a) <=> Shifts(m, a, 56, Len(a))
    BY StartsShifts
  <2>3. Shifts(m, a, 56, 4)
    BY <2>1, <2>2
  <2>4. \A k \in 1 .. 4 : e[k] = a[k]
    BY <1>4, <2>3 DEF Shifts
  <2> QED
    BY <1>1, <1>2, <2>1, <2>4, SameText, ZenonT(40)
<1>6. Members!Starts(m, 1, Members!LongMark) <=> Members!Long
  <2>1. PICK a \in Seq(Nat) : a = Members!LongMark /\ Len(a) = 3
    BY MarkIs
  <2>2. Members!Starts(m, 0 + 1, a) <=> Shifts(m, a, 0, Len(a))
    BY StartsShifts
  <2>3. \A k \in 1 .. 3 : m[0 + k] = n[k]
    <3>1. \A k \in 1 .. 3 : k \in 1 .. 16
      OBVIOUS
    <3> QED
      BY <1>4, <3>1, Zenon DEF Shifts
  <2>4. Members!IsPrefix(a, n) <=> Len(a) <= Len(n) /\ \A k \in 1 .. Len(a) : n[k] = a[k]
    BY <1>1, PrefixIs
  <2>5. Shifts(m, a, 0, 3) <=> \A k \in 1 .. 3 : n[k] = a[k]
    BY <2>3 DEF Shifts
  <2> QED
    BY <1>1, <1>2, <2>1, <2>2, <2>4, <2>5 DEF Members!Long
<1>7. /\ Members!Value(Members!ft_pure_atoi(m, 49)) = Members!Decimal(Members!LeadingDigits(z))
      /\ Members!Value(Members!ft_pure_atoi(m, 49)) \in Nat
  <2>1. \A k \in 1 .. Len(z) : m[49 + k - 1] = z[k]
    <3> TAKE k \in 1 .. Len(z)
    <3>1. k \in 1 .. 8 /\ 49 + k - 1 = 48 + k
      BY <1>2
    <3> QED
      BY <1>4, <3>1 DEF Shifts
  <2>2. m[49 + Len(z)] = 32
    <3>1. m[56 + 1] = e[1]
      BY <1>4 DEF Shifts
    <3>2. e[1] = 32
      BY <1>5 DEF Members!ArEnd
    <3>3. 49 + Len(z) = 56 + 1
      BY <1>2
    <3> QED
      BY <3>1, <3>2, <3>3
  <2>3. 49 + Len(z) <= Len(m)
    BY <1>2, <1>3
  <2>4. ~Members!ft_isdigit(m[49 + Len(z)])
    BY <2>2, BlankIsNoDigit
  <2>6. 49 \in Nat /\ 49 >= 1
    OBVIOUS
  <2>5. Len(Members!LeadingDigits(z)) <= 9
    <3>1. Len(Members!LeadingDigits(z)) \in Nat /\ Len(Members!LeadingDigits(z)) <= Len(z)
      BY <1>1, FewDigits
    <3> QED
      BY <1>2, <3>1
  <2> QED
    <3>1. PICK w : w = Members!ft_pure_atoi(m, 49)
      OBVIOUS
    <3>2. w[1] \in Halves /\ w[2] \in Halves
      BY <1>1, <1>3, <2>1, <2>3, <2>4, <2>6, <3>1, FieldNumber, ZenonT(40)
    <3>3. Members!Value(w) = Members!Decimal(Members!LeadingDigits(z))
      BY <1>1, <1>3, <2>1, <2>3, <2>4, <2>5, <2>6, <3>1, FieldNumber, ZenonT(40)
    <3> QED
      BY <3>1, <3>2, <3>3, ValueIsNumber
<1>8. PICK l : l = SubSeq(n, 4, 16)
  OBVIOUS
<1>9. l \in Seq(Nat) /\ Len(l) = 13 /\ \A k \in 1 .. 13 : l[k] = n[k + 3]
  BY <1>1, <1>2, <1>8, Middle
<1>10. /\ Members!ft_pure_atoi(m, 4)[1] \in Halves /\ Members!ft_pure_atoi(m, 4)[2] \in Halves
       /\ Len(Members!LeadingDigits(l)) <= 9
            => Members!Value(Members!ft_pure_atoi(m, 4)) = Members!Decimal(Members!LeadingDigits(l))
  <2>1. \A k \in 1 .. Len(l) : m[4 + k - 1] = l[k]
    <3> TAKE k \in 1 .. Len(l)
    <3>1. k \in 1 .. 13 /\ k + 3 \in 1 .. 16 /\ 4 + k - 1 = 0 + (k + 3)
      BY <1>9
    <3>2. m[0 + (k + 3)] = n[k + 3]
      BY <1>4, <3>1 DEF Shifts
    <3> QED
      BY <1>9, <3>1, <3>2
  <2>2. m[4 + Len(l)] = 32
    <3>1. PICK b : b = [k \in 1 .. 32 |-> 32]
      OBVIOUS
    <3>2. Shifts(m, b, 16, 32)
      BY <3>1, Zenon DEF Mapped
    <3>3. m[16 + 1] = b[1]
      BY <3>2 DEF Shifts
    <3>4. 4 + Len(l) = 16 + 1
      BY <1>9
    <3>5. b[1] = 32
      BY <3>1
    <3> QED
      BY <3>3, <3>4, <3>5
  <2>3. 4 + Len(l) <= Len(m)
    BY <1>9, <1>3
  <2>4. ~Members!ft_isdigit(m[4 + Len(l)])
    BY <2>2, BlankIsNoDigit
  <2>5. 4 \in Nat /\ 4 >= 1
    OBVIOUS
  <2> QED
    BY <1>3, <1>9, <2>1, <2>3, <2>4, <2>5, FieldNumber, Zenon
<1>11. Members!LongDigits = Members!LeadingDigits(l)
  BY <1>1, <1>8 DEF Members!LongDigits
<1> QED
  BY <1>1, <1>5, <1>6, <1>7, <1>10, <1>11, Zenon

LEMMA ResultIs ==
  ASSUME NEW name, NEW long, NEW z, out = Members!Result("OK", name, long, z)
  PROVE  out.name = name /\ out.header_len = long + 60 /\ out.full_len = z + 60
BY DEF Members!Result, Members!ArHeader

(* A NUL of the rest is a NUL of the mapping, after the header.            *)
LEMMA NulAfter ==
  ASSUME FileShape, NEW m, Mapped(m), NEW at \in Nat, at >= 1, at <= 61
  PROVE  \E z \in 0 .. Len(m) - at : m[at + z] = 0
<1>1. PICK k \in 1 .. Len(file.rest) : file.rest[k] = 0
  BY DEF FileShape
<1>2. PICK len \in Nat : len = Len(file.rest)
  BY DEF FileShape
<1>3. Len(m) = 60 + len /\ Shifts(m, file.rest, 60, len)
  BY <1>2, Zenon DEF Mapped
<1>4. m[60 + k] = 0
  BY <1>1, <1>2, <1>3 DEF Shifts
<1>5. 60 + k - at \in 0 .. Len(m) - at /\ at + (60 + k - at) = 60 + k
  BY <1>1, <1>2, <1>3
<1> QED
  BY <1>4, <1>5

(* The name taken from the field of the header.                            *)
LEMMA ShortAsStated ==
  ASSUME FileShape, NEW m, Mapped(m), Members!CHECK_LEN(64), Members!Starts(m, 57, Members!ArEnd),
         FromField(m, Members!Value(Members!ft_pure_atoi(m, 49)))
  PROVE  Members!AcceptedFits /\ Members!LengthsAsStated /\ Members!NameAsWritten
<1>1. PICK z, name : z = Members!Value(Members!ft_pure_atoi(m, 49)) /\ name = Members!ft_strndupwhile(m, 1, 16)
  OBVIOUS
<1>2. ~Members!Long /\ file.end = Members!ArEnd /\ z = Members!Decimal(Members!LeadingDigits(file.size))
  BY <1>1, HeaderFields, Zenon DEF FromField
<1>3. out.name = name /\ out.header_len = 0 + 60 /\ out.full_len = z + 60
  <2>1. out = Members!Result("OK", name, 0, z)
    BY <1>1 DEF FromField
  <2> QED
    BY <2>1, ResultIs, Zenon
<1>4. out.header_len = 60
  BY <1>3
<1>5. Members!AcceptedFits
  <2>1. file.window >= 64 /\ MaxLong >= 0
    BY FileBytesAssumption DEF Members!CHECK_LEN, FileShape
  <2> QED
    BY <1>2, <1>4, <2>1, FileBytesAssumption
       DEF Members!AcceptedFits, Members!ArHeader, Members!U32, FileShape
<1>6. Members!LengthsAsStated
  <2>1. out.full_len = 60 + Members!Decimal(Members!LeadingDigits(file.size))
    <3>1. z \in Nat
      BY <1>1, HeaderFields, Zenon
    <3> QED
      BY <1>2, <1>3, <3>1
  <2> QED
    BY <1>2, <1>4, <2>1, Zenon DEF Members!LengthsAsStated, Members!ArHeader
<1>7. Members!NameAsWritten
  <2>1. PICK field \in Seq(Nat) : field = file.name /\ Len(field) = 16
    BY DEF FileShape
  <2>2. PICK k \in 0 .. Len(m) - 1 : m[1 + k] = 0
    BY NulAfter
  <2>3. m \in Seq(Nat) /\ Len(m) = 60 + Len(file.rest) /\ Shifts(m, field, 0, 16)
    BY <2>1, Zenon DEF Mapped
  <2>4. \A j \in 1 .. Len(field) : m[1 + j - 1] = field[j]
    <3> TAKE j \in 1 .. Len(field)
    <3>1. j \in 1 .. 16 /\ 1 + j - 1 = 0 + j
      BY <2>1
    <3> QED
      BY <2>3, <3>1 DEF Shifts
  <2>5. 1 + Len(field) - 1 <= Len(m) /\ 1 \in Nat /\ 1 >= 1
    <3>1. PICK len \in Nat : len = Len(file.rest)
      BY DEF FileShape
    <3>2. Len(m) = 60 + len /\ Len(field) = 16
      BY <2>1, <2>3, <3>1
    <3> QED
      BY <3>2
  <2>6. Members!ft_strndupwhile(m, 1, Len(field)) = Members!BeforeNul(field)
    BY <2>2, <2>3, <2>4, <2>5, NameCopied, Zenon
  <2>7. Members!IsSymdef(Members!BeforeNul(field)) <=> Members!IsPrefix(Members!Symdef, field)
    BY SymdefCut
  <2> QED
    BY <1>1, <1>2, <1>3, <2>1, <2>6, <2>7, Zenon DEF Members!NameAsWritten
<1> QED
  BY <1>5, <1>6, <1>7

(* The long name, which follows the header.                                *)
LEMMA LongAsStated ==
  ASSUME FileShape, NEW m, Mapped(m), Members!CHECK_LEN(64), Members!Starts(m, 57, Members!ArEnd),
         LongName(m, Members!ft_pure_atoi(m, 4), Members!Value(Members!ft_pure_atoi(m, 49)))
  PROVE  Members!AcceptedFits /\ Members!LengthsAsStated /\ Members!NameAsWritten
<1>1. PICK w, z : w = Members!ft_pure_atoi(m, 4) /\ z = Members!Value(Members!ft_pure_atoi(m, 49))
  OBVIOUS
<1>2. /\ Members!Long /\ file.end = Members!ArEnd /\ z \in Nat
      /\ z = Members!Decimal(Members!LeadingDigits(file.size))
      /\ w[1] \in Halves /\ w[2] \in Halves
      /\ Len(Members!LongDigits) <= 9 => Members!Value(w) = Members!Decimal(Members!LongDigits)
  BY <1>1, HeaderFields, Zenon DEF LongName
<1>3. PICK long \in Nat : long = Members!Value(w)
  BY <1>2, ValueIsNumber
<1>4. PICK name : name = Members!ft_strndupwhile(m, 61, long)
  OBVIOUS
<1>5. out.name = name /\ out.header_len = long + 60 /\ out.full_len = z + 60
  <2>1. out = Members!Result("OK", name, long, z)
    BY <1>1, <1>3, <1>4, Zenon DEF LongName
  <2> QED
    BY <2>1, ResultIs, Zenon
<1>6. file.window \in Nat /\ MaxLong \in Nat
  BY FileBytesAssumption DEF FileShape
<1>7. long <= MaxLong
  <2>1. w[1] \in Nat /\ w[2] \in Nat /\ ~(w[1] > 0) /\ ~(w[2] > MaxLong)
    BY <1>1, <1>2 DEF LongName, Members!TooLong, Halves
  <2>2. long = w[2]
    BY <1>3, <2>1 DEF Members!Value, Members!Half
  <2> QED
    BY <1>6, <2>1, <2>2
<1>8. 60 + long + 4 <= file.window
  BY <1>1, <1>3 DEF LongName, Members!LongNameFits, Members!CHECK_LEN, Members!ArHeader, Members!U32
<1>9. PICK len \in Nat : len = Len(file.rest) /\ file.window <= 60 + len
  BY DEF FileShape
<1>10. long <= len
  BY <1>6, <1>8, <1>9
<1>11. Members!AcceptedFits
  <2>1. file.window >= 64
    BY DEF Members!CHECK_LEN
  <2>2. out.header_len = 60 + long
    BY <1>3, <1>5
  <2> QED
    BY <1>2, <1>6, <1>7, <1>8, <2>1, <2>2 DEF Members!AcceptedFits, Members!ArHeader, Members!U32
<1>12. Members!LengthsAsStated
  <2>1. out.full_len = 60 + z /\ out.header_len = 60 + long
    BY <1>2, <1>3, <1>5
  <2> QED
    BY <1>2, <1>3, <2>1, Zenon DEF Members!LengthsAsStated, Members!ArHeader
<1>13. Members!NameAsWritten
  <2>1. PICK rest \in Seq(Nat) : rest = file.rest
    BY DEF FileShape
  <2>2. PICK field : field = SubSeq(rest, 1, long)
    OBVIOUS
  <2>3. field \in Seq(Nat) /\ Len(field) = long /\ \A k \in 1 .. long : field[k] = rest[k]
    <3>1. /\ SubSeq(rest, 1, long) \in Seq(Nat) /\ Len(SubSeq(rest, 1, long)) = long
          /\ \A k \in 1 .. long : SubSeq(rest, 1, long)[k] = rest[k] /\ rest[k] \in Nat
      BY <1>9, <1>10, <2>1, Beginning, Zenon
    <3> QED
      BY <2>2, <3>1
  <2>4. m \in Seq(Nat) /\ Len(m) = 60 + len /\ Shifts(m, rest, 60, len)
    BY <1>9, <2>1, Zenon DEF Mapped
  <2>5. PICK k \in 0 .. Len(m) - 61 : m[61 + k] = 0
    BY NulAfter
  <2>6. \A j \in 1 .. Len(field) : m[61 + j - 1] = field[j]
    <3> TAKE j \in 1 .. Len(field)
    <3>1. j \in 1 .. long /\ j \in 1 .. len /\ 61 + j - 1 = 60 + j
      BY <1>10, <2>3
    <3> QED
      BY <2>3, <2>4, <3>1 DEF Shifts
  <2>7. 61 + Len(field) - 1 <= Len(m) /\ 61 \in Nat /\ 61 >= 1
    BY <1>10, <2>3, <2>4
  <2>8. Members!ft_strndupwhile(m, 61, Len(field)) = Members!BeforeNul(field)
    BY <2>3, <2>4, <2>5, <2>6, <2>7, NameCopied, Zenon
  <2>9. Members!IsSymdef(Members!BeforeNul(field)) <=> Members!IsPrefix(Members!Symdef, field)
    BY <2>3, SymdefCut
  <2>10. out.header_len - Members!ArHeader = long
    BY <1>5 DEF Members!ArHeader
  <2> QED
    BY <1>2, <1>4, <1>5, <2>1, <2>2, <2>3, <2>8, <2>9, <2>10, Zenon DEF Members!NameAsWritten
<1> QED
  BY <1>11, <1>12, <1>13

(* For a member header with any name, any size and any long name, before   *)
(* any end of the window: when check_ranlib_header accepts it, it lies in  *)
(* the window and its name and lengths are those it states.                *)
THEOREM AnyMember ==
  ASSUME FileShape, out = Members!check_ranlib_header
  PROVE  Members!MemberAsStated
<1> SUFFICES ASSUME out.code = "OK"
             PROVE  Members!AcceptedFits /\ Members!LengthsAsStated /\ Members!NameAsWritten
  BY Zenon DEF Members!MemberAsStated
<1>1. PICK m : m = Members!Bytes(file)
  OBVIOUS
<1>2. Mapped(m)
  BY <1>1, BytesPlaces
<1>3. /\ Members!CHECK_LEN(64) /\ Members!Starts(m, 57, Members!ArEnd)
      /\ \/ FromField(m, Members!Value(Members!ft_pure_atoi(m, 49)))
         \/ LongName(m, Members!ft_pure_atoi(m, 4), Members!Value(Members!ft_pure_atoi(m, 49)))
  BY <1>1, AcceptedWays, Zenon
<1> QED
  BY <1>2, <1>3, ShortAsStated, LongAsStated, Zenon
-----------------------------------------------------------------------------
(* The archives of FileBytes have that form.                               *)
LEMMA FunctionText ==
  ASSUME NEW n \in Nat, NEW f \in [1 .. n -> Nat]
  PROVE  f \in Seq(Nat) /\ Len(f) = n
OBVIOUS

LEMMA PadShape ==
  ASSUME NEW x \in Seq(Nat), NEW n \in Nat
  PROVE  Pad(x, n) \in Seq(Nat) /\ Len(Pad(x, n)) = n
<1>1. \A k \in 1 .. n : (IF k <= Len(x) THEN x[k] ELSE Ar!Blank) \in Nat
  <2> TAKE k \in 1 .. n
  <2>1. CASE k <= Len(x)
    <3>1. k \in 1 .. Len(x)
      BY <2>1
    <3>2. x[k] \in Nat
      BY <3>1, ElementOfSeq, Zenon
    <3> QED
      BY <2>1, <3>2
  <2>2. CASE ~(k <= Len(x))
    BY <2>2 DEF Ar!Blank
  <2> QED
    BY <2>1, <2>2
<1>2. PICK p : p = Pad(x, n)
  OBVIOUS
<1>3. p \in [1 .. n -> Nat]
  BY <1>1, <1>2 DEF Pad
<1> QED
  BY <1>2, <1>3

LEMMA NamesHaveShape ==
  ASSUME NEW name \in MemberNames
  PROVE  name \in Seq(Nat) /\ Len(name) = 16
<1>1. \E x \in Seq(Nat) : name = Pad(x, 16)
  <2>1. \A l \in Lengths : Ar!LongMark \o l \in Seq(Nat)
    <3>1. \A l \in Lengths : l \in Seq(Nat)
      <4>1. /\ <<48>> \in Seq(Nat) /\ <<53>> \in Seq(Nat) /\ <<49, 50>> \in Seq(Nat)
            /\ <<49, 51>> \in Seq(Nat) /\ << >> \in Seq(Nat)
        OBVIOUS
      <4>2. <<52, 50, 57, 52, 57, 54, 55, 51, 48, 49>> \in Seq(Nat)
        OBVIOUS
      <4>3. <<52, 50, 57, 52, 57, 54, 55, 50, 57, 54, 48>> \in Seq(Nat)
        OBVIOUS
      <4>4. <<49, 48, 48, 48, 48, 48, 48, 48, 48, 48, 48, 48, 48>> \in Seq(Nat)
        OBVIOUS
      <4> QED
        BY <4>1, <4>2, <4>3, <4>4, ZenonT(40) DEF Lengths
    <3>2. Ar!LongMark \in Seq(Nat)
      BY DEF Ar!LongMark
    <3> QED
      BY <3>1, <3>2
  <2>2. Ar!Symdef \in Seq(Nat) /\ Ar!Symdef \o <<32, 83, 79, 82, 84, 69, 68>> \in Seq(Nat)
    <3>1. Ar!Symdef \in Seq(Nat) /\ <<32, 83, 79, 82, 84, 69, 68>> \in Seq(Nat)
      BY DEF Ar!Symdef
    <3> QED
      BY <3>1
  <2>3. <<97, 46, 111>> \in Seq(Nat) /\ <<97, 0, 111>> \in Seq(Nat) /\ << >> \in Seq(Nat)
    OBVIOUS
  <2> QED
    BY <2>1, <2>2, <2>3, Zenon DEF MemberNames
<1> QED
  BY <1>1, PadShape

LEMMA RestsHaveShape ==
  ASSUME NEW rest \in Rests
  PROVE  rest \in Seq(Nat) /\ Len(rest) = 24 /\ rest[24] = 0
<1>1. CASE rest = Pad(Ar!Symdef \o <<0, 57, 0>>, 23) \o <<0>>
  <2>1. Ar!Symdef \in Seq(Nat) /\ <<0, 57, 0>> \in Seq(Nat) /\ <<0>> \in Seq(Nat)
    BY DEF Ar!Symdef
  <2>2. Ar!Symdef \o <<0, 57, 0>> \in Seq(Nat)
    BY <2>1
  <2>3. PICK p : p = Pad(Ar!Symdef \o <<0, 57, 0>>, 23)
    OBVIOUS
  <2>4. p \in Seq(Nat) /\ Len(p) = 23
    BY <2>2, <2>3, PadShape
  <2>5. PICK nul : nul = <<0>>
    OBVIOUS
  <2>6. nul \in Seq(Nat) /\ Len(nul) = 1 /\ nul[1] = 0
    BY <2>5
  <2>7. rest \in Seq(Nat) /\ Follows(rest, p, nul)
    BY <1>1, <2>3, <2>4, <2>5, <2>6, TwoParts, Zenon
  <2> QED
    BY <2>4, <2>6, <2>7 DEF Follows
<1>2. CASE \E z \in {{}, {3}, {1}} : rest = [k \in 1 .. 24 |-> IF k = 24 \/ k \in z THEN 0 ELSE 97]
  <2>1. PICK z : rest = [k \in 1 .. 24 |-> IF k = 24 \/ k \in z THEN 0 ELSE 97]
    BY <1>2
  <2>2. rest \in [1 .. 24 -> Nat] /\ rest[24] = 0
    BY <2>1
  <2>3. rest \in Seq(Nat) /\ Len(rest) = 24
    <3>1. rest \in [1 .. 24 -> Nat]
      BY <2>2
    <3>2. 24 \in Nat
      OBVIOUS
    <3> QED
      BY <3>1, <3>2, FunctionText, Zenon
  <2> QED
    BY <2>2, <2>3
<1> QED
  BY <1>1, <1>2, Zenon DEF Rests

LEMMA ArchivesHaveShape ==
  ASSUME file \in Archives
  PROVE  FileShape
<1>1. /\ file.name \in MemberNames /\ file.rest \in Rests
      /\ file.size \in {Pad(<< >>, 8), Pad(<<52, 48>>, 8), [k \in 1 .. 8 |-> 57]}
      /\ file.end \in {Ar!ArEnd, <<96, 10, 32, 32>>}
      /\ file.window \in {59, 63, 64, 68, 69, 75, 76, 84}
  BY DEF Archives
<1>2. file.name \in Seq(Nat) /\ Len(file.name) = 16
  BY <1>1, NamesHaveShape
<1>3. file.rest \in Seq(Nat) /\ Len(file.rest) = 24 /\ file.rest[24] = 0
  BY <1>1, RestsHaveShape
<1>4. file.size \in Seq(Nat) /\ Len(file.size) = 8
  <2>1. << >> \in Seq(Nat) /\ <<52, 48>> \in Seq(Nat)
    OBVIOUS
  <2>2. CASE file.size = Pad(<< >>, 8) \/ file.size = Pad(<<52, 48>>, 8)
    <3>1. PICK x \in Seq(Nat) : file.size = Pad(x, 8)
      BY <2>1, <2>2, Zenon
    <3>2. 8 \in Nat
      OBVIOUS
    <3>3. Pad(x, 8) \in Seq(Nat) /\ Len(Pad(x, 8)) = 8
      BY <3>2, PadShape, Zenon
    <3> QED
      BY <3>1, <3>3, Zenon
  <2>3. CASE file.size = [k \in 1 .. 8 |-> 57]
    <3>1. file.size \in [1 .. 8 -> Nat] /\ 8 \in Nat
      BY <2>3
    <3> QED
      BY <3>1, FunctionText, Zenon
  <2> QED
    BY <1>1, <2>2, <2>3
<1>5. file.end \in Seq(Nat) /\ Len(file.end) = 4
  <2>1. CASE file.end = Ar!ArEnd
    BY <2>1 DEF Ar!ArEnd
  <2>2. CASE file.end = <<96, 10, 32, 32>>
    BY <2>2
  <2> QED
    BY <1>1, <2>1, <2>2
<1>6. file.window \in Nat /\ file.window <= 84
  BY <1>1
<1> QED
  BY <1>2, <1>3, <1>4, <1>5, <1>6 DEF FileShape

(* The inductive invariant: what check_ranlib_header made of the archive.  *)
MemberInv == part = "member" => file \in Archives /\ (out = << >> \/ out = Members!check_ranlib_header)

(* Every step keeps the invariant.                                         *)
LEMMA MemberKept == MemberInv /\ [Next]_vars => MemberInv'
<1> SUFFICES ASSUME MemberInv, [Next]_vars, (part = "member")'
             PROVE  (file \in Archives /\ (out = << >> \/ out = Members!check_ranlib_header))'
  BY DEF MemberInv
<1>1. ASSUME file' = file
      PROVE  Members!check_ranlib_header' = Members!check_ranlib_header
  BY <1>1, Zenon DEF Members!check_ranlib_header, Members!CHECK_LEN, Members!LongNameFits
<1>2. CASE UNCHANGED vars
  BY <1>1, <1>2, Zenon DEF vars, MemberInv
<1>3. CASE ReadMember
  BY <1>1, <1>3, Zenon DEF ReadMember, Members!Next, Members!Check, MemberInv
<1>4. CASE ReadStructure \/ PrintDump
  BY <1>4 DEF ReadStructure, PrintDump
<1> QED
  BY <1>2, <1>3, <1>4 DEF Next

(* In every state: a member that is accepted lies in the window, with the  *)
(* name and the lengths its header states (check_ranlib_header).           *)
THEOREM MemberRead == Spec => []MemberAsStated
<1>1. Init => MemberInv
  BY Zenon DEF Init, Members!Init, MemberInv, Structures!Init, Dumps!Init
<1>2. MemberInv => MemberAsStated
  <2> SUFFICES ASSUME MemberInv, part = "member"
               PROVE  Members!MemberAsStated
    BY DEF MemberAsStated
  <2>1. CASE out = << >>
    BY <2>1, Zenon DEF Members!MemberAsStated
  <2>2. CASE out = Members!check_ranlib_header
    BY <2>2, ArchivesHaveShape, AnyMember DEF MemberInv
  <2> QED
    BY <2>1, <2>2 DEF MemberInv
<1> QED
  BY <1>1, <1>2, MemberKept, PTL DEF Spec
==============================================================================
