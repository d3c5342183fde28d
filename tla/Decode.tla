------------------------------- MODULE Decode --------------------------------
(***************************************************************************)
(* From bytes to fields: the byte swaps (swap.c), the readers of the       *)
(* structures in 32 and 64 bits (read.c, headers.c, display.c), and the    *)
(* magic numbers that decide on both (get_type in types.c).                *)
(*                                                                         *)
(* A word is the sequence of its bytes, the least significant first, which *)
(* is also how the machine that runs the tools keeps it in memory.  A file *)
(* holds one structure after its magic number; whoever wrote it chose the  *)
(* byte order and the width of addresses.                                  *)
(***************************************************************************)
EXTENDS Naturals, Sequences

CONSTANTS
  NameLen,  \* 16, the length of the name fields
  Files,    \* the files considered
  Asked     \* the pairs of names <<segname, sectname>> a user may ask for

VARIABLES
  file,  \* what was written: type, big, wide, kind of structure, its fields
  vm,    \* what get_type found: type, is_swap, is_64; << >> before
  out    \* the structure as read; << >> before

vars == <<file, vm, out>>
-----------------------------------------------------------------------------
(* Shifts by whole bytes, masks of whole bytes, and the union of words     *)
(* that have no byte in common.                                            *)
Shl(x, k) == [i \in DOMAIN x |-> IF i > k THEN x[i - k] ELSE 0]
Shr(x, k) == [i \in DOMAIN x |-> IF i + k \in DOMAIN x THEN x[i + k] ELSE 0]
And(x, S) == [i \in DOMAIN x |-> IF i \in S THEN x[i] ELSE 0]
Or(x, y)  == [i \in DOMAIN x |-> IF x[i] # 0 THEN x[i] ELSE y[i]]

s(x, swap) ==
  IF swap
  THEN Or(Or(And(Shr(x, 3), {1}), And(Shl(x, 1), {3})),
          Or(And(Shr(x, 1), {2}), And(Shl(x, 3), {4})))
  ELSE x

(* One line of sl: the bytes in S go up by k places, the others down.      *)
Exchange(x, S, k) == Or(Shl(And(x, S), k), Shr(And(x, DOMAIN x \ S), k))

(* A wrong swap: the step within the pairs of bytes is missing.            *)
sl_pairs(x, swap) ==
  IF swap THEN Exchange(Exchange(x, 1 .. 4, 4), {1, 2, 5, 6}, 2) ELSE x

sl(x, swap) ==
  IF swap
  THEN Exchange(Exchange(Exchange(x, 1 .. 4, 4), {1, 2, 5, 6}, 2), {1, 3, 5, 7}, 1)
  ELSE x

(* The conversion of an unsigned word to one of n bytes.                   *)
Extend(x, n) == [i \in 1 .. n |-> IF i \in DOMAIN x THEN x[i] ELSE 0]
-----------------------------------------------------------------------------
(* The structures of <mach-o/loader.h>, fat.h and nlist.h: the offset and  *)
(* the width of their fields.                                              *)
mach_header == [magic |-> <<0, 4>>, cputype |-> <<4, 4>>, cpusubtype |-> <<8, 4>>,
  filetype |-> <<12, 4>>, ncmds |-> <<16, 4>>, sizeofcmds |-> <<20, 4>>, flags |-> <<24, 4>>]

fat_header == [magic |-> <<0, 4>>, nfat_arch |-> <<4, 4>>]

fat_arch(wide) == IF wide
  THEN [cputype |-> <<0, 4>>, offset |-> <<8, 8>>, size |-> <<16, 8>>]
  ELSE [cputype |-> <<0, 4>>, offset |-> <<8, 4>>, size |-> <<12, 4>>]

load_command == [cmd |-> <<0, 4>>, cmdsize |-> <<4, 4>>]

symtab_command == [symoff |-> <<8, 4>>, nsyms |-> <<12, 4>>,
                   stroff |-> <<16, 4>>, strsize |-> <<20, 4>>]

nlist(wide) == [n_strx |-> <<0, 4>>, n_type |-> <<4, 1>>, n_sect |-> <<5, 1>>,
                n_desc |-> <<6, 2>>, n_value |-> <<8, IF wide THEN 8 ELSE 4>>]

segment(wide) ==
  LET w == IF wide THEN 8 ELSE 4
      a == 8 + NameLen
  IN  [segname |-> <<8, NameLen>>, vmaddr |-> <<a, w>>, vmsize |-> <<a + w, w>>,
       fileoff |-> <<a + 2 * w, w>>, filesize |-> <<a + 3 * w, w>>,
       nsects |-> <<a + 4 * w + 8, 4>>, flags |-> <<a + 4 * w + 12, 4>>]

section(wide) ==
  LET w == IF wide THEN 8 ELSE 4
      a == 2 * NameLen
      b == a + 2 * w
  IN  [sectname |-> <<0, NameLen>>, segname |-> <<NameLen, NameLen>>,
       addr |-> <<a, w>>, size |-> <<a + w, w>>, offset |-> <<b, 4>>,
       align |-> <<b + 4, 4>>, reloff |-> <<b + 8, 4>>, nreloc |-> <<b + 12, 4>>,
       flags |-> <<b + 16, 4>>]

Layout(kind, wide) ==
  CASE kind = "mach_header"  -> mach_header
    [] kind = "fat_header"   -> fat_header
    [] kind = "fat_arch"     -> fat_arch(wide)
    [] kind = "load_command" -> load_command
    [] kind = "symtab"       -> symtab_command
    [] kind = "nlist"        -> nlist(wide)
    [] kind = "segment"      -> segment(wide)
    [] kind = "section"      -> section(wide)

Names == {"sectname", "segname"}

Reverse(x) == [i \in DOMAIN x |-> x[Len(x) + 1 - i]]
Stored(f, x, big) == IF big /\ f \notin Names THEN Reverse(x) ELSE x

(* The bytes of the structure, as they were written: the field f of the    *)
(* record rec stands at its offset.                                        *)
Image(layout, rec, big) ==
  LET Covers(f, i) == i \in layout[f][1] .. layout[f][1] + layout[f][2] - 1
  IN  [i \in 0 .. 2 * NameLen + 64 |->
         IF \E f \in DOMAIN layout : Covers(f, i)
         THEN LET f == CHOOSE f \in DOMAIN layout : Covers(f, i)
              IN  Stored(f, rec[f], big)[i - layout[f][1] + 1]
         ELSE 0]

(* p->f, as the machine loads it.                                          *)
At(p, layout, f) == [i \in 1 .. layout[f][2] |-> p[layout[f][1] + i - 1]]
-----------------------------------------------------------------------------
FAT_MAGIC    == <<190, 186, 254, 202>>   \* 0xcafebabe
FAT_MAGIC_64 == <<191, 186, 254, 202>>
MH_MAGIC     == <<206, 250, 237, 254>>   \* 0xfeedface
MH_MAGIC_64  == <<207, 250, 237, 254>>
AR_START     == <<33, 60, 97, 114, 99, 104, 62, 10>>

Magic(type, wide) ==
  IF type = "f_fat" THEN IF wide THEN FAT_MAGIC_64 ELSE FAT_MAGIC
  ELSE IF wide THEN MH_MAGIC_64 ELSE MH_MAGIC

(* The first bytes of the file.                                            *)
Start(f) ==
  CASE f.type \in {"f_fat", "f_object"} -> Stored("magic", Magic(f.type, f.wide), f.big)
    [] f.type = "f_ranlib" -> AR_START
    [] OTHER -> f.start

Cigams == {Reverse(m) : m \in {FAT_MAGIC, FAT_MAGIC_64, MH_MAGIC, MH_MAGIC_64}}

(* A wrong width: the magic number is looked at before it is swapped.      *)
get_type_unswapped(p) ==
  LET m == SubSeq(p, 1, 4)
      n == s(m, m \in Cigams)
  IN  [type |-> CASE n \in {FAT_MAGIC, FAT_MAGIC_64} -> "f_fat"
                  [] n \in {MH_MAGIC, MH_MAGIC_64} -> "f_object"
                  [] p = AR_START -> "f_ranlib" [] OTHER -> "f_err",
       is_swap |-> m \in Cigams, is_64 |-> m \in {FAT_MAGIC_64, MH_MAGIC_64}]

get_type(p) ==
  LET is_swap == SubSeq(p, 1, 4) \in Cigams
      m == s(SubSeq(p, 1, 4), is_swap)
  IN  [type |-> CASE m \in {FAT_MAGIC, FAT_MAGIC_64} -> "f_fat"
                  [] m \in {MH_MAGIC, MH_MAGIC_64} -> "f_object"
                  [] p = AR_START -> "f_ranlib" [] OTHER -> "f_err",
       is_swap |-> is_swap, is_64 |-> m \in {FAT_MAGIC_64, MH_MAGIC_64}]
-----------------------------------------------------------------------------
(* s(p->f, swap) for every field of 32 bits named.                         *)
Words(p, layout, fields, swap) == [f \in fields |-> s(At(p, layout, f), swap)]

(* is64 ? sl(p64->f, swap) : s(p32->f, swap)                               *)
Longs(p, layout, fields, swap, is64) ==
  [f \in fields |-> IF is64 THEN sl(At(p, layout, f), swap)
                    ELSE Extend(s(At(p, layout, f), swap), 8)]

Bytes(p, layout, fields) == [f \in fields |-> At(p, layout, f)]

Join(a, b) == [f \in DOMAIN a \cup DOMAIN b |-> IF f \in DOMAIN a THEN a[f] ELSE b[f]]

read_load(p, swap) == Words(p, load_command, {"cmd", "cmdsize"}, swap)

read_symtab_cmd(p, swap) == Words(p, symtab_command, DOMAIN symtab_command, swap)

read_segment(p, swap, is64) ==
  LET L == segment(is64)
  IN  Join(Bytes(p, L, {"segname"}),
           Join(Longs(p, L, {"vmaddr", "vmsize", "fileoff", "filesize"}, swap, is64),
                Words(p, L, {"nsects", "flags"}, swap)))

(* A wrong reader: the 32-bit offset is taken from the 64-bit structure.   *)
read_section_mixed(p, swap, is64) ==
  LET L == section(is64)
  IN  Join(Join(Bytes(p, L, Names), Words(p, section(TRUE), {"offset"}, swap)),
           Join(Longs(p, L, {"addr", "size"}, swap, is64),
                Words(p, L, {"align", "reloff", "nreloc", "flags"}, swap)))

read_section(p, swap, is64) ==
  LET L == section(is64)
  IN  Join(Bytes(p, L, Names),
           Join(Longs(p, L, {"addr", "size"}, swap, is64),
                Words(p, L, {"offset", "align", "reloff", "nreloc", "flags"}, swap)))

(* n_desc stays as it is in the file; nothing looks at it.                 *)
read_sym_token(p, swap, is64) ==
  LET L == nlist(is64)
  IN  Join(Bytes(p, L, {"n_type", "n_sect", "n_desc"}),
           Join(Words(p, L, {"n_strx"}, swap), Longs(p, L, {"n_value"}, swap, is64)))

(* The entry of a fat file, before get_sub_mem.                            *)
get_arch_map(p, swap, is64) ==
  LET L == fat_arch(is64)
  IN  Join(Words(p, L, {"cputype"}, swap), Longs(p, L, {"offset", "size"}, swap, is64))

(* The numbers of commands or architectures that get_vm keeps.             *)
get_vm_fat(p, swap) == Words(p, fat_header, {"nfat_arch"}, swap)

(* A wrong mask: the bits of the capabilities are kept instead of cleared. *)
disp_header_kept(p, swap) ==
  LET h == Words(p, mach_header, DOMAIN mach_header, swap)
  IN  Join(h, [subtype |-> h.cpusubtype, caps |-> And(Shr(h.cpusubtype, 3), {1})])

(* get_vm and disp_header read the same fields of the object's header; the *)
(* printed line has the subtype without its top byte, and the top byte.    *)
disp_header(p, swap) ==
  LET h == Words(p, mach_header, DOMAIN mach_header, swap)
  IN  Join(h, [subtype |-> And(h.cpusubtype, 1 .. 3),
               caps |-> And(Shr(h.cpusubtype, 3), {1})])

Read(kind, p, v) ==
  CASE kind = "mach_header"  -> disp_header(p, v.is_swap)
    [] kind = "fat_header"   -> get_vm_fat(p, v.is_swap)
    [] kind = "fat_arch"     -> get_arch_map(p, v.is_swap, v.is_64)
    [] kind = "load_command" -> read_load(p, v.is_swap)
    [] kind = "symtab"       -> read_symtab_cmd(p, v.is_swap)
    [] kind = "nlist"        -> read_sym_token(p, v.is_swap, v.is_64)
    [] kind = "segment"      -> read_segment(p, v.is_swap, v.is_64)
    [] kind = "section"      -> read_section(p, v.is_swap, v.is_64)
-----------------------------------------------------------------------------
Init == file \in Files /\ vm = << >> /\ out = << >>

GetType ==
  /\ vm = << >>
  /\ vm' = get_type(Start(file))
  /\ UNCHANGED <<file, out>>

ReadStructure ==
  /\ vm # << >> /\ out = << >> /\ vm.type \in {"f_fat", "f_object"}
  /\ out' = Read(file.kind, Image(Layout(file.kind, file.wide), file.rec, file.big), vm)
  /\ UNCHANGED <<file, vm>>

Next == GetType \/ ReadStructure

Spec == Init /\ [][Next]_vars
-----------------------------------------------------------------------------
(* The characters strcmp sees from a name on: a name of NameLen characters *)
(* has no NUL and runs on into what follows it in the structure.           *)
CString(x) ==
  LET nuls == {i \in DOMAIN x : x[i] = 0}
  IN  IF nuls = {} THEN x ELSE SubSeq(x, 1, (CHOOSE i \in nuls : \A j \in nuls : i <= j) - 1)

(* A wrong comparison: only the section is compared.                       *)
Selected_sect(sec, pair) == CString(sec.sectname \o sec.segname) = pair[2]

(* One clause of filter_disp: both names are those asked for.              *)
Selected(sec, pair) ==
  /\ CString(sec.sectname \o sec.segname \o sec.addr \o sec.size) = pair[2]
  /\ CString(sec.segname \o sec.addr \o sec.size) = pair[1]
-----------------------------------------------------------------------------
(* The type, byte order and width are those the file was written with, in  *)
(* both orders and for both kinds of header, and nothing else is taken for *)
(* a file of a known type.                                                 *)
TypeAsWritten ==
  vm # << >> =>
    /\ vm.type = file.type
    /\ vm.type \in {"f_fat", "f_object"} => vm.is_swap = file.big /\ vm.is_64 = file.wide
    /\ vm.type \notin {"f_fat", "f_object"} => ~vm.is_swap /\ ~vm.is_64

(* Every field has the value it was written with, addresses of 32 bits     *)
(* being extended with zeros; n_desc, which is never swapped, is left out. *)
ReadBack ==
  \A f \in DOMAIN out \cap DOMAIN file.rec :
    f # "n_desc" => out[f] = Extend(file.rec[f], Len(out[f]))

(* The two columns of the header line are together the field of the file.  *)
NothingMasked ==
  out # << >> /\ file.kind = "mach_header" =>
    /\ Or(out.subtype, Shl(out.caps, 3)) = file.rec.cpusubtype
    /\ out.subtype[4] = 0 /\ \A i \in 2 .. 4 : out.caps[i] = 0

(* otool dumps a section when its two names are those asked for, read in   *)
(* place in fields of NameLen bytes; a name that fills its field has no    *)
(* NUL and is beyond what the comparison can answer.                       *)
SelectedByName ==
  out # << >> /\ file.kind = "section" =>
    LET Name(f) == CString(file.rec[f])
    IN  (\A f \in Names : Len(Name(f)) < NameLen) =>
          \A pair \in Asked : Selected(out, pair) <=> pair = <<Name("segname"), Name("sectname")>>

(* What the tools know of a file is what was written, in every structure,  *)
(* byte order and width: its type, every field, the header line, and which *)
(* sections bear a name.                                                   *)
FieldsAsWritten == TypeAsWritten /\ ReadBack /\ NothingMasked /\ SelectedByName
=============================================================================
