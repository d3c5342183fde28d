------------------------------- MODULE HexDump -------------------------------
(***************************************************************************)
(* What otool prints of a section: disp_data in display.c, one byte per    *)
(* step, after the heading with the name of the architecture (get_cpu).    *)
(*                                                                         *)
(* The bytes of the section are named by their place, so that a byte left  *)
(* out or printed twice shows.  A piece of output is a record: an address  *)
(* with its least number of digits, a byte, a blank, a tab, a newline.     *)
(***************************************************************************)
EXTENDS Integers, Sequences

CONSTANTS
  Sizes,    \* the sizes of section considered
  Addrs,    \* the addresses considered
  Cpus,     \* the values of cputype considered
  Word64    \* the modulus of a size_t

VARIABLES
  vm,    \* is_64, is_swap, cpu
  addr,  \* the address of the section
  size,  \* its size
  i,     \* the loop counter
  done,  \* disp_data has returned
  out    \* the pieces printed

vars == <<vm, addr, size, i, done, out>>

(* The CPU_TYPE_ names get_cpu tests for before its table.                 *)
Abi64 == 16777216
CPU_TYPE_ANY == -1
CPU_TYPE_X86_64 == Abi64 + 7
CPU_TYPE_ARM64 == Abi64 + 12
CPU_TYPE_POWERPC64 == Abi64 + 18

names == <<"", "vax", "romp", "", "ns32032", "ns32332", "", "i386", "mips", "ns32532",
  "", "hppa", "arm", "mc88000", "sparc", "i860", "i860_little", "rs6000", "ppc">>

(* A wrong index: the table is taken to start with the first type.         *)
TableEntryShifted(cpu) == names[cpu]

(* names[cpu], counted from 0.                                             *)
TableEntry(cpu) == names[cpu + 1]

get_cpu(cpu) ==
  CASE cpu = CPU_TYPE_ANY       -> "any"
    [] cpu = CPU_TYPE_X86_64    -> "x86_64"
    [] cpu = CPU_TYPE_POWERPC64 -> "ppc64"
    [] cpu = CPU_TYPE_ARM64     -> "arm64"
    [] cpu \in 1 .. 18          -> TableEntry(cpu)
    [] OTHER                    -> "unknown"

Name(text) == [kind |-> "name", text |-> text]
Address(n, digits) == [kind |-> "address", value |-> n, digits |-> digits]
ByteAt(k) == [kind |-> "byte", place |-> k]
Blank == [kind |-> "blank"]
Tab == [kind |-> "tab"]
Newline == [kind |-> "newline"]

Init ==
  /\ vm \in [is_64 : BOOLEAN, is_swap : BOOLEAN, cpu : Cpus]
  /\ addr \in Addrs /\ size \in Sizes
  /\ i = 0 /\ done = FALSE
  /\ out = <<Name(get_cpu(vm.cpu)), Newline>>

(* At the start of a row: the address, which a size_t holds.               *)
RowStart ==
  IF i % 16 = 0
  THEN <<Address((addr + i) % Word64, IF vm.is_64 THEN 16 ELSE 8), Tab>>
  ELSE << >>

(* A wrong group: the words are halves.                                    *)
SeparatorPairs == IF vm.is_swap /\ i % 2 # 1 THEN << >> ELSE <<Blank>>

(* In a file of the other byte order the bytes of a word stand together.   *)
Separator == IF vm.is_swap /\ i % 4 # 3 THEN << >> ELSE <<Blank>>

RowEnd == IF i % 16 = 15 THEN <<Newline>> ELSE << >>

DispByte ==
  /\ i < size
  /\ out' = out \o RowStart \o <<ByteAt(i)>> \o Separator \o RowEnd
  /\ i' = i + 1
  /\ UNCHANGED <<vm, addr, size, done>>

(* A wrong end: every dump gets a last newline.                            *)
LastNewlineAlways == <<Newline>>

(* i % 16 != 0                                                             *)
LastNewline == IF i % 16 # 0 THEN <<Newline>> ELSE << >>

EndData ==
  /\ i >= size /\ ~done
  /\ out' = out \o LastNewline /\ done' = TRUE
  /\ UNCHANGED <<vm, addr, size, i>>

Next == DispByte \/ EndData

Spec == Init /\ [][Next]_vars
-----------------------------------------------------------------------------
Bytes == {k \in DOMAIN out : out[k].kind = "byte"}

Ends == {k \in DOMAIN out : out[k] = Newline}

(* The k-th piece stands in the row that begins after the newline a.       *)
InRow(a, k) == a < k /\ \A j \in a + 1 .. k : j \notin Ends

(* Every byte of the section stands once and in its order.                 *)
EveryByteOnce ==
  /\ \A place \in 0 .. size - 1 : \E k \in Bytes : out[k].place = place
  /\ \A k \in Bytes : out[k].place \in 0 .. size - 1
  /\ \A j, k \in Bytes : j < k => out[j].place < out[k].place

(* Each row begins with the address of its first byte, has the fifteen     *)
(* bytes that follow, as far as there are some, and no others; no row is   *)
(* without a byte and no address stands elsewhere.                         *)
RowsBegin ==
  /\ \A a \in Ends \ {Len(out)} :
       /\ a + 3 \in Bytes
       /\ LET first == out[a + 3].place
          IN  /\ out[a + 1] = Address((addr + first) % Word64, out[3].digits)
              /\ \A k \in Bytes : InRow(a, k) <=> out[k].place \in first .. first + 15
  /\ \A k \in DOMAIN out : out[k].kind = "address" => k - 1 \in Ends

(* What is printed gives back the section, and no row lacks its newline.   *)
ReadsBack == EveryByteOnce /\ RowsBegin /\ out[Len(out)] = Newline

(* Between two blanks of a row stands one byte, or, in a file of the other *)
(* byte order, the four bytes of a word, whose digits then read as its     *)
(* value; no word is divided between two rows.                             *)
WordsTogether ==
  \A j, k \in DOMAIN out :
    /\ j < k /\ out[j].kind \in {"tab", "blank"} /\ out[k] = Blank
    /\ \A l \in j + 1 .. k - 1 : l \in Bytes
    => /\ k - j - 1 = IF vm.is_swap THEN 4 ELSE 1
       /\ vm.is_swap => out[j + 1].place % 4 = 0

(* The types that <mach/machine.h> gives a meaning, but for the 68000 (6). *)
KnownCpus == {CPU_TYPE_ANY, CPU_TYPE_X86_64, CPU_TYPE_POWERPC64, CPU_TYPE_ARM64}
  \cup ((1 .. 18) \ {3, 6, 10})

(* Two types of processor share a name only when it is empty or "unknown", *)
(* and that is the name of no type that has a meaning.                     *)
ArchitectureToldApart ==
  LET unnamed == out[1].text \in {"", "unknown"}
  IN  /\ vm.cpu \in KnownCpus <=> ~unnamed
      /\ ~unnamed => \A cpu \in Cpus : get_cpu(cpu) = out[1].text => cpu = vm.cpu

(* A dump can be read back: its heading tells the architecture, its rows   *)
(* give every byte and its address, at any moment in whole words.          *)
DumpReadsBack == ArchitectureToldApart /\ WordsTogether /\ (done => ReadsBack)
=============================================================================
