------------------------------ MODULE FileBytes ------------------------------
(***************************************************************************)
(* The three readers of bytes of the tools, each alone: the structures of  *)
(* Mach-O (Decode), the headers of archive members (Archive), the dump of  *)
(* a section (HexDump).  They share no state; `part` says which one is     *)
(* followed, and the variables of the others stay empty.                   *)
(***************************************************************************)
EXTENDS Integers, Sequences

CONSTANTS
  NameLen,   \* 16, the length of the name fields
  Letters,   \* the characters names are made of, 0 among them
  MaxLong,   \* 256, the longest long name of a member
  Word64,    \* the modulus of a size_t
  Sizes, Addrs, Cpus,  \* the sections dumped and the types of processor
  FewCpus    \* those for which sections that are not empty are dumped

(* Names have at least one character; places and sizes are a size_t's.     *)
ASSUME FileBytesAssumption ==
  /\ NameLen \in Nat \ {0} /\ Letters \subseteq Nat
  /\ Word64 \in Nat \ {0} /\ Sizes \subseteq Nat /\ Addrs \subseteq Nat
  /\ Cpus \subseteq Int /\ MaxLong \in Nat

VARIABLES part, file, vm, out, addr, size, i, done

vars == <<part, file, vm, out, addr, size, i, done>>
dump == <<addr, size, i, done>>
-----------------------------------------------------------------------------
(* The formats, to make files of.                                          *)
MachO == INSTANCE Decode WITH Files <- {}, Asked <- {}
Ar == INSTANCE Archive WITH Archives <- {}, ar <- file

Kinds == [f_object |-> {"mach_header", "load_command", "symtab", "nlist", "segment", "section"},
          f_fat    |-> {"fat_header", "fat_arch"}]

NameValues == [1 .. NameLen -> Letters]

(* The bytes of the field f: no two fields and no two places alike.        *)
Own(layout, f) == [k \in 1 .. layout[f][2] |-> 2 * layout[f][1] + k]

(* Every field holds bytes of its own, or one of them is zero, or all.     *)
Records(layout) ==
  LET NameIn(f) == IF f \in DOMAIN layout THEN NameValues ELSE {<< >>}
      Choices   == [sectname : NameIn("sectname"), segname : NameIn("segname"),
                    zero : {{}} \cup {{f} : f \in DOMAIN layout} \cup {DOMAIN layout}]
  IN  {[f \in DOMAIN layout |->
          IF f \in MachO!Names THEN c[f]
          ELSE IF f \in c.zero THEN [k \in 1 .. layout[f][2] |-> 0] ELSE Own(layout, f)] :
         c \in Choices}

Good ==
  UNION {UNION {{[type |-> t, big |-> b, wide |-> w, kind |-> k, rec |-> r] :
                   r \in Records(MachO!Layout(k, w))} :
                k \in Kinds[t], b \in BOOLEAN, w \in BOOLEAN} : t \in DOMAIN Kinds}

(* Starts of files of no known type: nearly those of known ones.           *)
Starts == {<<33, 60, 97, 114, 99, 104, 62, 0>>, <<202, 254, 186, 189, 0, 0, 0, 1>>,
           <<254, 202, 190, 186, 0, 0, 0, 1>>, <<0, 0, 0, 0, 0, 0, 0, 0>>}

Files == Good \cup {[type |-> "f_ranlib", rec |-> << >>]}
              \cup {[type |-> "f_err", start |-> b, rec |-> << >>] : b \in Starts}

Short == UNION {[1 .. n -> Letters \ {0}] : n \in 0 .. NameLen + 1}

Pad(s, n) == [k \in 1 .. n |-> IF k <= Len(s) THEN s[k] ELSE Ar!Blank]

(* Lengths of long names: none, short, the limit, and those that wrap:     *)
(* 2^32 + 5, 10 * 2^32, and one of thirteen digits.                        *)
Lengths == {<<48>>, <<53>>, <<49, 50>>, <<49, 51>>, <<>>,
            <<52, 50, 57, 52, 57, 54, 55, 51, 48, 49>>,
            <<52, 50, 57, 52, 57, 54, 55, 50, 57, 54, 48>>,
            <<49, 48, 48, 48, 48, 48, 48, 48, 48, 48, 48, 48, 48>>}

MemberNames == {Pad(Ar!LongMark \o l, 16) : l \in Lengths}
  \cup {Pad(Ar!Symdef, 16), Pad(Ar!Symdef \o <<32, 83, 79, 82, 84, 69, 68>>, 16),
        Pad(<<97, 46, 111>>, 16), Pad(<<97, 0, 111>>, 16), Pad(<<>>, 16)}

(* What follows the header: a long name, NULs in it, the symbol index.     *)
Rests == {[k \in 1 .. 24 |-> IF k = 24 \/ k \in z THEN 0 ELSE 97] : z \in {{}, {3}, {1}}}
  \cup {Pad(Ar!Symdef \o <<0, 57, 0>>, 23) \o <<0>>}

Archives == [name : MemberNames, size : {Pad(<<>>, 8), Pad(<<52, 48>>, 8), [k \in 1 .. 8 |-> 57]},
             rest : Rests, end : {Ar!ArEnd, <<96, 10, 32, 32>>},
             window : {59, 63, 64, 68, 69, 75, 76, 84}]
-----------------------------------------------------------------------------
Structures == INSTANCE Decode WITH Asked <- Short \X Short
Members == INSTANCE Archive WITH ar <- file
Dumps == INSTANCE HexDump

NoDump == addr = 0 /\ size = 0 /\ i = 0 /\ done = FALSE

Init ==
  \/ part = "structure" /\ Structures!Init /\ NoDump
  \/ part = "member" /\ Members!Init /\ vm = << >> /\ NoDump
  \/ part = "dump" /\ Dumps!Init /\ file = << >> /\ (size > 0 => vm.cpu \in FewCpus)

ReadStructure == part = "structure" /\ Structures!Next /\ UNCHANGED <<part, dump>>
ReadMember    == part = "member" /\ Members!Next /\ UNCHANGED <<part, vm, dump>>
PrintDump     == part = "dump" /\ Dumps!Next /\ UNCHANGED <<part, file>>

Next == ReadStructure \/ ReadMember \/ PrintDump

Spec == Init /\ [][Next]_vars
-----------------------------------------------------------------------------
(* Fields, types and names of Mach-O files of both byte orders and widths  *)
(* are those that were written (Decode).                                   *)
FieldsAsWritten == part = "structure" => Structures!FieldsAsWritten

(* A member that is accepted lies in the window, with the name and the     *)
(* lengths its header states (Archive).                                    *)
MemberAsStated == part = "member" => Members!MemberAsStated

(* A dump gives back the section and its architecture (HexDump).           *)
DumpReadsBack == part = "dump" => Dumps!DumpReadsBack
=============================================================================
