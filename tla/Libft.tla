-------------------------------- MODULE Libft --------------------------------
(***************************************************************************)
(* The functions of libft beside the buffer and the growable array: the    *)
(* copy (MemMove, whose names are those of this module), writing to memory *)
(* (CMemory), reading strings (CStrings), numbers (Numbers), wide text     *)
(* (Wide), lists (Lists) and the other output functions (Output).  They    *)
(* share nothing but the library: `part` says which one is followed, and   *)
(* the variables of the others keep the values below.                      *)
(***************************************************************************)
EXTENDS MemMove, Sequences, FiniteSets

CONSTANTS
  NULL,
  Inputs, WordSize,                  \* of CStrings
  Values, Texts, MaxCalls,           \* of Numbers
  Fields, Strings,                   \* of Wide
  Node, MaxFailed,                   \* of Lists
  BufSize, IndSize, Fds, MaxChars    \* of Output

(* A buffer that is installed has room for a character.                    *)
ASSUME BufferAssumption ==
  BufSize \in Nat /\ BufSize > 0 /\ IndSize \in Nat /\ IndSize > 0

(* Memory is finite, and no node is at NULL.                               *)
ASSUME NodeAssumption == IsFiniteSet(Node) /\ NULL \notin Node

VARIABLES
  part,
  memory, call,                                             \* of CMemory
  in, out,                                                  \* of CStrings
  printer, buffer, calls, last, shown, parsed,              \* of Numbers
  info, conv, str, phase, turn, bytes,                      \* of Wide
  heap, ptr, pc, lst, prev, first, stack, deleting, whole, visited, lost,
  failed,                                                   \* of Lists
  st, printed, direct, dropped, excuse                      \* of Output

Memory == INSTANCE CMemory WITH Chars <- Byte, mem <- memory
Reading == INSTANCE CStrings
Numerals == INSTANCE Numbers
WideText == INSTANCE Wide WITH i <- turn, pc <- phase, out <- bytes
Linked == INSTANCE Lists
Channel == INSTANCE Output WITH Size <- BufSize

numbers == <<printer, buffer, calls, last, shown, parsed>>
wide == <<info, conv, str, phase, turn, bytes>>
lists == <<heap, ptr, pc, lst, prev, first, stack, deleting, whole, visited, lost, failed>>
output == <<st, printed, direct, dropped, excuse>>
allvars == <<part, vars, memory, call, in, out, numbers, wide, lists, output>>
-----------------------------------------------------------------------------
(* A copy that never starts, and is not done.                              *)
NoCopy == mem = << >> /\ before = << >> /\ dst = 0 /\ src = 1 /\ len = 1 /\ i = 2

NoMemory == memory = << >> /\ call = << >>

NoReading == in = << >> /\ out = << >>

NoNumbers == /\ printer = << >> /\ buffer = << >> /\ calls = 0
             /\ last = 0 /\ shown = << >> /\ parsed = << >>

NoWideText == /\ info = << >> /\ conv = << >> /\ str = << >>
              /\ phase = << >> /\ turn = 0 /\ bytes = << >>

NoOutput == st = << >> /\ printed = 0 /\ direct = {} /\ dropped = {} /\ excuse = FALSE

(* The heap of the lists is empty at first, and stays so.                  *)
LibftInit ==
  /\ part \in {"copy", "memory", "strings", "numbers", "wide", "lists", "output"}
  /\ IF part = "copy" THEN Init ELSE NoCopy
  /\ IF part = "memory" THEN Memory!Init ELSE NoMemory
  /\ IF part = "strings" THEN Reading!Init ELSE NoReading
  /\ IF part = "numbers" THEN Numerals!Init ELSE NoNumbers
  /\ IF part = "wide" THEN WideText!Init ELSE NoWideText
  /\ IF part = "output" THEN Channel!Init ELSE NoOutput
  /\ Linked!Init

Only(p) ==
  /\ part = p /\ part' = p
  /\ p # "copy" => UNCHANGED vars
  /\ p # "memory" => UNCHANGED <<memory, call>>
  /\ p # "strings" => UNCHANGED <<in, out>>
  /\ p # "numbers" => UNCHANGED numbers
  /\ p # "wide" => UNCHANGED wide
  /\ p # "lists" => UNCHANGED lists
  /\ p # "output" => UNCHANGED output

LibftNext ==
  \/ Only("copy") /\ Next
  \/ Only("memory") /\ Memory!Next
  \/ Only("strings") /\ Reading!Next
  \/ Only("numbers") /\ Numerals!Next
  \/ Only("wide") /\ WideText!Next
  \/ Only("lists") /\ Linked!Next
  \/ Only("output") /\ Channel!Next

LibftSpec == LibftInit /\ [][LibftNext]_allvars
-----------------------------------------------------------------------------
(* The functions that write do what the C standard says of their           *)
(* namesakes, whatever the memory holds and however the blocks of          *)
(* ft_memmove overlap, and touch nothing else; but ft_strcpy, alone or in  *)
(* ft_strjoin, clears up to the next NUL, behind the block too when the    *)
(* block has none left (MemMove, CMemory).                                 *)
WritesAsInC ==
  /\ CopiedAtOnce
  /\ part = "memory" => Memory!BlocksAsInC

(* The functions that read strings agree with the C standard, for every    *)
(* byte, and none reads past the end of a string but ft_strlen_fast, up to *)
(* the end of a word (CStrings).                                           *)
ReadsAsInC == part = "strings" => Reading!StringsAsInC

(* What is printed as text reads back as the number, or as the wide        *)
(* characters, that were given (Numbers, Wide).                            *)
TextReadsBack ==
  /\ part = "numbers" => Numerals!NumbersReadBack
  /\ part = "wide" => WideText!WideReadsBack

(* The lists are kept whole by every step, also when malloc fails (Lists). *)
ListsKept == [][part = "lists" => Linked!StepKeepsLists]_allvars

(* Output that mixes buffered and direct calls arrives, once, where it     *)
(* should and in the order it can have (Output).                           *)
OutputInOrder == part = "output" => Channel!OutputInOrder
=============================================================================
