----------------------------- MODULE ObjectWalk ------------------------------
(***************************************************************************)
(* disp_object: the walk over the load commands of one Mach-O object       *)
(* (parsing.c), with the symbol table reader, the exchange sort and the    *)
(* printing of the symbols (nm_disp.c).                                    *)
(*                                                                         *)
(* Offsets are relative to vm.mem.data and the window holds `size` bytes.  *)
(* What the file holds is revealed as it is read: a step that decodes a    *)
(* load command, a section header or a symbol takes any value of LoadCmds, *)
(* Sects or Syms.  Every load command is read at a larger offset than the  *)
(* one before (CommandsAdvance), so no command is ever read twice.         *)
(***************************************************************************)
EXTENDS Symbols, Naturals, Sequences, FiniteSets

CONSTANTS
  MachHeaderMin, \* sizeof(t_mach_header), what get_vm checked
  MachHeader,    \* size of the header of this word size
  LoadCmd,       \* sizeof(t_load_cmd)
  SegCmd,        \* size of a segment command of this word size
  Section,       \* size of a section header of this word size
  SymtabCmd,     \* sizeof(t_symtab_cmd)
  Nlist,         \* size of a symbol entry of this word size
  Word64,        \* 2^64, the modulus of the bounds checks
  Sizes,         \* the window sizes considered
  MaxCmds,       \* bound on ncmds
  LoadCmds,      \* load commands a file may hold
  Sects,         \* section headers a file may hold
  Syms,          \* symbol entries a file may hold, with their names
  OutOfBounds,   \* the constant name "OUT OF BOUNDS", as a name record
  Targets,       \* option settings (t_target)
  AllocMayFail   \* malloc may return NULL

ASSUME SizesAssumption ==
  /\ {MachHeaderMin, MachHeader, LoadCmd, SegCmd, Section, SymtabCmd, Nlist}
       \subseteq Nat \ {0}
  /\ LoadCmd <= SegCmd
  /\ LoadCmd <= SymtabCmd
  /\ MaxCmds \in Nat
  /\ Word64 \in Nat \ {0}
  /\ Sizes \subseteq {z \in Nat : z >= MachHeaderMin}
  /\ AllocMayFail \in BOOLEAN

(* The fields the walk uses.  A name is where its bytes start in the       *)
(* string table, their number before the NUL, and its strcmp rank.         *)
ASSUME FileAssumption ==
  /\ LoadCmds \subseteq [cmd : {"LC_SEGMENT", "LC_SYMTAB", "other"},
                         cmdsize : Nat, count : Nat, symoff : Nat, stroff : Nat]
  /\ Sects \subseteq [sectname : STRING, segname : STRING,
                      offset : Nat, size : Nat]
  /\ Syms \subseteq [type : SymTypes, stab : BOOLEAN, ext : BOOLEAN,
                     n_sect : Nat, value : Nat, strx : Nat, len : Nat,
                     rank : Nat]
  /\ OutOfBounds \in [at : Nat, len : Nat, rank : Nat]

OK == 0
ERR_SILENT == 1
ERR_MEM == 133
Running == 999     \* no result yet

VARIABLES
  size,        \* vm.mem.size
  ncmds,       \* vm.ncmds
  target,      \* vm.target
  pc,          \* "cmd", "sect" (disp_sections), "sym" (store_symtab),
               \* "sort" (sort_symtab), "print" (disp_symtab), "done"
  offset,      \* offset of the next load command
  i,           \* load commands left behind
  cmd,         \* the command being processed, NoCmd at pc = "cmd"
  n,           \* sections or symbols of it done; symbols printed
  row, col,    \* i and j of sort_symtab, counted from 1
  sect_types,  \* the section letters
  sym_tokens,  \* the stored symbols
  heap,        \* which of the two arrays own a block
  listing,     \* the symbol lines printed
  dumped,      \* the sections dumped in full
  rc,          \* the result of disp_object
  reach,       \* history: one past the highest byte read
  sections,    \* history: every section header read
  symbols      \* history: every symbol entry read

walk == <<pc, offset, i, cmd, n>>
sort == <<row, col>>
arrays == <<sect_types, sym_tokens, heap>>
output == <<listing, dumped, rc>>
history == <<sections, symbols>>
vars == <<size, ncmds, target, walk, sort, arrays, output, reach, history>>

NoCmd == [cmd |-> "none", cmdsize |-> 0, count |-> 0, symoff |-> 0, stroff |-> 0]

(* CHECK_LEN: the sums it is given are made of 32-bit fields and of        *)
(* offsets that already passed it, so that 64 bits hold them, but for the  *)
(* end of a section (DataFits).                                            *)
CHECK_LEN(l) == l <= size

Touch(end) == reach' = IF end > reach THEN end ELSE reach

Init ==
  /\ size \in Sizes /\ ncmds \in 0 .. MaxCmds /\ target \in Targets
  /\ pc = "cmd" /\ offset = MachHeader /\ i = 0 /\ cmd = NoCmd /\ n = 0
  /\ row = 0 /\ col = 0
  /\ sect_types = << >> /\ sym_tokens = << >> /\ heap = {}
  /\ listing = << >> /\ dumped = << >> /\ rc = Running
  /\ reach = MachHeaderMin /\ sections = << >> /\ symbols = << >>

(* A wrong clean-up: only the first array is released.                     *)
free_first(h) == h \ {"sect_types"}

(* free_arrays: what is left of the heap.                                  *)
free_arrays(h) == h \ {"sect_types", "sym_tokens"}

(* CHECK_CLEAN: free both arrays and return the code.                      *)
Fail(code) ==
  /\ pc' = "done" /\ rc' = code /\ cmd' = NoCmd /\ n' = 0
  /\ heap' = free_arrays(heap)
  /\ UNCHANGED <<offset, i, listing, dumped>>

(* A wrong turn of the loop: the cursor of the inner loop is not reset.    *)
NextCommandKeepsCursor(c) ==
  /\ pc' = "cmd" /\ offset' = offset + c.cmdsize /\ i' = i + 1
  /\ cmd' = NoCmd /\ n' = n

(* The loop of disp_object goes on: offset += sect_size.                   *)
NextCommand(c) ==
  /\ pc' = "cmd" /\ offset' = offset + c.cmdsize /\ i' = i + 1
  /\ cmd' = NoCmd /\ n' = 0

-----------------------------------------------------------------------------
(* disp_segment: the command header lies inside the window, or ERR_MEM.    *)
TruncatedCommand ==
  /\ pc = "cmd" /\ i < ncmds
  /\ ~CHECK_LEN(offset + LoadCmd)
  /\ Fail(ERR_MEM)
  /\ UNCHANGED <<size, ncmds, target, sort, sect_types, sym_tokens, reach, history>>

(* A wrong check: a command of size zero is accepted.                      *)
RefusedNever(c) == FALSE

(* CHECK(c.cmdsize == 0): a command that does not advance is refused.      *)
Refused(c) == c.cmdsize = 0

EmptyCommand(c) ==
  /\ pc = "cmd" /\ i < ncmds
  /\ CHECK_LEN(offset + LoadCmd) /\ Refused(c)
  /\ Touch(offset + LoadCmd)
  /\ Fail(ERR_SILENT)
  /\ UNCHANGED <<size, ncmds, target, sort, sect_types, sym_tokens, history>>

(* A command that passed the checks on its header, c having been read.     *)
ReadCommand(c) ==
  /\ pc = "cmd" /\ i < ncmds
  /\ CHECK_LEN(offset + LoadCmd) /\ ~Refused(c)

(* nm reads symbol tables, otool does not.                                 *)
IsSymtab(c) == c.cmd = "LC_SYMTAB" /\ ~target.is_otool

(* The two checks before the sections of a segment are read ...            *)
SectionTable(c) == offset + SegCmd + c.count * Section

SegmentFits(c) ==
  /\ CHECK_LEN(offset + SegCmd)
  /\ CHECK_LEN(SectionTable(c))

(* A wrong table end: the offset of the table is forgotten.                *)
SymbolTableAtZero(c) == c.count * Nlist

(* ... and before its symbols are.                                         *)
SymbolTable(c) == c.symoff + c.count * Nlist

SymtabFits(c) ==
  /\ CHECK_LEN(offset + SymtabCmd)
  /\ CHECK_LEN(SymbolTable(c))

Enter(c, p, header) ==
  /\ pc' = p /\ cmd' = c /\ n' = 0
  /\ Touch(offset + header)
  /\ UNCHANGED <<size, ncmds, target, sort, offset, i, arrays, output, history>>

EnterSegment(c) ==
  /\ ReadCommand(c) /\ c.cmd = "LC_SEGMENT" /\ SegmentFits(c)
  /\ Enter(c, "sect", SegCmd)

EnterSymtab(c) ==
  /\ ReadCommand(c) /\ IsSymtab(c) /\ SymtabFits(c)
  /\ Enter(c, "sym", SymtabCmd)

TruncatedTable(c) ==
  /\ ReadCommand(c)
  /\ \/ c.cmd = "LC_SEGMENT" /\ ~SegmentFits(c)
        /\ Touch(offset + IF CHECK_LEN(offset + SegCmd) THEN SegCmd ELSE LoadCmd)
     \/ IsSymtab(c) /\ ~SymtabFits(c)
        /\ Touch(offset + IF CHECK_LEN(offset + SymtabCmd) THEN SymtabCmd ELSE LoadCmd)
  /\ Fail(ERR_MEM)
  /\ UNCHANGED <<size, ncmds, target, sort, sect_types, sym_tokens, history>>

SkipCommand(c) ==
  /\ ReadCommand(c) /\ c.cmd # "LC_SEGMENT" /\ ~IsSymtab(c)
  /\ Touch(offset + LoadCmd)
  /\ NextCommand(c)
  /\ UNCHANGED <<size, ncmds, target, sort, arrays, output, history>>

-----------------------------------------------------------------------------
(* array_push, as far as the walk sees it: the element is appended, or     *)
(* malloc failed.  A failed first push may still have left a block behind. *)
PushOutcomes == IF AllocMayFail THEN BOOLEAN ELSE {TRUE}

HeapAfterPush(ok, name) == IF ok THEN {heap \cup {name}} ELSE {heap, heap \cup {name}}

(* A wrong check: only where the section starts is looked at.              *)
DataStarts(s) == CHECK_LEN(s.offset)

(* CHECK_LEN(sec.offset + sec.size), a 64-bit sum.                         *)
DataFits(s) == CHECK_LEN((s.offset + s.size) % Word64)

(* disp_sections, one turn: record the letter, and dump the section if the *)
(* options ask for it.  The result of array_push is not looked at.         *)
DispSection(s) ==
  /\ pc = "sect" /\ n < cmd.count
  /\ \E ok \in PushOutcomes :
       /\ sect_types' = IF ok THEN Append(sect_types, get_sect_type(s.sectname))
                        ELSE sect_types
       /\ IF filter_disp(target, s) /\ ~DataFits(s)
          THEN Fail(ERR_MEM)
          ELSE /\ n' = n + 1
               /\ heap' \in HeapAfterPush(ok, "sect_types")
               /\ dumped' = IF filter_disp(target, s) THEN Append(dumped, s) ELSE dumped
               /\ UNCHANGED <<pc, offset, i, cmd, listing, rc>>
  /\ LET header == offset + SegCmd + (n + 1) * Section
         data   == s.offset + s.size
     IN  Touch(IF filter_disp(target, s) /\ DataFits(s) /\ data > header
               THEN data ELSE header)
  /\ sections' = Append(sections, s)
  /\ UNCHANGED <<size, ncmds, target, sort, sym_tokens, symbols>>

EndSegment ==
  /\ pc = "sect" /\ n = cmd.count
  /\ NextCommand(cmd)
  /\ UNCHANGED <<size, ncmds, target, sort, arrays, output, reach, history>>

-----------------------------------------------------------------------------
(* A wrong check: only the first byte of the name is looked at.            *)
check_start(at, len) == at < size

(* check_string: walk from the first byte to a NUL inside the window.      *)
check_string(at, len) == at + len < size

(* The highest byte check_string dereferences, plus one.                   *)
StringReach(at, len) ==
  IF at >= size THEN 0 ELSE IF at + len < size THEN at + len + 1 ELSE size

(* store_symtab, one turn.                                                 *)
StoreSymbol(s) ==
  /\ pc = "sym" /\ n < cmd.count
  /\ LET at    == cmd.stroff + s.strx
         name  == IF check_string(at, s.len)
                  THEN [at |-> at, len |-> s.len, rank |-> s.rank] ELSE OutOfBounds
         entry == cmd.symoff + (n + 1) * Nlist
     IN  /\ Touch(IF StringReach(at, s.len) > entry THEN StringReach(at, s.len) ELSE entry)
         /\ \E ok \in PushOutcomes :
              IF ok
              THEN /\ sym_tokens' = Append(sym_tokens, [sym |-> s, name |-> name])
                   /\ n' = n + 1
                   /\ heap' \in HeapAfterPush(TRUE, "sym_tokens")
                   /\ UNCHANGED <<pc, offset, i, cmd, output>>
              ELSE Fail(ERR_SILENT) /\ UNCHANGED sym_tokens
  /\ symbols' = Append(symbols, s)
  /\ UNCHANGED <<size, ncmds, target, sort, sect_types, sections>>

EndSymtab ==
  /\ pc = "sym" /\ n = cmd.count
  /\ NextCommand(cmd)
  /\ UNCHANGED <<size, ncmds, target, sort, arrays, output, reach, history>>

-----------------------------------------------------------------------------
(* The loop of disp_object is over; disp_symtab sorts the symbols first.   *)
StartSort ==
  /\ pc = "cmd" /\ i = ncmds
  /\ pc' = "sort" /\ row' = 1 /\ col' = 2
  /\ UNCHANGED <<size, ncmds, target, offset, i, cmd, n, arrays, output, reach, history>>

(* A wrong loop: after an exchange the inner loop starts again.            *)
ExchangeAgain ==
  /\ pc = "sort" /\ col <= Len(sym_tokens)
  /\ IF should_swap(sym_tokens[row], sym_tokens[col], target)
     THEN sym_tokens' = Swap(sym_tokens, row, col) /\ col' = row + 1
     ELSE col' = col + 1 /\ UNCHANGED sym_tokens
  /\ UNCHANGED <<size, ncmds, target, walk, row, sect_types, heap, output, reach, history>>

(* sort_symtab, one turn of the inner loop.                                *)
Exchange ==
  /\ pc = "sort" /\ col <= Len(sym_tokens)
  /\ sym_tokens' = IF should_swap(sym_tokens[row], sym_tokens[col], target)
                   THEN Swap(sym_tokens, row, col)
                   ELSE sym_tokens
  /\ col' = col + 1
  /\ UNCHANGED <<size, ncmds, target, walk, row, sect_types, heap, output, reach, history>>

(* A wrong loop: the inner loop starts one symbol too far.                 *)
NextRowTooFar ==
  /\ pc = "sort" /\ row <= Len(sym_tokens) /\ col > Len(sym_tokens)
  /\ row' = row + 1 /\ col' = row + 3
  /\ UNCHANGED <<size, ncmds, target, walk, arrays, output, reach, history>>

NextRow ==
  /\ pc = "sort" /\ row <= Len(sym_tokens) /\ col > Len(sym_tokens)
  /\ row' = row + 1 /\ col' = row + 2
  /\ UNCHANGED <<size, ncmds, target, walk, arrays, output, reach, history>>

EndSort ==
  /\ pc = "sort" /\ row > Len(sym_tokens)
  /\ pc' = "print"
  /\ UNCHANGED <<size, ncmds, target, offset, i, cmd, n, sort, arrays, output, reach, history>>

(* disp_symtab, one turn: classify the symbol against the section letters, *)
(* and print it if disp_sym does.                                          *)
PrintSymbol ==
  /\ pc = "print" /\ n < Len(sym_tokens)
  /\ LET token  == sym_tokens[n + 1]
         letter == get_sym_type(token.sym, sect_types)
     IN  listing' = IF IsPrinted(letter)
                    THEN Append(listing, [sym |-> token.sym, name |-> token.name,
                                          letter |-> letter])
                    ELSE listing
  /\ n' = n + 1
  /\ UNCHANGED <<size, ncmds, target, pc, offset, i, cmd, sort, arrays, dumped, rc,
                 reach, history>>

(* A wrong loop: the last symbol is left out.                              *)
AllPrintedButOne == n + 1 >= Len(sym_tokens)

(* while (len--): the loop of disp_symtab is over.                         *)
AllPrinted == n = Len(sym_tokens)

(* The arrays are released and disp_object returns.                        *)
Finish ==
  /\ pc = "print" /\ AllPrinted
  /\ heap' = free_arrays(heap)
  /\ pc' = "done" /\ rc' = OK
  /\ UNCHANGED <<size, ncmds, target, offset, i, cmd, n, sort, sect_types, sym_tokens,
                 listing, dumped, reach, history>>

(* disp_object has returned.                                               *)
Returned == pc = "done" /\ UNCHANGED vars

Next ==
  \/ TruncatedCommand
  \/ \E c \in LoadCmds : \/ EmptyCommand(c) \/ EnterSegment(c) \/ EnterSymtab(c)
                         \/ TruncatedTable(c) \/ SkipCommand(c)
  \/ \E s \in Sects : DispSection(s)
  \/ EndSegment
  \/ \E s \in Syms : StoreSymbol(s)
  \/ EndSymtab
  \/ StartSort \/ Exchange \/ NextRow \/ EndSort
  \/ PrintSymbol
  \/ Finish
  \/ Returned

Spec == Init /\ [][Next]_vars

(* Nothing else runs, and nothing in the walk waits.                       *)
FairSpec == Spec /\ WF_vars(Next)
-----------------------------------------------------------------------------
Tokens == [sym : Syms, name : [at : Nat, len : Nat, rank : Nat]]

Lines == [sym : Syms, name : [at : Nat, len : Nat, rank : Nat], letter : Letters]

(* The walk's variables keep their types, and the cursor of the inner      *)
(* loops stays inside the table whose size was checked.                    *)
TypeOK ==
  /\ size \in Sizes /\ ncmds \in 0 .. MaxCmds /\ target \in Targets
  /\ pc \in {"cmd", "sect", "sym", "sort", "print", "done"}
  /\ offset \in Nat /\ i \in 0 .. ncmds /\ (pc \in {"sect", "sym"} => i < ncmds)
  /\ cmd \in LoadCmds \cup {NoCmd}
  /\ n \in 0 .. (IF pc \in {"sect", "sym"} THEN cmd.count ELSE Len(sym_tokens))
  /\ row \in Nat /\ col \in Nat /\ (pc = "sort" => 1 <= row /\ row < col)
  /\ sect_types \in Seq(SectLetters) /\ sym_tokens \in Seq(Tokens)
  /\ heap \subseteq {"sect_types", "sym_tokens"}
  /\ listing \in Seq(Lines) /\ dumped \in Seq(Sects)
  /\ rc \in {Running, OK, ERR_SILENT, ERR_MEM} /\ reach \in Nat
  /\ sections \in Seq(Sects) /\ symbols \in Seq(Syms)

(* The end of a section, sec.offset + sec.size, is a 64-bit sum; the code  *)
(* does not look for one that wraps.                                       *)
Wraps(s) == s.offset + s.size >= Word64

(* No byte outside the window is read: not by the command headers, the     *)
(* section tables, the dumped sections, the symbol tables or the names,    *)
(* whatever sizes, counts and offsets the file states, as long as no       *)
(* dumped section states an end beyond 2^64.                               *)
ReadsInWindow ==
  (\A k \in 1 .. Len(dumped) : ~Wraps(dumped[k])) => reach <= size

(* A stored name ends with a NUL inside the window, so that the sort and   *)
(* the printing, which run long after check_string, stay inside too.       *)
NamesTerminated ==
  \A k \in 1 .. Len(sym_tokens) :
    LET name == sym_tokens[k].name
    IN  name # OutOfBounds => name.at + name.len < size

(* A printed symbol that lives in a section bears the letter of the        *)
(* section its number means in the whole file, wherever the symbol table   *)
(* stands among the segments: unless malloc failed and a letter was lost,  *)
(* no letter is that of a neighbour and no number is out of range.         *)
LettersFromFile ==
  Len(sect_types) = Len(sections) =>
    \A k \in 1 .. Len(listing) :
      LET sym == listing[k].sym
      IN  sym.type = "SECT" =>
            /\ sym.n_sect \in 1 .. Len(sections)
            /\ LET letter == get_sect_type(sections[sym.n_sect].sectname)
               IN  listing[k].letter = IF sym.ext THEN letter ELSE Lower[letter]

Occurrences(x, seq) == Cardinality({k \in 1 .. Len(seq) : seq[k] = x})

(* Two stored symbols are in the order the options ask for.                *)
InOrder(a, b) ==
  IF target.reversed THEN ~Above(b, a, target) ELSE ~Above(a, b, target)

(* The symbols are printed in the order the options ask for: by name and   *)
(* then by value, by value alone, or in the order of the file.             *)
ListingSorted ==
  pc = "print" =>
    IF target.sorting = "none"
    THEN [k \in 1 .. Len(sym_tokens) |-> sym_tokens[k].sym] = symbols
    ELSE \A b \in 1 .. Len(sym_tokens) : \A a \in 1 .. b - 1 :
           InOrder(sym_tokens[a], sym_tokens[b])

(* disp_object either fails and prints no symbol, or it succeeds, having   *)
(* walked over all commands and printed every printable symbol of every    *)
(* symbol table as often as it occurs: the exchanges of the sort lose and  *)
(* double none.                                                            *)
ListingComplete ==
  /\ rc \in {ERR_SILENT, ERR_MEM} => listing = << >>
  /\ rc = OK =>
       /\ i = ncmds
       /\ \A s \in Syms :
            Cardinality({k \in 1 .. Len(listing) : listing[k].sym = s}) =
              IF IsPrinted(get_sym_type(s, sect_types)) THEN Occurrences(s, symbols) ELSE 0

(* The sections the options name: __TEXT,__text unless -t turned it off,   *)
(* __DATA,__data with -d, and the pair given with -s; nm dumps none.       *)
Asked(t) ==
  IF ~t.is_otool THEN {}
  ELSE (IF t.show_text THEN {<<"__TEXT", "__text">>} ELSE {})
       \cup (IF t.show_data THEN {<<"__DATA", "__data">>} ELSE {})
       \cup (IF t.pick # << >> THEN {t.pick} ELSE {})

(* The headers read that name a section asked for, by their positions, and *)
(* where such a section comes in the dump.                                 *)
AskedAt == {p \in 1 .. Len(sections) :
              <<sections[p].segname, sections[p].sectname>> \in Asked(target)}

Place(p, positions) == Cardinality({q \in positions : q <= p})

(* The dump holds the sections asked for and no other, in the order of the *)
(* file, up to the first one that does not fit, which ends the walk.       *)
DumpedAsAsked ==
  LET fitting == IF rc = ERR_MEM /\ Len(dumped) # Cardinality(AskedAt)
                 THEN AskedAt \ {Len(sections)} ELSE AskedAt
  IN  /\ Len(dumped) = Cardinality(fitting)
      /\ \A p \in fitting : dumped[Place(p, fitting)] = sections[p]

(* Both arrays are released on every way out of disp_object.               *)
NothingLeftBehind == pc = "done" => heap = {}

(* Each turn of the loop moves to a larger offset: no command is processed *)
(* twice, whatever sizes the commands state.                               *)
CommandsAdvance == [][i' # i => offset' > offset]_vars

Call == INSTANCE Returns WITH ret <- rc, Codes <- {OK, ERR_SILENT, ERR_MEM}, NoResult <- Running

(* disp_object returns on every object, with equal symbols and a reversed  *)
(* order as well, once, and with a code that FileWalk takes it to return.  *)
ImplementsCall == Call!Spec
=============================================================================
