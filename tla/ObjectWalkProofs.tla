-------------------------- MODULE ObjectWalkProofs --------------------------
(* What ObjectWalk promises for every file, every option setting and every *)
(* size of the structures.                                                 *)
EXTENDS ObjectWalk, TLAPS

(* The facts about the constants, in the form the steps use them.          *)
LEMMA Constants ==
  /\ MachHeaderMin \in Nat /\ MachHeader \in Nat /\ LoadCmd \in Nat
  /\ SegCmd \in Nat /\ Section \in Nat /\ SymtabCmd \in Nat /\ Nlist \in Nat
  /\ MaxCmds \in Nat /\ Word64 \in Nat
  /\ \A z \in Sizes : z \in Nat /\ z >= MachHeaderMin
  /\ NoCmd \in [cmd : {"none"}, cmdsize : Nat, count : Nat, symoff : Nat, stroff : Nat]
  /\ \A c \in LoadCmds \cup {NoCmd} :
       c.cmdsize \in Nat /\ c.count \in Nat /\ c.symoff \in Nat /\ c.stroff \in Nat
  /\ \A s \in Sects : s.offset \in Nat /\ s.size \in Nat
  /\ \A s \in Syms : s.strx \in Nat /\ s.len \in Nat /\ s.rank \in Nat /\ s.value \in Nat
BY SizesAssumption, FileAssumption DEF NoCmd

(* An entry of a table that fits lies before the end of the table.         *)
LEMMA MulMono ==
  ASSUME NEW a \in Nat, NEW b \in Nat, NEW w \in Nat, a <= b
  PROVE  a * w <= b * w /\ a * w \in Nat /\ b * w \in Nat
OBVIOUS

LEMMA InitTypeOK == Init => TypeOK
BY Constants, SizesAssumption DEF Init, TypeOK, NoCmd, Running, Tokens, Lines

(* Letters come from Letters.                                              *)
LEMMA SectLetterType ==
  ASSUME NEW name PROVE get_sect_type(name) \in SectLetters
BY DEF get_sect_type, SectLetters

LEMMA SymLetterType ==
  ASSUME NEW sym \in Syms, NEW stypes \in Seq(SectLetters)
  PROVE  get_sym_type(sym, stypes) \in Letters
<1>1. sym.n_sect \in Nat /\ sym.type \in SymTypes /\ sym.ext \in BOOLEAN /\ sym.stab \in BOOLEAN
  BY FileAssumption
<1>2. SectLetter(sym.n_sect, stypes) \in {"D", "B", "T", "S", "?"}
  BY <1>1 DEF SectLetter, SectLetters
<1>3. BaseLetter(sym, stypes) \in {"D", "B", "T", "S", "C", "U", "A", "I", "?"}
  BY <1>2 DEF BaseLetter
<1> QED
  BY <1>3 DEF get_sym_type, Lower, Letters

(* The section step: what it leaves in each variable.                      *)
LEMMA DispSectionTypeOK ==
  ASSUME TypeOK, NEW s \in Sects, DispSection(s) PROVE TypeOK'
<1> DEFINE header == offset + SegCmd + (n + 1) * Section
           data   == s.offset + s.size
<1>1. offset \in Nat /\ n \in Nat /\ SegCmd \in Nat /\ Section \in Nat
  BY Constants DEF TypeOK, DispSection
<1>2. header \in Nat /\ data \in Nat
  <2>1. (n + 1) * Section \in Nat
    BY <1>1, MulMono
  <2> QED
    BY <1>1, <2>1, Constants
<1> HIDE DEF header, data
<1>3. reach' \in Nat
  <2>1. reach' = reach \/ reach' = header \/ reach' = data
    BY DEF DispSection, Touch, header, data
  <2> QED
    BY <1>2, <2>1 DEF TypeOK
<1>4. get_sect_type(s.sectname) \in SectLetters
  BY SectLetterType
<1>5. sect_types' \in Seq(SectLetters) /\ sections' \in Seq(Sects)
  BY <1>4 DEF TypeOK, DispSection
<1>6. UNCHANGED <<size, ncmds, target, row, col, sym_tokens, symbols>>
  BY DEF DispSection, sort
<1>7. CASE Fail(ERR_MEM)
  BY <1>3, <1>5, <1>6, <1>7, Constants, SMTT(30) DEF TypeOK, Fail, free_arrays, NoCmd, ERR_MEM
<1>8. CASE /\ n' = n + 1
           /\ \E ok \in PushOutcomes : heap' \in HeapAfterPush(ok, "sect_types")
           /\ dumped' = IF filter_disp(target, s) THEN Append(dumped, s) ELSE dumped
           /\ UNCHANGED <<pc, offset, i, cmd, listing, rc>>
  <2>1. heap' \subseteq {"sect_types", "sym_tokens"}
    BY <1>8 DEF TypeOK, HeapAfterPush
  <2>2. dumped' \in Seq(Sects)
    BY <1>8 DEF TypeOK
  <2>3. pc = "sect" /\ n < cmd.count /\ cmd.count \in Nat
    BY Constants DEF DispSection, TypeOK
  <2>4. n' \in 0 .. cmd'.count
    BY <1>1, <1>8, <2>3
  <2> QED
    BY <1>3, <1>5, <1>6, <1>8, <2>1, <2>2, <2>3, <2>4 DEF TypeOK
<1> QED
  BY <1>7, <1>8 DEF DispSection

(* The symbol step.                                                        *)
LEMMA StoreSymbolTypeOK ==
  ASSUME TypeOK, NEW s \in Syms, StoreSymbol(s) PROVE TypeOK'
<1> DEFINE at    == cmd.stroff + s.strx
           name  == IF check_string(at, s.len)
                    THEN [at |-> at, len |-> s.len, rank |-> s.rank] ELSE OutOfBounds
           entry == cmd.symoff + (n + 1) * Nlist
<1>1. /\ n \in Nat /\ Nlist \in Nat /\ cmd.symoff \in Nat /\ cmd.stroff \in Nat
      /\ cmd.count \in Nat /\ s.strx \in Nat /\ s.len \in Nat /\ s.rank \in Nat
      /\ size \in Nat
  BY Constants, SMTT(30) DEF TypeOK, StoreSymbol
<1>2. at \in Nat
  BY <1>1
<1>3. [sym |-> s, name |-> name] \in Tokens
  <2>1. name \in [at : Nat, len : Nat, rank : Nat]
    BY <1>1, <1>2, FileAssumption
  <2> QED
    BY <2>1 DEF Tokens
<1>4. entry \in Nat
  <2>1. (n + 1) * Nlist \in Nat
    BY <1>1, MulMono
  <2> QED
    BY <1>1, <2>1
<1>5. StringReach(at, s.len) \in Nat
  BY <1>1, <1>2 DEF StringReach
<1> HIDE DEF entry
<1>6. reach' \in Nat
  <2>1. reach' = reach \/ reach' = entry \/ reach' = StringReach(at, s.len)
    BY DEF StoreSymbol, Touch, entry
  <2> QED
    BY <1>4, <1>5, <2>1 DEF TypeOK
<1>7. symbols' \in Seq(Syms) /\ UNCHANGED <<size, ncmds, target, row, col, sect_types, sections>>
  BY DEF TypeOK, StoreSymbol, sort
<1>8. CASE Fail(ERR_SILENT) /\ UNCHANGED sym_tokens
  BY <1>6, <1>7, <1>8, Constants DEF TypeOK, Fail, free_arrays, NoCmd, ERR_SILENT
<1>9. CASE /\ sym_tokens' = Append(sym_tokens, [sym |-> s, name |-> name])
           /\ n' = n + 1
           /\ heap' \in HeapAfterPush(TRUE, "sym_tokens")
           /\ UNCHANGED <<pc, offset, i, cmd, output>>
  <2>1. sym_tokens' \in Seq(Tokens)
    <3> HIDE DEF name
    <3> QED
      BY <1>3, <1>9 DEF TypeOK
  <2>2. pc = "sym" /\ n < cmd.count
    BY DEF StoreSymbol
  <2>3. n' \in 0 .. cmd'.count
    BY <1>1, <1>9, <2>2
  <2>4. heap' \subseteq {"sect_types", "sym_tokens"}
    BY <1>9 DEF TypeOK, HeapAfterPush
  <2> QED
    BY <1>6, <1>7, <1>9, <2>1, <2>2, <2>3, <2>4 DEF TypeOK, output
<1> QED
  BY <1>8, <1>9 DEF StoreSymbol

(* An exchange of two entries is a sequence of the same length.            *)
LEMMA SwapInSeq ==
  ASSUME NEW S, NEW seq \in Seq(S), NEW x \in 1 .. Len(seq), NEW y \in 1 .. Len(seq)
  PROVE  /\ Swap(seq, x, y) \in Seq(S)
         /\ Len(Swap(seq, x, y)) = Len(seq)
         /\ Swap(seq, x, y)[x] = seq[y]
         /\ Swap(seq, x, y)[y] = seq[x]
         /\ \A k \in 1 .. Len(seq) : k # x /\ k # y => Swap(seq, x, y)[k] = seq[k]
<1> DEFINE new == [k \in 1 .. Len(seq) |-> IF k = y THEN seq[x] ELSE
                                           IF k = x THEN seq[y] ELSE seq[k]]
<1>1. Swap(seq, x, y) = new
  BY DEF Swap
<1>2. \A k \in 1 .. Len(seq) : seq[k] \in S
  OBVIOUS
<1>3. Len(seq) \in Nat
  OBVIOUS
<1>4. new \in [1 .. Len(seq) -> S]
  BY <1>2
<1>5. new \in Seq(S) /\ Len(new) = Len(seq)
  BY <1>3, <1>4
<1> QED
  BY <1>1, <1>5

(* The printing step.                                                      *)
LEMMA PrintSymbolTypeOK ==
  ASSUME TypeOK, PrintSymbol PROVE TypeOK'
<1> DEFINE token  == sym_tokens[n + 1]
           letter == get_sym_type(token.sym, sect_types)
<1>1. n \in Nat /\ n < Len(sym_tokens) /\ Len(sym_tokens) \in Nat /\ sym_tokens \in Seq(Tokens)
  BY DEF TypeOK, PrintSymbol
<1>2. token \in Tokens
  BY <1>1
<1>3. letter \in Letters
  BY <1>2, SymLetterType DEF TypeOK, Tokens
<1>4. [sym |-> token.sym, name |-> token.name, letter |-> letter] \in Lines
  BY <1>2, <1>3 DEF Lines, Tokens
<1> HIDE DEF letter
<1>5. listing' \in Seq(Lines)
  BY <1>4 DEF TypeOK, PrintSymbol, letter
<1> QED
  BY <1>1, <1>5 DEF TypeOK, PrintSymbol, sort, arrays, history

(* Every step keeps the types.                                             *)
LEMMA StepTypeOK ==
  ASSUME TypeOK, [Next]_vars PROVE TypeOK'
<1> USE DEF OK, ERR_SILENT, ERR_MEM, Running
<1>1. CASE TruncatedCommand
  BY <1>1, Constants DEF TypeOK, TruncatedCommand, Fail, free_arrays, arrays, history, sort, NoCmd
<1>2. ASSUME NEW c \in LoadCmds, EmptyCommand(c) PROVE TypeOK'
  BY <1>2, Constants DEF TypeOK, EmptyCommand, Fail, free_arrays, Touch, history, sort, NoCmd
<1>3. ASSUME NEW c \in LoadCmds, EnterSegment(c) PROVE TypeOK'
  BY <1>3, Constants DEF TypeOK, EnterSegment, ReadCommand, Enter, Touch, arrays, output, history, sort
<1>4. ASSUME NEW c \in LoadCmds, EnterSymtab(c) PROVE TypeOK'
  BY <1>4, Constants DEF TypeOK, EnterSymtab, ReadCommand, Enter, Touch, arrays, output, history, sort
<1>5. ASSUME NEW c \in LoadCmds, TruncatedTable(c) PROVE TypeOK'
  BY <1>5, Constants, SMTT(30) DEF TypeOK, TruncatedTable, ReadCommand, Fail, free_arrays, Touch, history, sort, NoCmd
<1>6. ASSUME NEW c \in LoadCmds, SkipCommand(c) PROVE TypeOK'
  BY <1>6, Constants, SMTT(30) DEF TypeOK, SkipCommand, ReadCommand, NextCommand, Touch, arrays, output, history, sort, NoCmd
<1>7. ASSUME NEW s \in Sects, DispSection(s) PROVE TypeOK'
  BY <1>7, DispSectionTypeOK
<1>8. CASE EndSegment
  BY <1>8, Constants, SMTT(30) DEF TypeOK, EndSegment, NextCommand, arrays, output, history, sort, NoCmd
<1>9. ASSUME NEW s \in Syms, StoreSymbol(s) PROVE TypeOK'
  BY <1>9, StoreSymbolTypeOK
<1>10. CASE EndSymtab
  BY <1>10, Constants, SMTT(30) DEF TypeOK, EndSymtab, NextCommand, arrays, output, history, sort, NoCmd
<1>11. CASE StartSort
  BY <1>11, Constants DEF TypeOK, StartSort, arrays, output, history
<1>12. CASE Exchange
  <2>1. Len(sym_tokens') = Len(sym_tokens) /\ sym_tokens' \in Seq(Tokens)
    <3>1. /\ sym_tokens \in Seq(Tokens)
          /\ row \in 1 .. Len(sym_tokens) /\ col \in 1 .. Len(sym_tokens)
      BY <1>12 DEF TypeOK, Exchange
    <3>2. CASE sym_tokens' = sym_tokens
      BY <3>1, <3>2
    <3>3. CASE sym_tokens' = Swap(sym_tokens, row, col)
      BY <1>12, <3>1, <3>3, SwapInSeq DEF Exchange
    <3> QED
      BY <1>12, <3>2, <3>3 DEF Exchange
  <2> QED
    BY <1>12, <2>1 DEF TypeOK, Exchange, walk, output, history
<1>13. CASE NextRow
  BY <1>13 DEF TypeOK, NextRow, walk, arrays, output, history
<1>14. CASE EndSort
  BY <1>14, Constants DEF TypeOK, EndSort, sort, arrays, output, history
<1>15. CASE PrintSymbol
  BY <1>15, PrintSymbolTypeOK
<1>16. CASE Finish
  BY <1>16, Constants DEF TypeOK, Finish, free_arrays, AllPrinted, sort, history
<1>17. CASE UNCHANGED vars
  BY <1>17 DEF TypeOK, vars, walk, sort, arrays, output, history
<1> QED
  BY <1>1, <1>2, <1>3, <1>4, <1>5, <1>6, <1>7, <1>8, <1>9, <1>10, <1>11, <1>12,
     <1>13, <1>14, <1>15, <1>16, <1>17 DEF Next, Returned

(* The walk's variables keep their types, for every file: in particular    *)
(* the section and symbol cursors of disp_sections and store_symtab never  *)
(* leave the table whose size was checked.                                 *)
THEOREM TypeCorrect == Spec => []TypeOK
<1>1. TypeOK /\ [Next]_vars => TypeOK'
  BY StepTypeOK
<1> QED
  BY InitTypeOK, <1>1, PTL DEF Spec
-----------------------------------------------------------------------------
(* ReadsInWindow is not inductive: an entry of a table lies in the window  *)
(* only because the end of the table was checked when the loop was entered *)
(* and neither the command nor the offset has changed since.               *)
NoneWraps == \A k \in 1 .. Len(dumped) : ~Wraps(dumped[k])

WindowInv ==
  /\ ReadsInWindow
  /\ pc = "sect" => SectionTable(cmd) <= size /\ ~Refused(cmd)
  /\ pc = "sym"  => SymbolTable(cmd) <= size /\ ~Refused(cmd)

(* The end of a section that does not wrap survives the 64-bit sum.        *)
LEMMA SectionEnd ==
  ASSUME NEW s \in Sects, ~Wraps(s)
  PROVE  (s.offset + s.size) % Word64 = s.offset + s.size
<1>1. s.offset + s.size \in Nat /\ Word64 \in Nat /\ s.offset + s.size < Word64
  BY Constants DEF Wraps
<1> QED
  BY <1>1

LEMMA InitWindowInv == Init => WindowInv
BY Constants DEF Init, WindowInv, ReadsInWindow

LEMMA StepWindowInv ==
  ASSUME TypeOK, WindowInv, [Next]_vars PROVE WindowInv'
<1> USE DEF WindowInv, ReadsInWindow, output
<1>0. size \in Nat /\ offset \in Nat /\ reach \in Nat /\ LoadCmd \in Nat
  BY Constants DEF TypeOK
<1>1. CASE TruncatedCommand
  BY <1>1 DEF TruncatedCommand, Fail
<1>2. ASSUME NEW c \in LoadCmds, EmptyCommand(c) PROVE WindowInv'
  BY <1>0, <1>2 DEF EmptyCommand, Fail, Touch, CHECK_LEN
<1>3. ASSUME NEW c \in LoadCmds, EnterSegment(c) PROVE WindowInv'
  BY <1>0, <1>3 DEF EnterSegment, ReadCommand, Enter, Touch, CHECK_LEN, SegmentFits,
                    SectionTable, Refused
<1>4. ASSUME NEW c \in LoadCmds, EnterSymtab(c) PROVE WindowInv'
  BY <1>0, <1>4 DEF EnterSymtab, ReadCommand, Enter, Touch, CHECK_LEN, SymtabFits,
                    SymbolTable, Refused
<1>5. ASSUME NEW c \in LoadCmds, TruncatedTable(c) PROVE WindowInv'
  BY <1>0, <1>5 DEF TruncatedTable, ReadCommand, Fail, Touch, CHECK_LEN
<1>6. ASSUME NEW c \in LoadCmds, SkipCommand(c) PROVE WindowInv'
  BY <1>0, <1>6 DEF SkipCommand, ReadCommand, NextCommand, Touch, CHECK_LEN
<1>7. ASSUME NEW s \in Sects, DispSection(s) PROVE WindowInv'
  <2> DEFINE header == offset + SegCmd + (n + 1) * Section
             data   == s.offset + s.size
  <2>1. header <= size
    <3>1. /\ n \in Nat /\ SegCmd \in Nat /\ Section \in Nat /\ cmd.count \in Nat
          /\ n + 1 \in Nat /\ n + 1 <= cmd.count
      <4>1. n \in 0 .. cmd.count /\ n < cmd.count /\ cmd.count \in Nat
        BY <1>7, Constants DEF TypeOK, DispSection
      <4> QED
        BY <4>1, Constants
    <3>2. (n + 1) * Section <= cmd.count * Section
      BY <3>1, MulMono
    <3>3. /\ (n + 1) * Section \in Nat /\ cmd.count * Section \in Nat
      BY <3>1, MulMono
    <3>4. offset + SegCmd + cmd.count * Section <= size
      BY <1>7 DEF DispSection, SectionTable
    <3> QED
      BY <1>0, <3>1, <3>2, <3>3, <3>4
  <2>2. DataFits(s) /\ ~Wraps(s) => data <= size
    BY SectionEnd DEF DataFits, CHECK_LEN
  <2>3. filter_disp(target, s) /\ DataFits(s) => dumped' = Append(dumped, s)
    BY <1>7 DEF DispSection
  <2>4. dumped' = dumped \/ dumped' = Append(dumped, s)
    BY <1>7 DEF DispSection, Fail
  <2> HIDE DEF header, data
  <2>5. \/ reach' = reach \/ reach' = header
        \/ reach' = data /\ DataFits(s) /\ filter_disp(target, s)
    BY <1>7 DEF DispSection, Touch, header, data
  <2>6. dumped \in Seq(Sects)
    BY DEF TypeOK
  <2>7. NoneWraps' => NoneWraps
    BY <2>4, <2>6 DEF NoneWraps
  <2>8. dumped' = Append(dumped, s) /\ NoneWraps' => ~Wraps(s)
    <3>1. dumped' = Append(dumped, s) =>
            Len(dumped) + 1 \in 1 .. Len(dumped') /\ dumped'[Len(dumped) + 1] = s
      BY <2>6
    <3> QED
      BY <3>1 DEF NoneWraps
  <2>9. ReadsInWindow'
    BY <1>7, <2>1, <2>2, <2>3, <2>5, <2>7, <2>8 DEF DispSection, ReadsInWindow, NoneWraps
  <2>10. pc' = "done" \/ (pc' = "sect" /\ UNCHANGED <<cmd, offset>>)
    BY <1>7 DEF DispSection, Fail
  <2> QED
    BY <1>7, <2>9, <2>10 DEF DispSection, SectionTable, Refused
<1>8. CASE EndSegment
  BY <1>8 DEF EndSegment, NextCommand
<1>9. ASSUME NEW s \in Syms, StoreSymbol(s) PROVE WindowInv'
  <2> DEFINE at    == cmd.stroff + s.strx
             entry == cmd.symoff + (n + 1) * Nlist
  <2>1. entry <= size
    <3>1. /\ n \in Nat /\ Nlist \in Nat /\ cmd.count \in Nat /\ cmd.symoff \in Nat
          /\ n + 1 \in Nat /\ n + 1 <= cmd.count
      <4>1. /\ n \in 0 .. cmd.count /\ n < cmd.count /\ cmd.count \in Nat
            /\ cmd.symoff \in Nat
        BY <1>9, Constants DEF TypeOK, StoreSymbol
      <4> QED
        BY <4>1, Constants
    <3>2. (n + 1) * Nlist <= cmd.count * Nlist
      BY <3>1, MulMono
    <3>3. (n + 1) * Nlist \in Nat /\ cmd.count * Nlist \in Nat
      BY <3>1, MulMono
    <3>4. cmd.symoff + cmd.count * Nlist <= size
      BY <1>9 DEF StoreSymbol, SymbolTable
    <3> QED
      BY <1>0, <3>1, <3>2, <3>3, <3>4
  <2>2. StringReach(at, s.len) <= size
    <3>1. cmd.stroff \in Nat /\ s.strx \in Nat /\ s.len \in Nat
      BY Constants DEF TypeOK
    <3> QED
      BY <1>0, <3>1 DEF StringReach
  <2> HIDE DEF entry, at
  <2>3. reach' = reach \/ reach' = entry \/ reach' = StringReach(at, s.len)
    BY <1>9 DEF StoreSymbol, Touch, entry, at
  <2>4. ReadsInWindow'
    <3>1. dumped' = dumped /\ size' = size
      BY <1>9 DEF StoreSymbol, Fail
    <3> QED
      BY <2>1, <2>2, <2>3, <3>1
  <2>5. pc' = "done" \/ (pc' = "sym" /\ UNCHANGED cmd)
    BY <1>9 DEF StoreSymbol, Fail
  <2> QED
    BY <1>9, <2>4, <2>5 DEF StoreSymbol, SymbolTable, Refused
<1>10. CASE EndSymtab
  BY <1>10 DEF EndSymtab, NextCommand
<1>11. CASE StartSort \/ EndSort \/ Finish
  BY <1>11 DEF StartSort, EndSort, Finish
<1>12. CASE Exchange \/ NextRow \/ PrintSymbol \/ UNCHANGED vars
  <2>1. UNCHANGED <<pc, offset, cmd, size, reach, dumped>>
    BY <1>12 DEF Exchange, NextRow, PrintSymbol, walk, vars
  <2> QED
    BY <2>1 DEF SectionTable, SymbolTable, Refused
<1> QED
  BY <1>1, <1>2, <1>3, <1>4, <1>5, <1>6, <1>7, <1>8, <1>9, <1>10, <1>11, <1>12
     DEF Next, Returned

(* Whatever sizes, counts and offsets a file states, the walk reads no     *)
(* byte beyond the window it was given, as long as no dumped section       *)
(* states an end beyond 2^64.                                              *)
THEOREM ReadsSafe == Spec => []ReadsInWindow
<1>1. Init => TypeOK /\ WindowInv
  BY InitTypeOK, InitWindowInv
<1>2. (TypeOK /\ WindowInv) /\ [Next]_vars => (TypeOK /\ WindowInv)'
  BY StepTypeOK, StepWindowInv
<1>3. WindowInv => ReadsInWindow
  BY DEF WindowInv
<1> QED
  BY <1>1, <1>2, <1>3, PTL DEF Spec

(* Each command is read at a larger offset than the one before: that       *)
(* cmdsize is not zero is checked when the command is read, and used when  *)
(* its sections or symbols are done.                                       *)
THEOREM Advance == Spec => CommandsAdvance
<1> DEFINE Forward == i' # i => offset' > offset
<1>1. Init => TypeOK /\ WindowInv
  BY InitTypeOK, InitWindowInv
<1>2. (TypeOK /\ WindowInv) /\ [Next]_vars => (TypeOK /\ WindowInv)'
  BY StepTypeOK, StepWindowInv
<1>3. TypeOK /\ WindowInv /\ [Next]_vars => [Forward]_vars
  <2> SUFFICES ASSUME TypeOK, WindowInv, Next, i' # i PROVE offset' > offset
    BY DEF Forward
  <2>1. offset \in Nat
    BY DEF TypeOK
  <2>2. ASSUME NEW c \in LoadCmds, SkipCommand(c) PROVE offset' > offset
    BY <2>1, <2>2, Constants DEF SkipCommand, ReadCommand, NextCommand, Refused
  <2>3. CASE EndSegment \/ EndSymtab
    <3>1. cmd.cmdsize \in Nat /\ cmd.cmdsize # 0
      BY <2>3, Constants DEF TypeOK, WindowInv, EndSegment, EndSymtab, Refused
    <3> QED
      BY <2>1, <2>3, <3>1 DEF EndSegment, EndSymtab, NextCommand
  <2> QED
    BY <2>2, <2>3 DEF Next, TruncatedCommand, EmptyCommand, EnterSegment, EnterSymtab,
       TruncatedTable, Enter, Fail, DispSection, StoreSymbol, StartSort, Exchange,
       NextRow, EndSort, PrintSymbol, Finish, Returned, walk, vars
<1> QED
  BY <1>1, <1>2, <1>3, PTL DEF Spec, CommandsAdvance
-----------------------------------------------------------------------------
(* Every stored name is terminated inside the window: check_string looked  *)
(* at every byte of it up to the NUL, or the name is the constant string;  *)
(* the exchanges of the sort only move entries around.                     *)
THEOREM NamesSafe == Spec => []NamesTerminated
<1>1. Init => TypeOK /\ NamesTerminated
  BY InitTypeOK DEF Init, NamesTerminated
<1>2. ASSUME TypeOK, NamesTerminated, [Next]_vars PROVE NamesTerminated'
  <2> USE <1>2 DEF NamesTerminated
  <2>0. sym_tokens \in Seq(Tokens)
    BY DEF TypeOK
  <2>1. ASSUME NEW s \in Syms, StoreSymbol(s) PROVE NamesTerminated'
    <3> DEFINE at   == cmd.stroff + s.strx
               name == IF check_string(at, s.len)
                       THEN [at |-> at, len |-> s.len, rank |-> s.rank] ELSE OutOfBounds
    <3>1. name # OutOfBounds => name.at + name.len < size
      BY DEF check_string
    <3> HIDE DEF name
    <3>2. CASE UNCHANGED sym_tokens
      BY <2>1, <3>2 DEF StoreSymbol
    <3>3. CASE sym_tokens' = Append(sym_tokens, [sym |-> s, name |-> name])
      BY <2>0, <2>1, <3>1, <3>3 DEF StoreSymbol
    <3> QED
      BY <2>1, <3>2, <3>3 DEF StoreSymbol, name
  <2>2. CASE Exchange
    <3>1. row \in 1 .. Len(sym_tokens) /\ col \in 1 .. Len(sym_tokens)
      BY <2>2 DEF TypeOK, Exchange
    <3>2. CASE sym_tokens' = Swap(sym_tokens, row, col)
      <4> DEFINE new == Swap(sym_tokens, row, col)
      <4>1. /\ Len(new) = Len(sym_tokens)
            /\ new[row] = sym_tokens[col] /\ new[col] = sym_tokens[row]
            /\ \A k \in 1 .. Len(sym_tokens) : k # row /\ k # col => new[k] = sym_tokens[k]
        BY <2>0, <3>1, SwapInSeq
      <4> HIDE DEF new
      <4>2. sym_tokens' = new /\ size' = size
        BY <2>2, <3>2 DEF Exchange, new
      <4> QED
        BY <3>1, <4>1, <4>2
    <3> QED
      BY <2>2, <3>2 DEF Exchange
  <2>3. CASE UNCHANGED <<size, sym_tokens>>
    BY <2>3
  <2> QED
    BY <2>1, <2>2, <2>3 DEF Next, TruncatedCommand, EmptyCommand, EnterSegment,
       EnterSymtab, TruncatedTable, SkipCommand, Enter, DispSection, EndSegment,
       EndSymtab, StartSort, NextRow, EndSort, PrintSymbol, Finish, Returned,
       arrays, vars
<1> QED
  BY <1>1, <1>2, StepTypeOK, PTL DEF Spec

(* No way out of disp_object, success or error, leaves an array allocated. *)
THEOREM NoLeak == Spec => []NothingLeftBehind
<1>1. Init => TypeOK /\ NothingLeftBehind
  BY InitTypeOK DEF Init, NothingLeftBehind
<1>2. ASSUME TypeOK, NothingLeftBehind, [Next]_vars PROVE NothingLeftBehind'
  <2> USE <1>2 DEF NothingLeftBehind
  <2>1. free_arrays(heap) = {}
    BY DEF TypeOK, free_arrays
  <2>2. CASE heap' = free_arrays(heap)
    BY <2>1, <2>2
  <2>3. CASE pc' # "done"
    BY <2>3
  <2>4. CASE UNCHANGED <<pc, heap>>
    BY <2>4
  <2> QED
    BY <2>2, <2>3, <2>4 DEF Next, TruncatedCommand, EmptyCommand, EnterSegment,
       EnterSymtab, TruncatedTable, SkipCommand, NextCommand, Fail, Enter, DispSection,
       StoreSymbol, EndSegment, EndSymtab, StartSort, Exchange, NextRow, EndSort,
       PrintSymbol, Finish, Returned, walk, arrays, vars
<1> QED
  BY <1>1, <1>2, StepTypeOK, PTL DEF Spec
=============================================================================
