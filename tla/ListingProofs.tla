---------------------------- MODULE ListingProofs -----------------------------
(* What nm lists and otool dumps, for every file: which letter a symbol    *)
(* bears, in which order the symbols come, and that none is lost.          *)
EXTENDS ObjectWalkProofs, SequenceTheorems, FiniteSetTheorems

(* LettersFromFile is not inductive: a line is printed from sect_types, and *)
(* says nothing of the section headers.  Each letter is pushed in the turn *)
(* that reads its header, and nothing is pushed once a line is printed.    *)
LettersKept ==
  /\ Len(sect_types) <= Len(sections)
  /\ Len(sect_types) = Len(sections) =>
       \A k \in 1 .. Len(sections) : sect_types[k] = get_sect_type(sections[k].sectname)

LinesClassified ==
  /\ pc \notin {"print", "done"} => listing = << >>
  /\ \A k \in 1 .. Len(listing) :
       /\ listing[k].letter = get_sym_type(listing[k].sym, sect_types)
       /\ IsPrinted(listing[k].letter)

LettersInv == LettersKept /\ LinesClassified

(* A step either pushes nothing, or is that of disp_sections.              *)
LEMMA SectTypesStep ==
  ASSUME [Next]_vars
  PROVE  \/ UNCHANGED <<sect_types, sections>>
         \/ \E s \in Sects : DispSection(s)
BY DEF Next, TruncatedCommand, EmptyCommand, EnterSegment, EnterSymtab, TruncatedTable,
   SkipCommand, Enter, EndSegment, StoreSymbol, EndSymtab, StartSort, Exchange, NextRow,
   EndSort, PrintSymbol, Finish, Returned, arrays, history, vars

(* A step either prints nothing and returns no error but from the loop, or *)
(* is a turn of the loop of disp_symtab.                                   *)
LEMMA ListingStep ==
  ASSUME [Next]_vars
  PROVE  \/ PrintSymbol
         \/ /\ UNCHANGED listing
            /\ pc \notin {"print", "done"} \/ (pc = "print" /\ pc' = "done")
            /\ pc' # "print" \/ pc = "sort"
         \/ UNCHANGED <<pc, listing>>
BY DEF Next, TruncatedCommand, EmptyCommand, EnterSegment, EnterSymtab, TruncatedTable,
   SkipCommand, Enter, DispSection, EndSegment, StoreSymbol, EndSymtab, StartSort, Exchange,
   NextRow, EndSort, Finish, Returned, ReadCommand, Fail, NextCommand, walk, output, vars

LEMMA StepLettersKept ==
  ASSUME TypeOK, LettersKept, [Next]_vars PROVE LettersKept'
<1>1. CASE UNCHANGED <<sect_types, sections>>
  BY <1>1 DEF LettersKept
<1>2. ASSUME NEW s \in Sects, DispSection(s) PROVE LettersKept'
  <2>1. sect_types \in Seq(SectLetters) /\ sections \in Seq(Sects)
    BY DEF TypeOK
  <2>2. sections' = Append(sections, s)
    BY <1>2 DEF DispSection
  <2>3. \/ sect_types' = sect_types
        \/ sect_types' = Append(sect_types, get_sect_type(s.sectname))
    BY <1>2 DEF DispSection
  <2>4. Len(sections') = Len(sections) + 1
    BY <2>1, <2>2
  <2>5. CASE sect_types' = sect_types
    BY <2>1, <2>4, <2>5 DEF LettersKept
  <2>6. CASE sect_types' = Append(sect_types, get_sect_type(s.sectname))
    <3>1. Len(sect_types') = Len(sect_types) + 1
      BY <2>1, <2>6
    <3>2. ASSUME Len(sect_types) = Len(sections), NEW k \in 1 .. Len(sections')
          PROVE  sect_types'[k] = get_sect_type(sections'[k].sectname)
      <4>1. CASE k \in 1 .. Len(sections)
        BY <2>1, <2>2, <2>6, <3>2, <4>1 DEF LettersKept
      <4>2. CASE k = Len(sections) + 1
        BY <2>1, <2>2, <2>6, <3>2, <4>2
      <4> QED
        BY <2>1, <2>4, <4>1, <4>2
    <3> QED
      BY <2>1, <2>4, <3>1, <3>2 DEF LettersKept
  <2> QED
    BY <2>3, <2>5, <2>6
<1> QED
  BY <1>1, <1>2, SectTypesStep

LEMMA StepLinesClassified ==
  ASSUME TypeOK, LinesClassified, [Next]_vars PROVE LinesClassified'
<1>0. listing \in Seq(Lines)
  BY DEF TypeOK
<1>1. CASE PrintSymbol
  <2> DEFINE token  == sym_tokens[n + 1]
             letter == get_sym_type(token.sym, sect_types)
             line   == [sym |-> token.sym, name |-> token.name, letter |-> letter]
  <2>1. /\ UNCHANGED <<pc, sect_types>> /\ pc = "print"
        /\ listing' = IF IsPrinted(letter) THEN Append(listing, line) ELSE listing
    BY <1>1 DEF PrintSymbol, arrays
  <2>2. line.sym = token.sym /\ line.letter = letter
    OBVIOUS
  <2>3. letter = get_sym_type(line.sym, sect_types)
    BY <2>2
  <2> HIDE DEF letter, line
  <2>4. CASE ~IsPrinted(letter)
    BY <2>1, <2>4 DEF LinesClassified
  <2>5. CASE IsPrinted(letter)
    <3>1. listing' = Append(listing, line)
      BY <2>1, <2>5
    <3>2. Len(listing') = Len(listing) + 1 /\ listing'[Len(listing) + 1] = line
          /\ \A k \in 1 .. Len(listing) : listing'[k] = listing[k]
      BY <1>0, <3>1
    <3>3. ASSUME NEW k \in 1 .. Len(listing')
          PROVE  /\ listing'[k].letter = get_sym_type(listing'[k].sym, sect_types)
                 /\ IsPrinted(listing'[k].letter)
      <4>1. CASE k \in 1 .. Len(listing)
        BY <3>2, <4>1 DEF LinesClassified
      <4>2. CASE k = Len(listing) + 1
        BY <2>2, <2>3, <2>5, <3>2, <4>2
      <4> QED
        BY <1>0, <3>2, <4>1, <4>2
    <3> QED
      BY <2>1, <3>3 DEF LinesClassified
  <2> QED
    BY <2>4, <2>5
<1>2. CASE ~PrintSymbol
  <2>1. UNCHANGED listing /\ (pc' \notin {"print", "done"} => pc \notin {"print", "done"})
    BY <1>2, ListingStep
  <2>2. CASE UNCHANGED sect_types
    BY <2>1, <2>2 DEF LinesClassified
  <2>3. CASE \E s \in Sects : DispSection(s)
    <3>1. listing = << >>
      BY <2>3 DEF DispSection, LinesClassified
    <3> QED
      BY <2>1, <3>1 DEF LinesClassified
  <2> QED
    BY <2>2, <2>3, SectTypesStep
<1> QED
  BY <1>1, <1>2

(* A printed letter of a symbol in a section is the letter of a section.   *)
LEMMA SectSymbolLetter ==
  ASSUME NEW sym \in Syms, NEW stypes \in Seq(SectLetters), sym.type = "SECT",
         IsPrinted(get_sym_type(sym, stypes))
  PROVE  /\ sym.n_sect \in 1 .. Len(stypes)
         /\ get_sym_type(sym, stypes) = IF sym.ext THEN stypes[sym.n_sect]
                                        ELSE Lower[stypes[sym.n_sect]]
<1>1. sym.n_sect \in Nat /\ sym.ext \in BOOLEAN /\ sym.stab \in BOOLEAN
  BY FileAssumption
<1>2. ~sym.stab
  BY <1>1 DEF get_sym_type, IsPrinted, Lower
<1>3. BaseLetter(sym, stypes) = SectLetter(sym.n_sect, stypes)
  BY DEF BaseLetter
<1>4. SectLetter(sym.n_sect, stypes) # "?"
  BY <1>2, <1>3 DEF get_sym_type, IsPrinted
<1>5. /\ sym.n_sect # 0 /\ Len(stypes) > sym.n_sect - 1
      /\ SectLetter(sym.n_sect, stypes) = stypes[sym.n_sect]
  BY <1>4 DEF SectLetter
<1> QED
  BY <1>1, <1>2, <1>3, <1>4, <1>5 DEF get_sym_type

(* A printed symbol that lives in a section bears the letter of the        *)
(* section its number means in the whole file, unless a push failed.       *)
THEOREM LettersRight == Spec => []LettersFromFile
<1>1. Init => TypeOK /\ LettersInv
  BY InitTypeOK DEF Init, LettersInv, LettersKept, LinesClassified
<1>2. (TypeOK /\ LettersInv) /\ [Next]_vars => (TypeOK /\ LettersInv)'
  BY StepTypeOK, StepLettersKept, StepLinesClassified DEF LettersInv
<1>3. TypeOK /\ LettersInv => LettersFromFile
  <2> SUFFICES ASSUME TypeOK, LettersInv, Len(sect_types) = Len(sections),
                      NEW k \in 1 .. Len(listing), listing[k].sym.type = "SECT"
               PROVE  LET sym == listing[k].sym
                      IN  /\ sym.n_sect \in 1 .. Len(sections)
                          /\ LET letter == get_sect_type(sections[sym.n_sect].sectname)
                             IN  listing[k].letter = IF sym.ext THEN letter ELSE Lower[letter]
    BY DEF LettersFromFile
  <2> DEFINE sym == listing[k].sym
  <2>1. sym \in Syms /\ sect_types \in Seq(SectLetters)
    <3>1. listing[k] \in Lines
      BY ElementOfSeq DEF TypeOK
    <3> QED
      BY <3>1 DEF TypeOK, Lines
  <2>2. listing[k].letter = get_sym_type(sym, sect_types) /\ IsPrinted(listing[k].letter)
    BY DEF LettersInv, LinesClassified
  <2> HIDE DEF sym
  <2>3. /\ sym.n_sect \in 1 .. Len(sect_types)
        /\ get_sym_type(sym, sect_types) = IF sym.ext THEN sect_types[sym.n_sect]
                                           ELSE Lower[sect_types[sym.n_sect]]
    BY <2>1, <2>2, SectSymbolLetter DEF sym
  <2>4. sect_types[sym.n_sect] = get_sect_type(sections[sym.n_sect].sectname)
    BY <2>3 DEF LettersInv, LettersKept
  <2> QED
    BY <2>2, <2>3, <2>4 DEF sym
<1> QED
  BY <1>1, <1>2, <1>3, PTL DEF Spec
-----------------------------------------------------------------------------
(* Above orders the tokens strictly: by the rank and the value, or by the  *)
(* value alone.                                                            *)
LEMMA AboveOrders ==
  ASSUME NEW a \in Tokens, NEW b \in Tokens, NEW c \in Tokens, NEW t
  PROVE  /\ Above(a, b, t) => ~Above(b, a, t)
         /\ Above(a, b, t) /\ Above(b, c, t) => Above(a, c, t)
         /\ Above(a, c, t) => Above(a, b, t) \/ Above(b, c, t)
<1>1. /\ a.name.rank \in Nat /\ b.name.rank \in Nat /\ c.name.rank \in Nat
      /\ a.sym.value \in Nat /\ b.sym.value \in Nat /\ c.sym.value \in Nat
  BY FileAssumption DEF Tokens
<1>2. CASE t.sorting = "alphabetical"
  BY <1>1, <1>2 DEF Above
<1>3. CASE t.sorting # "alphabetical"
  BY <1>1, <1>3 DEF Above
<1> QED
  BY <1>2, <1>3

(* What an exchange on should_swap leaves in row and col is in order, and  *)
(* a third symbol that was in order after the one in row still is.         *)
LEMMA ExchangeOrders ==
  ASSUME NEW a \in Tokens, NEW b \in Tokens, NEW c \in Tokens, target.sorting # "none"
  PROVE  /\ ~should_swap(a, b, target) => InOrder(a, b)
         /\ should_swap(a, b, target) => InOrder(b, a)
         /\ should_swap(a, b, target) /\ InOrder(a, c) => InOrder(b, c)
<1>1. CASE target.reversed
  BY <1>1, AboveOrders DEF should_swap, InOrder
<1>2. CASE ~target.reversed
  BY <1>2, AboveOrders DEF should_swap, InOrder
<1> QED
  BY <1>1, <1>2

(* ListingSorted speaks of the end of the sort.  During it, the rows left  *)
(* behind are in order with everything after them, and the row looked at   *)
(* with what the inner loop has passed.                                    *)
RowsInPlace ==
  pc = "sort" /\ target.sorting # "none" =>
    /\ \A b \in 1 .. Len(sym_tokens) : \A a \in 1 .. b - 1 :
         a < row => InOrder(sym_tokens[a], sym_tokens[b])
    /\ \A b \in 1 .. Len(sym_tokens) :
         row < b /\ b < col => InOrder(sym_tokens[row], sym_tokens[b])

(* Without a sort, the tokens are the symbols as they were read; the last  *)
(* symbol read has no token when malloc failed, and the walk ends.         *)
TokensAsRead ==
  pc # "done" /\ target.sorting = "none" =>
    /\ Len(sym_tokens) = Len(symbols)
    /\ \A k \in 1 .. Len(symbols) : sym_tokens[k].sym = symbols[k]

SortInv == RowsInPlace /\ TokensAsRead /\ ListingSorted

(* Two tokens trade places and the others stay.                            *)
LEMMA SwapTokens ==
  ASSUME NEW seq \in Seq(Tokens), NEW x \in 1 .. Len(seq), NEW y \in 1 .. Len(seq)
  PROVE  /\ Len(Swap(seq, x, y)) = Len(seq)
         /\ Swap(seq, x, y)[x] = seq[y] /\ Swap(seq, x, y)[y] = seq[x]
         /\ \A k \in 1 .. Len(seq) : k # x /\ k # y => Swap(seq, x, y)[k] = seq[k]
BY SwapInSeq

LEMMA ExchangeRows ==
  ASSUME TypeOK, RowsInPlace, Exchange PROVE RowsInPlace'
<1> SUFFICES ASSUME target.sorting # "none" PROVE RowsInPlace'
  BY DEF RowsInPlace, Exchange
<1> DEFINE toks == sym_tokens
<1>1. /\ toks \in Seq(Tokens) /\ pc = "sort" /\ pc' = "sort" /\ target' = target
      /\ row \in Nat /\ col \in Nat /\ 1 <= row /\ row < col /\ col <= Len(toks)
      /\ row' = row /\ col' = col + 1 /\ Len(toks) \in Nat
  BY DEF TypeOK, Exchange, walk
<1>2. row \in 1 .. Len(toks) /\ col \in 1 .. Len(toks) /\ toks[row] \in Tokens /\ toks[col] \in Tokens
      /\ \A k \in 1 .. Len(toks) : toks[k] \in Tokens
  BY <1>1, ElementOfSeq
<1>3. ASSUME NEW a, NEW b PROVE InOrder(a, b)' <=> InOrder(a, b)
  BY <1>1 DEF InOrder
<1>4. /\ \A b \in 1 .. Len(toks) : \A a \in 1 .. b - 1 : a < row => InOrder(toks[a], toks[b])
      /\ \A b \in 1 .. Len(toks) : row < b /\ b < col => InOrder(toks[row], toks[b])
  BY <1>1 DEF RowsInPlace
<1>5. CASE ~should_swap(toks[row], toks[col], target)
  <2>1. sym_tokens' = sym_tokens
    BY <1>5 DEF Exchange
  <2>2. InOrder(toks[row], toks[col])
    BY <1>2, <1>5, ExchangeOrders
  <2> QED
    BY <1>1, <1>4, <2>1, <2>2 DEF RowsInPlace, InOrder
<1>6. CASE should_swap(toks[row], toks[col], target)
  <2> DEFINE new == Swap(toks, row, col)
  <2>1. sym_tokens' = new
    BY <1>6 DEF Exchange
  <2>2. /\ Len(new) = Len(toks) /\ new[row] = toks[col] /\ new[col] = toks[row]
        /\ \A k \in 1 .. Len(toks) : k # row /\ k # col => new[k] = toks[k]
    BY <1>1, <1>2, SwapTokens
  <2> HIDE DEF new
  <2>3. ASSUME NEW b \in 1 .. Len(toks), NEW a \in 1 .. b - 1, a < row
        PROVE  InOrder(new[a], new[b])
    <3>1. a \in 1 .. Len(toks) /\ new[a] = toks[a] /\ a \in Nat /\ b \in Nat
      BY <1>1, <2>2, <2>3
    <3>2. CASE b = row
      BY <1>1, <1>2, <1>4, <2>2, <2>3, <3>1, <3>2
    <3>3. CASE b = col
      BY <1>1, <1>2, <1>4, <2>2, <2>3, <3>1, <3>3
    <3>4. CASE b # row /\ b # col
      BY <1>4, <2>2, <2>3, <3>1, <3>4
    <3> QED
      BY <3>2, <3>3, <3>4
  <2>4. ASSUME NEW b \in 1 .. Len(toks), row < b, b < col + 1
        PROVE  InOrder(new[row], new[b])
    <3>1. CASE b = col
      BY <1>2, <1>6, <2>2, <3>1, ExchangeOrders
    <3>2. CASE b < col
      <4>1. new[b] = toks[b] /\ InOrder(toks[row], toks[b])
        BY <1>1, <1>4, <2>2, <2>4, <3>2
      <4>2. InOrder(toks[col], toks[b])
        BY <1>2, <1>6, <4>1, ExchangeOrders
      <4> QED
        BY <2>2, <4>1, <4>2
    <3> QED
      BY <1>1, <2>4, <3>1, <3>2
  <2> QED
    BY <1>1, <2>1, <2>2, <2>3, <2>4 DEF RowsInPlace, InOrder
<1> QED
  BY <1>5, <1>6

(* When the inner loop is over, the row is in place.                       *)
LEMMA NextRowRows ==
  ASSUME TypeOK, RowsInPlace, NextRow PROVE RowsInPlace'
<1> SUFFICES ASSUME target.sorting # "none" PROVE RowsInPlace'
  BY DEF RowsInPlace, NextRow
<1>1. /\ pc = "sort" /\ UNCHANGED <<pc, target, sym_tokens>>
      /\ row \in Nat /\ col \in Nat /\ col > Len(sym_tokens)
      /\ row' = row + 1 /\ col' = row + 2 /\ Len(sym_tokens) \in Nat
  BY DEF TypeOK, NextRow, walk, arrays
<1>2. /\ \A b \in 1 .. Len(sym_tokens) : \A a \in 1 .. b - 1 :
           a < row => InOrder(sym_tokens[a], sym_tokens[b])
      /\ \A b \in 1 .. Len(sym_tokens) :
           row < b /\ b < col => InOrder(sym_tokens[row], sym_tokens[b])
  BY <1>1 DEF RowsInPlace
<1>3. ASSUME NEW b \in 1 .. Len(sym_tokens), NEW a \in 1 .. b - 1, a < row + 1
      PROVE  InOrder(sym_tokens[a], sym_tokens[b])
  <2>1. CASE a = row
    BY <1>1, <1>2, <1>3, <2>1
  <2>2. CASE a < row
    BY <1>2, <1>3, <2>2
  <2> QED
    BY <1>1, <1>3, <2>1, <2>2
<1> QED
  BY <1>1, <1>3 DEF RowsInPlace, InOrder

(* A step that neither sorts nor reads a symbol keeps both orders.         *)
LEMMA StepRowsInPlace ==
  ASSUME TypeOK, RowsInPlace, [Next]_vars PROVE RowsInPlace'
<1>1. CASE Exchange
  BY <1>1, ExchangeRows
<1>2. CASE NextRow
  BY <1>2, NextRowRows
<1>3. CASE StartSort
  <2>1. row' = 1 /\ col' = 2 /\ sym_tokens' = sym_tokens
    BY <1>3 DEF StartSort, arrays
  <2>2. sym_tokens \in Seq(Tokens)
    BY DEF TypeOK
  <2> QED
    BY <2>1, <2>2 DEF RowsInPlace
<1>4. CASE pc' # "sort"
  BY <1>4 DEF RowsInPlace
<1>5. CASE UNCHANGED <<pc, target, row, col, sym_tokens>>
  BY <1>5 DEF RowsInPlace, InOrder
<1> QED
  BY <1>1, <1>2, <1>3, <1>4, <1>5
     DEF Next, TruncatedCommand, EmptyCommand, EnterSegment, EnterSymtab, TruncatedTable,
         SkipCommand, Enter, ReadCommand, Fail, NextCommand, DispSection, EndSegment,
         StoreSymbol, EndSymtab, EndSort, PrintSymbol, Finish, Returned, sort, walk, arrays, vars

LEMMA StepTokensAsRead ==
  ASSUME TypeOK, TokensAsRead, [Next]_vars PROVE TokensAsRead'
<1>1. ASSUME NEW s \in Syms, StoreSymbol(s) PROVE TokensAsRead'
  <2> SUFFICES ASSUME pc' # "done", target.sorting = "none" PROVE TokensAsRead'
    BY <1>1 DEF TokensAsRead, StoreSymbol
  <2>1. sym_tokens \in Seq(Tokens) /\ symbols \in Seq(Syms) /\ pc = "sym"
    BY <1>1 DEF TypeOK, StoreSymbol
  <2>2. PICK name : sym_tokens' = Append(sym_tokens, [sym |-> s, name |-> name])
    BY <1>1 DEF StoreSymbol, Fail
  <2>3. symbols' = Append(symbols, s) /\ target' = target
    BY <1>1 DEF StoreSymbol
  <2>4. /\ Len(sym_tokens) = Len(symbols)
        /\ \A k \in 1 .. Len(symbols) : sym_tokens[k].sym = symbols[k]
    BY <2>1 DEF TokensAsRead
  <2>5. Len(sym_tokens') = Len(sym_tokens) + 1 /\ Len(symbols') = Len(symbols) + 1
    BY <2>1, <2>2, <2>3
  <2>6. ASSUME NEW k \in 1 .. Len(symbols') PROVE sym_tokens'[k].sym = symbols'[k]
    <3>1. CASE k \in 1 .. Len(symbols)
      BY <2>1, <2>2, <2>3, <2>4, <3>1
    <3>2. CASE k = Len(symbols) + 1
      BY <2>1, <2>2, <2>3, <2>4, <3>2
    <3> QED
      BY <2>1, <2>5, <3>1, <3>2
  <2> QED
    BY <2>4, <2>5, <2>6 DEF TokensAsRead
<1>2. CASE Exchange
  BY <1>2 DEF TokensAsRead, Exchange, should_swap, walk, history
<1>3. CASE pc' = "done" \/ (UNCHANGED <<target, sym_tokens, symbols>> /\ pc # "done")
  BY <1>3 DEF TokensAsRead
<1>4. CASE UNCHANGED vars
  BY <1>4 DEF TokensAsRead, vars, walk, arrays, history
<1> QED
  BY <1>1, <1>2, <1>3, <1>4
     DEF Next, TruncatedCommand, EmptyCommand, EnterSegment, EnterSymtab, TruncatedTable,
         SkipCommand, Enter, ReadCommand, Fail, NextCommand, DispSection, EndSegment,
         EndSymtab, StartSort, NextRow, EndSort, PrintSymbol, Finish, Returned, walk, arrays, history

LEMMA StepListingSorted ==
  ASSUME TypeOK, SortInv, [Next]_vars PROVE ListingSorted'
<1>1. CASE EndSort
  <2>1. /\ pc = "sort" /\ row > Len(sym_tokens) /\ row \in Nat
        /\ UNCHANGED <<target, sym_tokens, symbols>>
    BY <1>1 DEF EndSort, TypeOK, arrays, history
  <2>2. sym_tokens \in Seq(Tokens) /\ symbols \in Seq(Syms)
    BY DEF TypeOK
  <2>3. CASE target.sorting = "none"
    <3>1. /\ Len(sym_tokens) = Len(symbols)
          /\ \A k \in 1 .. Len(symbols) : sym_tokens[k].sym = symbols[k]
      BY <2>1, <2>3 DEF SortInv, TokensAsRead
    <3>2. symbols = [k \in 1 .. Len(symbols) |-> symbols[k]]
      BY <2>2
    <3>3. [k \in 1 .. Len(sym_tokens) |-> sym_tokens[k].sym] = symbols
      BY <3>1, <3>2
    <3> QED
      BY <2>1, <2>3, <3>3 DEF ListingSorted
  <2>4. CASE target.sorting # "none"
    <3>1. ASSUME NEW b \in 1 .. Len(sym_tokens), NEW a \in 1 .. b - 1
          PROVE  InOrder(sym_tokens[a], sym_tokens[b])
      BY <2>1, <2>2, <2>4 DEF SortInv, RowsInPlace
    <3> QED
      BY <2>1, <2>4, <3>1 DEF ListingSorted, InOrder
  <2> QED
    BY <2>3, <2>4
<1>2. CASE pc' # "print"
  BY <1>2 DEF ListingSorted
<1>3. CASE UNCHANGED <<pc, target, sym_tokens, symbols>>
  BY <1>3 DEF SortInv, ListingSorted, InOrder
<1> QED
  BY <1>1, <1>2, <1>3
     DEF Next, TruncatedCommand, EmptyCommand, EnterSegment, EnterSymtab, TruncatedTable,
         SkipCommand, Enter, ReadCommand, Fail, NextCommand, DispSection, EndSegment,
         StoreSymbol, EndSymtab, StartSort, Exchange, NextRow, PrintSymbol, Finish, Returned,
         walk, arrays, history, vars

(* The symbols are printed in the order the options ask for, whatever the  *)
(* names and values are and however many of them are equal: by name and    *)
(* then by value, by value, reversed or not, or in the order of the file.  *)
THEOREM SortedListing == Spec => []ListingSorted
<1>1. Init => TypeOK /\ SortInv
  <2> SUFFICES ASSUME Init PROVE SortInv
    BY InitTypeOK
  <2> QED
    BY DEF Init, SortInv, RowsInPlace, TokensAsRead, ListingSorted
<1>2. (TypeOK /\ SortInv) /\ [Next]_vars => (TypeOK /\ SortInv)'
  BY StepTypeOK, StepRowsInPlace, StepTokensAsRead, StepListingSorted DEF SortInv
<1>3. SortInv => ListingSorted
  BY DEF SortInv
<1> QED
  BY <1>1, <1>2, <1>3, PTL DEF Spec
-----------------------------------------------------------------------------
(* ListingComplete counts what is printed against what was read.  In       *)
(* between there are as many tokens of a symbol as times it was read, in   *)
(* whatever order, and as many lines as tokens the loop has passed.        *)
TokensOf(s, len) == {k \in 1 .. len : sym_tokens[k].sym = s}
LinesOf(s) == {k \in 1 .. Len(listing) : listing[k].sym = s}

(* Where the walk stands, and what it has then returned and printed.       *)
Progress ==
  /\ pc \in {"cmd", "sort"} => n = 0
  /\ pc \in {"sort", "print"} => i = ncmds
  /\ pc \notin {"print", "done"} => listing = << >>
  /\ rc = Running <=> pc # "done"
  /\ rc \in {ERR_SILENT, ERR_MEM} => listing = << >>
  /\ rc = OK => i = ncmds /\ n = Len(sym_tokens)

TokensCounted ==
  pc # "done" \/ rc = OK =>
    \A s \in Syms : Cardinality(TokensOf(s, Len(sym_tokens))) = Occurrences(s, symbols)

LinesCounted ==
  pc = "print" \/ rc = OK =>
    \A s \in Syms :
      Cardinality(LinesOf(s)) =
        IF IsPrinted(get_sym_type(s, sect_types)) THEN Cardinality(TokensOf(s, n)) ELSE 0

CountInv == Progress /\ TokensCounted /\ LinesCounted

(* Positions below a bound: how their number changes when one more         *)
(* position is looked at, and when two positions trade places.             *)
LEMMA PositionsFinite ==
  ASSUME NEW m \in Nat, NEW A, A \subseteq 1 .. m
  PROVE  IsFiniteSet(A) /\ Cardinality(A) \in Nat
<1>1. IsFiniteSet(1 .. m)
  BY FS_Interval
<1>2. IsFiniteSet(A)
  BY <1>1, FS_Subset
<1> QED
  BY <1>2, FS_CardinalityType

LEMMA OneMorePosition ==
  ASSUME NEW m \in Nat, NEW A, A \subseteq 1 .. m, NEW B, B \subseteq 1 .. m + 1,
         \A k \in 1 .. m : k \in B <=> k \in A
  PROVE  Cardinality(B) = IF m + 1 \in B THEN Cardinality(A) + 1 ELSE Cardinality(A)
<1>1. IsFiniteSet(A)
  BY PositionsFinite
<1>2. m + 1 \notin A
  OBVIOUS
<1>3. \A k \in 1 .. m + 1 : k \in 1 .. m \/ k = m + 1
  OBVIOUS
<1>4. \A k \in 1 .. m : k \in 1 .. m + 1
  OBVIOUS
<1>5. CASE m + 1 \in B
  <2>1. \A k : k \in B <=> k \in A \/ k = m + 1
    BY <1>3, <1>4, <1>5, Zenon
  <2>2. B = A \cup {m + 1}
    BY <2>1, Zenon
  <2> QED
    BY <1>1, <1>2, <1>5, <2>2, FS_AddElement
<1>6. CASE m + 1 \notin B
  <2>1. \A k : k \in B <=> k \in A
    BY <1>3, <1>4, <1>6, Zenon
  <2>2. B = A
    BY <2>1, Zenon
  <2> QED
    BY <1>6, <2>2
<1> QED
  BY <1>5, <1>6

LEMMA TradedPositions ==
  ASSUME NEW m \in Nat, NEW A, A \subseteq 1 .. m, NEW B, B \subseteq 1 .. m,
         NEW x \in 1 .. m, NEW y \in 1 .. m, x # y,
         x \in B <=> y \in A, y \in B <=> x \in A,
         \A k \in 1 .. m : k # x /\ k # y => (k \in B <=> k \in A)
  PROVE  Cardinality(B) = Cardinality(A)
<1>1. IsFiniteSet(A) /\ Cardinality(A) \in Nat
  BY PositionsFinite
<1>2. ASSUME NEW p, NEW q, {p, q} = {x, y}, p \in A, q \notin A
      PROVE  Cardinality(B) = Cardinality(A)
  <2>1. B = (A \ {p}) \cup {q}
    BY <1>2
  <2>2. IsFiniteSet(A \ {p}) /\ Cardinality(A \ {p}) = Cardinality(A) - 1
    BY <1>1, <1>2, FS_RemoveElement
  <2>3. Cardinality((A \ {p}) \cup {q}) = Cardinality(A \ {p}) + 1
    BY <1>2, <2>2, FS_AddElement
  <2> QED
    BY <1>1, <2>1, <2>2, <2>3
<1>3. CASE x \in A <=> y \in A
  <2>1. \A k : k \in B <=> k \in A
    BY <1>3, Zenon
  <2>2. B = A
    BY <2>1, Zenon
  <2> QED
    BY <2>2
<1> QED
  BY <1>2, <1>3

LEMMA StepProgress ==
  ASSUME TypeOK, Progress, [Next]_vars PROVE Progress'
<1> USE DEF Progress, OK, ERR_SILENT, ERR_MEM, Running
<1>1. CASE PrintSymbol
  BY <1>1 DEF PrintSymbol
<1>2. CASE Finish
  BY <1>2 DEF Finish, AllPrinted
<1>3. ASSUME NEW s \in Sects, DispSection(s) PROVE Progress'
  BY <1>3 DEF DispSection, Fail
<1>4. ASSUME NEW s \in Syms, StoreSymbol(s) PROVE Progress'
  <2>1. pc = "sym"
    BY <1>4 DEF StoreSymbol
  <2>2. Fail(ERR_SILENT) \/ UNCHANGED <<pc, output>>
    <3> HIDE DEF OK, ERR_SILENT, ERR_MEM, Running
    <3> QED
      BY <1>4 DEF StoreSymbol
  <2> QED
    BY <2>1, <2>2 DEF Fail, output
<1>5. CASE TruncatedCommand \/ (\E c \in LoadCmds : EmptyCommand(c) \/ TruncatedTable(c))
  BY <1>5 DEF TruncatedCommand, EmptyCommand, TruncatedTable, ReadCommand, Fail
<1>6. CASE \E c \in LoadCmds : EnterSegment(c) \/ EnterSymtab(c) \/ SkipCommand(c)
  BY <1>6 DEF EnterSegment, EnterSymtab, SkipCommand, ReadCommand, Enter, NextCommand, output
<1>7. CASE EndSegment \/ EndSymtab
  BY <1>7 DEF EndSegment, EndSymtab, NextCommand, output
<1>8. CASE StartSort \/ EndSort
  BY <1>8 DEF StartSort, EndSort, output
<1>9. CASE Exchange \/ NextRow
  BY <1>9 DEF Exchange, NextRow, walk, output
<1>10. CASE UNCHANGED vars
  BY <1>10 DEF vars, walk, arrays, output
<1> QED
  BY <1>1, <1>2, <1>3, <1>4, <1>5, <1>6, <1>7, <1>8, <1>9, <1>10 DEF Next, Returned

LEMMA StepTokensCounted ==
  ASSUME TypeOK, Progress, TokensCounted, [Next]_vars PROVE TokensCounted'
<1>0. sym_tokens \in Seq(Tokens) /\ symbols \in Seq(Syms)
  BY DEF TypeOK
<1>1. ASSUME NEW t \in Syms, StoreSymbol(t) PROVE TokensCounted'
  <2> SUFFICES ASSUME pc' # "done" \/ rc' = OK, NEW s \in Syms
               PROVE  Cardinality(TokensOf(s, Len(sym_tokens))') = Occurrences(s, symbols)'
    BY DEF TokensCounted
  <2>1. pc = "sym" /\ symbols' = Append(symbols, t)
    BY <1>1 DEF StoreSymbol
  <2>2. ~Fail(ERR_SILENT)
    BY DEF Fail, OK, ERR_SILENT
  <2>3. PICK name : sym_tokens' = Append(sym_tokens, [sym |-> t, name |-> name])
    BY <1>1, <2>2 DEF StoreSymbol
  <2> DEFINE toks == TokensOf(s, Len(sym_tokens))
             syms == {k \in 1 .. Len(symbols) : symbols[k] = s}
  <2>4. Cardinality(toks) = Cardinality(syms)
    BY <2>1 DEF TokensCounted, Occurrences
  <2>5. Cardinality(toks') = IF t = s THEN Cardinality(toks) + 1 ELSE Cardinality(toks)
    <3>1. /\ Len(sym_tokens) \in Nat /\ Len(sym_tokens') = Len(sym_tokens) + 1
          /\ sym_tokens'[Len(sym_tokens) + 1].sym = t
          /\ \A k \in 1 .. Len(sym_tokens) : sym_tokens'[k] = sym_tokens[k]
      BY <1>0, <2>3
    <3>2. /\ toks \subseteq 1 .. Len(sym_tokens) /\ toks' \subseteq 1 .. Len(sym_tokens) + 1
          /\ \A k \in 1 .. Len(sym_tokens) : k \in toks' <=> k \in toks
          /\ Len(sym_tokens) + 1 \in toks' <=> t = s
      BY <3>1 DEF TokensOf
    <3> QED
      BY <3>1, <3>2, OneMorePosition
  <2>6. Cardinality(syms') = IF t = s THEN Cardinality(syms) + 1 ELSE Cardinality(syms)
    <3>1. /\ Len(symbols) \in Nat /\ Len(symbols') = Len(symbols) + 1
          /\ symbols'[Len(symbols) + 1] = t
          /\ \A k \in 1 .. Len(symbols) : symbols'[k] = symbols[k]
      BY <1>0, <2>1
    <3>2. /\ syms \subseteq 1 .. Len(symbols) /\ syms' \subseteq 1 .. Len(symbols) + 1
          /\ \A k \in 1 .. Len(symbols) : k \in syms' <=> k \in syms
          /\ Len(symbols) + 1 \in syms' <=> t = s
      BY <3>1
    <3> QED
      BY <3>1, <3>2, OneMorePosition
  <2> QED
    BY <2>4, <2>5, <2>6 DEF Occurrences
<1>2. CASE Exchange
  <2>1. UNCHANGED <<pc, rc, symbols>> /\ pc = "sort"
        /\ row \in 1 .. Len(sym_tokens) /\ col \in 1 .. Len(sym_tokens) /\ row # col
    BY <1>2 DEF Exchange, TypeOK, walk, output, history
  <2>2. CASE UNCHANGED sym_tokens
    BY <2>1, <2>2 DEF TokensCounted, TokensOf
  <2>3. CASE sym_tokens' = Swap(sym_tokens, row, col)
    <3> SUFFICES ASSUME NEW s \in Syms
                 PROVE  Cardinality(TokensOf(s, Len(sym_tokens))') = Occurrences(s, symbols)'
      BY DEF TokensCounted
    <3> DEFINE toks == TokensOf(s, Len(sym_tokens))
               new  == Swap(sym_tokens, row, col)
    <3>1. /\ Len(new) = Len(sym_tokens)
          /\ new[row] = sym_tokens[col] /\ new[col] = sym_tokens[row]
          /\ \A k \in 1 .. Len(sym_tokens) : k # row /\ k # col => new[k] = sym_tokens[k]
      <4>1. row \in 1 .. Len(sym_tokens) /\ col \in 1 .. Len(sym_tokens)
        BY <2>1
      <4>2. sym_tokens \in Seq(Tokens)
        BY <1>0
      <4> HIDE DEF toks
      <4> QED
        BY <4>1, <4>2, SwapTokens, SMTT(30)
    <3> HIDE DEF new
    <3>2. sym_tokens' = new
      BY <2>3 DEF new
    <3>3. /\ toks \subseteq 1 .. Len(sym_tokens) /\ toks' \subseteq 1 .. Len(sym_tokens)
          /\ row \in toks' <=> col \in toks
          /\ col \in toks' <=> row \in toks
          /\ \A k \in 1 .. Len(sym_tokens) : k # row /\ k # col => (k \in toks' <=> k \in toks)
      BY <2>1, <3>1, <3>2 DEF TokensOf
    <3>4. Len(sym_tokens) \in Nat
      BY <1>0
    <3>5. Cardinality(toks') = Cardinality(toks)
      BY <2>1, <3>3, <3>4, TradedPositions
    <3>6. Cardinality(toks) = Occurrences(s, symbols)
      BY <2>1 DEF TokensCounted
    <3> QED
      BY <2>1, <3>5, <3>6 DEF Occurrences
  <2> QED
    BY <1>2, <2>2, <2>3 DEF Exchange
<1>3. CASE /\ UNCHANGED <<sym_tokens, symbols>>
           /\ pc' # "done" \/ rc' = OK => pc # "done" \/ rc = OK
  BY <1>3 DEF TokensCounted, TokensOf, Occurrences
<1>4. CASE pc' = "done" /\ rc' # OK
  BY <1>4 DEF TokensCounted
<1> QED
  BY <1>1, <1>2, <1>3, <1>4
     DEF Next, TruncatedCommand, EmptyCommand, EnterSegment, EnterSymtab, TruncatedTable,
         SkipCommand, Enter, ReadCommand, Fail, NextCommand, DispSection, EndSegment,
         EndSymtab, StartSort, NextRow, EndSort, PrintSymbol, Finish, Returned, walk, arrays,
         history, output, vars, OK, ERR_SILENT, ERR_MEM

LEMMA StepLinesCounted ==
  ASSUME TypeOK, Progress, LinesCounted, [Next]_vars PROVE LinesCounted'
<1>0. sym_tokens \in Seq(Tokens) /\ listing \in Seq(Lines)
  BY DEF TypeOK
<1>1. CASE PrintSymbol
  <2> SUFFICES ASSUME NEW s \in Syms
               PROVE  Cardinality(LinesOf(s)') =
                        IF IsPrinted(get_sym_type(s, sect_types))
                        THEN Cardinality(TokensOf(s, n)') ELSE 0
    BY <1>1 DEF LinesCounted, PrintSymbol, arrays
  <2> DEFINE token  == sym_tokens[n + 1]
             letter == get_sym_type(token.sym, sect_types)
             line   == [sym |-> token.sym, name |-> token.name, letter |-> letter]
             Shown  == IsPrinted(get_sym_type(s, sect_types))
             toks   == TokensOf(s, n)
  <2>1. /\ n \in Nat /\ n < Len(sym_tokens) /\ n' = n + 1 /\ pc = "print"
        /\ sym_tokens' = sym_tokens
        /\ listing' = IF IsPrinted(letter) THEN Append(listing, line) ELSE listing
    BY <1>1 DEF PrintSymbol, TypeOK, arrays
  <2>2. Cardinality(LinesOf(s)) = IF Shown THEN Cardinality(toks) ELSE 0
    BY <2>1 DEF LinesCounted
  <2>3. Cardinality(toks') = IF token.sym = s THEN Cardinality(toks) + 1 ELSE Cardinality(toks)
    <3>1. /\ toks \subseteq 1 .. n /\ toks' \subseteq 1 .. n + 1
          /\ \A k \in 1 .. n : k \in toks' <=> k \in toks
          /\ n + 1 \in toks' <=> token.sym = s
      BY <2>1 DEF TokensOf
    <3> QED
      BY <2>1, <3>1, OneMorePosition
  <2>4. CASE ~IsPrinted(letter)
    <3>1. LinesOf(s)' = LinesOf(s)
      BY <2>1, <2>4 DEF LinesOf
    <3>2. token.sym = s => ~Shown
      BY <2>4
    <3> HIDE DEF Shown, toks, token
    <3> QED
      BY <2>2, <2>3, <3>1, <3>2 DEF Shown, toks
  <2>5. CASE IsPrinted(letter)
    <3>1. token.sym = s => Shown
      BY <2>5
    <3>2. line.sym = token.sym
      OBVIOUS
    <3> HIDE DEF line, Shown, token, toks
    <3>3. /\ Len(listing) \in Nat /\ Len(listing') = Len(listing) + 1
          /\ listing'[Len(listing) + 1].sym = token.sym
          /\ \A k \in 1 .. Len(listing) : listing'[k] = listing[k]
      BY <1>0, <2>1, <2>5, <3>2
    <3>4. /\ LinesOf(s) \subseteq 1 .. Len(listing) /\ LinesOf(s)' \subseteq 1 .. Len(listing) + 1
          /\ \A k \in 1 .. Len(listing) : k \in LinesOf(s)' <=> k \in LinesOf(s)
          /\ Len(listing) + 1 \in LinesOf(s)' <=> token.sym = s
      BY <3>3 DEF LinesOf
    <3>5. Cardinality(LinesOf(s)') =
            IF token.sym = s THEN Cardinality(LinesOf(s)) + 1 ELSE Cardinality(LinesOf(s))
      BY <3>3, <3>4, OneMorePosition
    <3> QED
      BY <2>2, <2>3, <3>1, <3>5 DEF Shown, toks
  <2> QED
    BY <2>4, <2>5
<1>2. CASE EndSort
  <2> SUFFICES ASSUME NEW s \in Syms
               PROVE  Cardinality(LinesOf(s)') = 0 /\ Cardinality(TokensOf(s, n)') = 0
    BY DEF LinesCounted
  <2>1. n' = 0 /\ listing' = << >>
    BY <1>2 DEF EndSort, Progress, output
  <2>2. LinesOf(s)' = {} /\ TokensOf(s, n)' = {}
    BY <2>1 DEF LinesOf, TokensOf
  <2> QED
    BY <2>2, FS_EmptySet
<1>3. CASE Finish \/ UNCHANGED vars
  <2>1. /\ UNCHANGED <<listing, sym_tokens, sect_types, n>>
        /\ pc' = "print" \/ rc' = OK => pc = "print" \/ rc = OK
    BY <1>3 DEF Finish, vars, walk, arrays, output
  <2> QED
    BY <2>1 DEF LinesCounted, LinesOf, TokensOf
<1>4. CASE pc' # "print" /\ rc' # OK
  BY <1>4 DEF LinesCounted
<1>5. rc = OK => pc = "done"
  BY DEF Progress, OK, Running
<1>6. ASSUME NEW s \in Sects, DispSection(s) PROVE pc' # "print" /\ rc' # OK
  BY <1>5, <1>6 DEF DispSection, Fail, OK, ERR_MEM
<1>7. ASSUME NEW s \in Syms, StoreSymbol(s) PROVE pc' # "print" /\ rc' # OK
  <2>1. Fail(ERR_SILENT) \/ UNCHANGED <<pc, output>>
    BY <1>7 DEF StoreSymbol
  <2> QED
    BY <1>5, <1>7, <2>1 DEF StoreSymbol, Fail, output, OK, ERR_SILENT
<1>8. ASSUME NEW c \in LoadCmds,
             EmptyCommand(c) \/ EnterSegment(c) \/ EnterSymtab(c) \/ TruncatedTable(c) \/ SkipCommand(c)
      PROVE  pc' # "print" /\ rc' # OK
  BY <1>5, <1>8 DEF EmptyCommand, EnterSegment, EnterSymtab, TruncatedTable, SkipCommand,
     Enter, ReadCommand, Fail, NextCommand, output, OK, ERR_SILENT, ERR_MEM
<1>9. CASE TruncatedCommand \/ EndSegment \/ EndSymtab \/ StartSort \/ Exchange \/ NextRow
  BY <1>4, <1>5, <1>9 DEF TruncatedCommand, EndSegment, EndSymtab, StartSort, Exchange, NextRow,
     Fail, NextCommand, walk, output, OK, ERR_MEM
<1> QED
  BY <1>1, <1>2, <1>3, <1>4, <1>6, <1>7, <1>8, <1>9 DEF Next, Returned

(* disp_object prints no symbol when it fails; when it succeeds it has     *)
(* walked over all commands, and it has printed every printable symbol as  *)
(* often as the symbol tables hold it.                                     *)
THEOREM CompleteListing == Spec => []ListingComplete
<1>1. Init => TypeOK /\ CountInv
  <2> SUFFICES ASSUME Init PROVE CountInv
    BY InitTypeOK
  <2>1. Progress
    BY DEF Init, Progress, OK, ERR_SILENT, ERR_MEM, Running
  <2>2. LinesCounted
    BY DEF Init, LinesCounted, OK, Running
  <2>3. ASSUME NEW s \in Syms PROVE TokensOf(s, Len(sym_tokens)) = {k \in 1 .. Len(symbols) : symbols[k] = s}
    BY DEF Init, TokensOf
  <2> QED
    BY <2>1, <2>2, <2>3 DEF CountInv, TokensCounted, Occurrences
<1>2. (TypeOK /\ CountInv) /\ [Next]_vars => (TypeOK /\ CountInv)'
  BY StepTypeOK, StepProgress, StepTokensCounted, StepLinesCounted DEF CountInv
<1>3. CountInv => ListingComplete
  <2> SUFFICES ASSUME CountInv PROVE ListingComplete
    OBVIOUS
  <2>1. ASSUME rc = OK, NEW s \in Syms
        PROVE  Cardinality({k \in 1 .. Len(listing) : listing[k].sym = s}) =
                 IF IsPrinted(get_sym_type(s, sect_types)) THEN Occurrences(s, symbols) ELSE 0
    BY <2>1 DEF CountInv, Progress, TokensCounted, LinesCounted, LinesOf
  <2> QED
    BY <2>1 DEF CountInv, Progress, ListingComplete
<1> QED
  BY <1>1, <1>2, <1>3, PTL DEF Spec
-----------------------------------------------------------------------------
(* What the options ask for is what filter_disp lets through.              *)
LEMMA FilterAsks ==
  ASSUME NEW s
  PROVE  filter_disp(target, s) <=> <<s.segname, s.sectname>> \in Asked(target)
BY DEF filter_disp, Asked

(* The place of a position among some others is one of their number, and a *)
(* later position does not change it.                                      *)
LEMMA PlaceInRange ==
  ASSUME NEW m \in Nat, NEW A, A \subseteq 1 .. m, NEW p \in A
  PROVE  Place(p, A) \in 1 .. Cardinality(A)
<1> DEFINE B == {q \in A : q <= p}
<1>1. /\ IsFiniteSet(A) /\ Cardinality(A) \in Nat
      /\ IsFiniteSet(B) /\ Cardinality(B) \in Nat
  BY PositionsFinite
<1>2. Cardinality(B) <= Cardinality(A)
  BY <1>1, FS_Subset
<1>3. p \in B
  OBVIOUS
<1>4. Cardinality(B) # 0
  BY <1>1, <1>3, FS_EmptySet
<1> QED
  BY <1>1, <1>2, <1>4 DEF Place

LEMMA LaterPosition ==
  ASSUME NEW m \in Nat, NEW A, A \subseteq 1 .. m
  PROVE  /\ \A p \in A : Place(p, A \cup {m + 1}) = Place(p, A)
         /\ Cardinality(A \cup {m + 1}) = Cardinality(A) + 1
         /\ Place(m + 1, A \cup {m + 1}) = Cardinality(A) + 1
<1>1. IsFiniteSet(A) /\ m + 1 \notin A
  <2>1. m + 1 \notin A
    OBVIOUS
  <2> QED
    BY <2>1, PositionsFinite
<1>2. Cardinality(A \cup {m + 1}) = Cardinality(A) + 1
  BY <1>1, FS_AddElement
<1>3. ASSUME NEW p \in A PROVE Place(p, A \cup {m + 1}) = Place(p, A)
  <2>1. p \in 1 .. m
    OBVIOUS
  <2>2. ~(m + 1 <= p)
    BY <2>1
  <2>3. {q \in A \cup {m + 1} : q <= p} = {q \in A : q <= p}
    BY <2>2
  <2> QED
    BY <2>3 DEF Place
<1>4. {q \in A \cup {m + 1} : q <= m + 1} = A \cup {m + 1}
  <2>1. \A q \in A \cup {m + 1} : q <= m + 1
    OBVIOUS
  <2> QED
    BY <2>1, Zenon
<1> QED
  BY <1>2, <1>3, <1>4 DEF Place

(* While the walk goes on, the dump holds every section asked for.         *)
Dumps(positions) ==
  /\ Len(dumped) = Cardinality(positions)
  /\ \A p \in positions : dumped[Place(p, positions)] = sections[p]

LEMMA DumpSoFar ==
  ASSUME TypeOK, Progress, DumpedAsAsked, pc # "done" PROVE Dumps(AskedAt)
BY DEF Progress, DumpedAsAsked, Dumps, Running, ERR_MEM

LEMMA DispSectionDumps ==
  ASSUME TypeOK, Progress, DumpedAsAsked, NEW s \in Sects, DispSection(s)
  PROVE  DumpedAsAsked'
<1> DEFINE m == Len(sections)
<1>1. /\ sections \in Seq(Sects) /\ dumped \in Seq(Sects) /\ m \in Nat
      /\ sections' = Append(sections, s) /\ target' = target /\ pc = "sect"
  BY DEF TypeOK, DispSection
<1>2. /\ Len(sections') = m + 1 /\ sections'[m + 1] = s
      /\ \A p \in 1 .. m : sections'[p] = sections[p]
  BY <1>1
<1>3. Dumps(AskedAt) /\ AskedAt \subseteq 1 .. m
  BY <1>1, DumpSoFar DEF AskedAt
<1>4. m + 1 \in AskedAt' <=> filter_disp(target, s)
  BY <1>1, <1>2, FilterAsks DEF AskedAt
<1>5. \A p \in 1 .. m : p \in AskedAt' <=> p \in AskedAt
  BY <1>1, <1>2 DEF AskedAt
<1>6. AskedAt' \subseteq 1 .. m + 1
  BY <1>2 DEF AskedAt
<1>7. \A p \in 1 .. m + 1 : p \in 1 .. m \/ p = m + 1
  BY <1>1
<1>8. m + 1 \notin 1 .. m /\ \A p \in 1 .. m : p \in 1 .. m + 1
  BY <1>1
<1> HIDE DEF m
<1>9. CASE ~filter_disp(target, s)
  <2>1. AskedAt' = AskedAt
    <3>1. \A p : p \in AskedAt' <=> p \in AskedAt
      BY <1>3, <1>4, <1>5, <1>6, <1>7, <1>8, <1>9, Zenon
    <3> QED
      BY <3>1, Zenon
  <2>2. dumped' = dumped
    BY <1>9 DEF DispSection
  <2> QED
    BY <1>2, <1>3, <2>1, <2>2 DEF DumpedAsAsked, Dumps
<1>10. CASE filter_disp(target, s)
  <2>1. AskedAt' = AskedAt \cup {m + 1}
    <3>1. \A p : p \in AskedAt' <=> p \in AskedAt \/ p = m + 1
      BY <1>3, <1>4, <1>5, <1>6, <1>7, <1>8, <1>10, Zenon
    <3> QED
      BY <3>1, Zenon
  <2>2. /\ \A p \in AskedAt : Place(p, AskedAt') = Place(p, AskedAt)
        /\ Cardinality(AskedAt') = Cardinality(AskedAt) + 1
        /\ Place(m + 1, AskedAt') = Cardinality(AskedAt) + 1
    BY <1>1, <1>3, <2>1, LaterPosition DEF m
  <2>3. Len(dumped) = Cardinality(AskedAt) /\ Len(dumped) \in Nat
    BY <1>1, <1>3 DEF Dumps
  <2>4. CASE DataFits(s)
    <3>1. dumped' = Append(dumped, s) /\ rc' = rc
      BY <1>10, <2>4 DEF DispSection
    <3>2. Len(dumped') = Cardinality(AskedAt')
      BY <1>1, <2>2, <2>3, <3>1
    <3>3. ASSUME NEW p \in AskedAt' PROVE dumped'[Place(p, AskedAt')] = sections'[p]
      <4>1. CASE p = m + 1
        BY <1>1, <1>2, <2>2, <2>3, <3>1, <4>1 DEF m
      <4>2. CASE p \in AskedAt
        <5>1. Place(p, AskedAt) \in 1 .. Len(dumped)
          BY <1>1, <1>3, <2>3, <4>2, PlaceInRange DEF m
        <5>2. dumped'[Place(p, AskedAt)] = dumped[Place(p, AskedAt)]
          BY <1>1, <3>1, <5>1
        <5> QED
          BY <1>2, <1>3, <2>2, <4>2, <5>2 DEF Dumps
      <4> QED
        BY <2>1, <4>1, <4>2
    <3> QED
      BY <3>2, <3>3 DEF DumpedAsAsked
  <2>5. CASE ~DataFits(s)
    <3>1. rc' = ERR_MEM /\ dumped' = dumped
      BY <1>10, <2>5 DEF DispSection, Fail
    <3>2. AskedAt' \ {Len(sections')} = AskedAt
      <4>1. m + 1 \notin AskedAt
        BY <1>3, <1>8
      <4>2. (AskedAt \cup {m + 1}) \ {m + 1} = AskedAt
        BY <4>1
      <4>3. Len(sections') = m + 1
        BY <1>2
      <4> QED
        BY <2>1, <4>2, <4>3, Zenon
    <3>3. Len(dumped') # Cardinality(AskedAt')
      BY <2>2, <2>3, <3>1
    <3>4. \A p \in AskedAt : sections'[p] = sections[p]
      BY <1>2, <1>3
    <3> QED
      BY <1>3, <3>1, <3>2, <3>3, <3>4 DEF DumpedAsAsked, Dumps
  <2> QED
    BY <2>4, <2>5
<1> QED
  BY <1>9, <1>10

(* No other step reads a section header or dumps one.                      *)
LEMMA DumpStep ==
  ASSUME [Next]_vars
  PROVE  \/ \E s \in Sects : DispSection(s)
         \/ UNCHANGED <<target, sections, dumped>> /\ pc # "done"
         \/ UNCHANGED <<target, sections, dumped, rc>>
<1>1. CASE TruncatedCommand \/ EndSegment \/ EndSymtab \/ StartSort \/ EndSort
  BY <1>1 DEF TruncatedCommand, EndSegment, EndSymtab, StartSort, EndSort, Fail, NextCommand,
     output, history
<1>2. ASSUME NEW c \in LoadCmds,
             EmptyCommand(c) \/ EnterSegment(c) \/ EnterSymtab(c) \/ TruncatedTable(c) \/ SkipCommand(c)
      PROVE  UNCHANGED <<target, sections, dumped>> /\ pc # "done"
  BY <1>2 DEF EmptyCommand, EnterSegment, EnterSymtab, TruncatedTable, SkipCommand,
     Enter, ReadCommand, Fail, NextCommand, output, history
<1>3. ASSUME NEW s \in Syms, StoreSymbol(s)
      PROVE  UNCHANGED <<target, sections, dumped>> /\ pc # "done"
  <2>1. Fail(ERR_SILENT) \/ UNCHANGED output
    BY <1>3 DEF StoreSymbol
  <2> QED
    BY <1>3, <2>1 DEF StoreSymbol, Fail, output
<1>4. CASE Exchange \/ NextRow \/ PrintSymbol \/ Finish \/ UNCHANGED vars
  BY <1>4 DEF Exchange, NextRow, PrintSymbol, Finish, output, history, vars
<1> QED
  BY <1>1, <1>2, <1>3, <1>4 DEF Next, Returned

LEMMA StepDumpedAsAsked ==
  ASSUME TypeOK, Progress, DumpedAsAsked, [Next]_vars PROVE DumpedAsAsked'
<1>1. CASE \E s \in Sects : DispSection(s)
  BY <1>1, DispSectionDumps
<1>2. CASE UNCHANGED <<target, sections, dumped>> /\ pc # "done"
  <2>1. AskedAt' = AskedAt
    BY <1>2 DEF AskedAt
  <2>2. Dumps(AskedAt)
    BY <1>2, DumpSoFar
  <2> QED
    BY <1>2, <2>1, <2>2 DEF DumpedAsAsked, Dumps
<1>3. CASE UNCHANGED <<target, sections, dumped, rc>>
  BY <1>3 DEF DumpedAsAsked, AskedAt
<1> QED
  BY <1>1, <1>2, <1>3, DumpStep

(* otool dumps the sections its options ask for, each once and in the      *)
(* order of the file, and stops at the first that does not fit.            *)
THEOREM DumpComplete == Spec => []DumpedAsAsked
<1>1. Init => TypeOK /\ Progress /\ DumpedAsAsked
  <2> SUFFICES ASSUME Init PROVE Progress /\ DumpedAsAsked
    BY InitTypeOK
  <2>1. Progress
    BY DEF Init, Progress, OK, ERR_SILENT, ERR_MEM, Running
  <2>2. AskedAt = {} /\ rc = Running /\ dumped = << >>
    BY DEF Init, AskedAt
  <2> QED
    BY <2>1, <2>2, FS_EmptySet DEF DumpedAsAsked, Running, ERR_MEM
<1>2. (TypeOK /\ Progress /\ DumpedAsAsked) /\ [Next]_vars => (TypeOK /\ Progress /\ DumpedAsAsked)'
  BY StepTypeOK, StepProgress, StepDumpedAsAsked
<1> QED
  BY <1>1, <1>2, PTL DEF Spec
-----------------------------------------------------------------------------
(* disp_file calls disp_object and is given one of its three codes, once:  *)
(* the walk implements Returns, but for the promise that it ends.          *)
THEOREM CallerSeesOneReturn == Spec => Call!Init /\ [][Call!Return]_rc
<1>1. Init => TypeOK /\ Progress /\ Call!Init
  <2> SUFFICES ASSUME Init PROVE Progress /\ Call!Init
    BY InitTypeOK
  <2> QED
    BY DEF Init, Progress, OK, ERR_SILENT, ERR_MEM, Running, Call!Init
<1>2. (TypeOK /\ Progress) /\ [Next]_vars => (TypeOK /\ Progress)'
  BY StepTypeOK, StepProgress
<1>3. (TypeOK /\ Progress) /\ [Next]_vars => [Call!Return]_rc
  <2> SUFFICES ASSUME TypeOK, Progress, [Next]_vars PROVE [Call!Return]_rc
    OBVIOUS
  <2>1. rc' \in {Running, OK, ERR_SILENT, ERR_MEM}
    BY StepTypeOK DEF TypeOK
  <2>2. CASE pc # "done"
    BY <2>1, <2>2 DEF Progress, Call!Return
  <2>3. CASE pc = "done"
    <3>1. UNCHANGED vars
      BY <2>3 DEF Next, Returned, TruncatedCommand, EmptyCommand, EnterSegment,
         EnterSymtab, TruncatedTable, SkipCommand, ReadCommand, DispSection, EndSegment,
         StoreSymbol, EndSymtab, StartSort, Exchange, NextRow, EndSort, PrintSymbol, Finish
    <3> QED
      BY <3>1 DEF vars, output
  <2> QED
    BY <2>2, <2>3
<1> QED
  BY <1>1, <1>2, <1>3, PTL DEF Spec
=============================================================================
