------------------------------- MODULE Symbols -------------------------------
(***************************************************************************)
(* The pure part of the tools: how a symbol is classified, which sections  *)
(* are dumped, and how the symbol list is ordered (types.c, nm_disp.c).    *)
(*                                                                         *)
(* A symbol is an nlist entry with its fields already decoded:             *)
(*   type   the N_TYPE bits: "UNDF", "ABS", "SECT", "PBUD", "INDR", or     *)
(*          "other" for the bit patterns that name nothing                 *)
(*   stab   a bit of N_STAB is set          ext     N_EXT is set           *)
(*   n_sect the 1-based section number      value   n_value                *)
(* A name is represented by its rank in strcmp order (name.rank).          *)
(***************************************************************************)
EXTENDS Naturals, Sequences

SymTypes == {"UNDF", "ABS", "SECT", "PBUD", "INDR", "other"}

SectLetters == {"D", "B", "T", "S"}

Letters == {"D", "B", "T", "S", "C", "U", "A", "I", "Z", "?",
             "d", "b", "t", "s", "c", "u", "a", "i", "z"}

get_sect_type(name) ==
  CASE name = "__data" -> "D"
    [] name = "__bss"  -> "B"
    [] name = "__text" -> "T"
    [] OTHER           -> "S"

(* ret += 32: the lower case of a letter.                                  *)
Lower == [D |-> "d", B |-> "b", T |-> "t", S |-> "s", C |-> "c",
          U |-> "u", A |-> "a", I |-> "i", Z |-> "z"]

(* A wrong lookup: the section number taken as a 0-based index.            *)
SectLetterOffByOne(n_sect, stypes) ==
  IF Len(stypes) > n_sect THEN stypes[n_sect + 1] ELSE "?"

(* The section lookup of get_sym_type: n_sect - 1 is converted to size_t,  *)
(* so that section number 0 becomes the largest index and finds nothing.   *)
SectLetter(n_sect, stypes) ==
  IF n_sect # 0 /\ Len(stypes) > n_sect - 1 THEN stypes[n_sect] ELSE "?"

BaseLetter(sym, stypes) ==
  CASE sym.type = "UNDF" -> IF sym.value # 0 THEN "C" ELSE "U"
    [] sym.type = "ABS"  -> "A"
    [] sym.type = "PBUD" -> "U"
    [] sym.type = "SECT" -> SectLetter(sym.n_sect, stypes)
    [] sym.type = "INDR" -> "I"
    [] OTHER             -> "?"

get_sym_type(sym, stypes) ==
  LET ret == IF sym.stab THEN "Z" ELSE BaseLetter(sym, stypes)
  IN  IF ~sym.ext /\ ret # "?" THEN Lower[ret] ELSE ret

(* disp_sym prints no line for debugging symbols and unknown types.        *)
IsPrinted(letter) == letter \notin {"z", "Z", "?"}

(* A wrong filter: the segment name is not compared.                       *)
filter_disp_sectname(target, sec) ==
  /\ target.is_otool
  /\ \/ target.show_text /\ sec.sectname = "__text"
     \/ target.show_data /\ sec.sectname = "__data"
     \/ target.pick # << >> /\ sec.sectname = target.pick[2]

(* Which sections otool dumps.  target.pick is <<segname, sectname>> given *)
(* with -s, or << >>.                                                      *)
filter_disp(target, sec) ==
  /\ target.is_otool
  /\ \/ target.show_text /\ <<sec.segname, sec.sectname>> = <<"__TEXT", "__text">>
     \/ target.show_data /\ <<sec.segname, sec.sectname>> = <<"__DATA", "__data">>
     \/ target.pick = <<sec.segname, sec.sectname>>

(* A name or a value comes after another one, by the order of the options. *)
Above(a, b, target) ==
  IF target.sorting = "alphabetical" /\ a.name.rank # b.name.rank
  THEN a.name.rank > b.name.rank
  ELSE a.sym.value > b.sym.value

(* The comparison the sort exchanges on.  Reversed, it answers !c, so that *)
(* equal symbols are exchanged too.                                        *)
should_swap(a, b, target) ==
  /\ target.sorting # "none"
  /\ IF target.reversed THEN ~Above(a, b, target) ELSE Above(a, b, target)

Swap(seq, i, j) == [seq EXCEPT ![i] = seq[j], ![j] = seq[i]]
=============================================================================
