-------------------------------- MODULE Wide ---------------------------------
(***************************************************************************)
(* Wide characters: %C, %S, %lc and %ls of ft_printf (display_text.c), and *)
(* the UTF-8 encoder of libft they print with.  The narrow conversions are *)
(* in the module Format.                                                   *)
(*                                                                         *)
(* A wide character is its code, a wide string a sequence of codes without *)
(* the final 0; the output is a sequence of bytes.                         *)
(***************************************************************************)
EXTENDS Integers, SequencesExt, FiniteSetsExt

CONSTANTS
  Fields,  \* the directives: left, zero, min_width, precision (-1: none)
  Strings  \* the wide strings printed

VARIABLES
  info,   \* the directive
  conv,   \* "S", or "C" for one character
  str,    \* the string
  pc,     \* "before", "text", "after", "done"
  i,      \* characters of the text printed
  out     \* the bytes printed

vars == <<info, conv, str, pc, i, out>>

Zero == 48
Space == 32

(* A wrong test: the lead byte is taken to have room for six bits always.  *)
ContinuesSixBits(i0, wc) == i0 < 3 /\ wc >= 2 ^ 6

(* i < 3 && wc & ~(0x3F >> i)                                              *)
Continues(i0, wc) == i0 < 3 /\ wc >= 2 ^ (6 - i0)

(* The bytes of cs are put last one first, after the lead byte.            *)
ft_putwchar_buf(wc) ==
  LET f[k \in Nat, w \in Nat] ==
        IF Continues(k, w) THEN Append(f[k + 1, w \div 64], (w % 64) + 128)
        ELSE <<(w % 2 ^ (6 - k)) + ((240 * 2 ^ (3 - k)) % 256)>>
  IN  IF wc < 128 THEN <<wc>> ELSE f[0, wc]

ft_putnchar_buf(c, n) == [k \in 1 .. n |-> c]

get_padding == IF info.zero THEN Zero ELSE Space

(* The characters to print: one, or the string cut to the precision.       *)
Length ==
  IF conv = "C" THEN 1
  ELSE IF info.precision >= 0 THEN Min({Len(str), info.precision}) ELSE Len(str)

Init ==
  /\ info \in Fields /\ str \in Strings /\ conv \in {"C", "S"}
  /\ conv = "C" => Len(str) = 1
  /\ pc = "before" /\ i = 0 /\ out = << >>

PadBefore ==
  /\ pc = "before" /\ pc' = "text"
  /\ out' = IF info.left THEN << >> ELSE ft_putnchar_buf(get_padding, info.min_width - Length)
  /\ UNCHANGED <<info, conv, str, i>>

(* One turn of ft_putnwstr_buf, or the one character of putchar_padded.    *)
PutWide ==
  /\ pc = "text" /\ i < Length
  /\ out' = out \o ft_putwchar_buf(str[i + 1]) /\ i' = i + 1
  /\ UNCHANGED <<info, conv, str, pc>>

EndText ==
  /\ pc = "text" /\ i = Length /\ pc' = "after"
  /\ UNCHANGED <<info, conv, str, i, out>>

(* A wrong fill: it is counted in bytes.                                   *)
PadAfterBytes ==
  /\ pc = "after" /\ pc' = "done"
  /\ out' = IF info.left THEN out \o ft_putnchar_buf(Space, info.min_width - Len(out)) ELSE out
  /\ UNCHANGED <<info, conv, str, i>>

PadAfter ==
  /\ pc = "after" /\ pc' = "done"
  /\ out' = IF info.left THEN out \o ft_putnchar_buf(Space, info.min_width - Length) ELSE out
  /\ UNCHANGED <<info, conv, str, i>>

Next == PadBefore \/ PutWide \/ EndText \/ PadAfter

Spec == Init /\ [][Next]_vars
-----------------------------------------------------------------------------
(* A decoder of UTF-8, from the definition of the encoding: the length of  *)
(* a sequence by its first byte, the codes it may hold, and its value.     *)
SeqLen(b) ==
  CASE b \in 0 .. 127 -> 1 [] b \in 192 .. 223 -> 2 [] b \in 224 .. 239 -> 3
    [] b \in 240 .. 247 -> 4 [] OTHER -> 0

Shortest == <<0, 128, 2048, 65536>>

Value(s) ==
  FoldLeft(LAMBDA v, b : v * 64 + b - 128, IF Len(s) = 1 THEN s[1] ELSE s[1] - 256 + 2 ^ (8 - Len(s)),
           Tail(s))

WellFormed(s) ==
  /\ \A k \in 2 .. Len(s) : s[k] \in 128 .. 191
  /\ Value(s) >= Shortest[Len(s)]

(* The characters of a byte string, << -1 >> at the end where it is not    *)
(* one.                                                                    *)
Decode(bytes) ==
  LET f[k \in Nat] ==
        IF k > Len(bytes) THEN << >>
        ELSE LET n == SeqLen(bytes[k])
             IN  IF n = 0 \/ k + n - 1 > Len(bytes) THEN <<-1>>
                 ELSE IF ~WellFormed(SubSeq(bytes, k, k + n - 1)) THEN <<-1>>
                 ELSE <<Value(SubSeq(bytes, k, k + n - 1))>> \o f[k + n]
  IN  f[1]

(* At any moment the bytes printed are well-formed UTF-8, in the shortest  *)
(* form, for the characters printed so far: an output cut between two      *)
(* characters can be read, and no character comes out as another, at the   *)
(* codes where the number of bytes changes either.                         *)
DecodesBack ==
  LET text == SubSeq(str, 1, i)
      read == Decode(out)
  IN  IF info.left THEN IsPrefix(text, read)
      ELSE pc # "before" => IsSuffix(text, read)

(* A field has as many characters as its width says, whatever the number   *)
(* of bytes they take, so that columns align; it is wider only for its     *)
(* text, which the precision cuts between characters.                      *)
ColumnsAlign ==
  pc = "done" => Len(Decode(out)) = Max({info.min_width, i})
                 /\ (conv = "S" /\ info.precision >= 0 => i <= info.precision)

(* Wide text can be read from the bytes at any moment, and its columns     *)
(* align.                                                                  *)
WideReadsBack == DecodesBack /\ ColumnsAlign
=============================================================================
