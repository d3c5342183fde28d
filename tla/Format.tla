------------------------------- MODULE Format --------------------------------
(***************************************************************************)
(* ft_printf: the formatter behind print and printerr (printf/src).  The   *)
(* directive is parsed, the converter is looked up in a table, and the     *)
(* field is put character by character into the output buffer (OutBuf).    *)
(* Wide characters (%C, %S, %lc, %ls) are left out.                        *)
(*                                                                         *)
(* A character is a string of length one, a format a sequence of them, an  *)
(* argument a number or a sequence of characters.                          *)
(***************************************************************************)
EXTENDS Integers, SequencesExt

CONSTANTS
  Calls,       \* the calls of ft_printf considered: a format and its arguments
  Bits,        \* the width of the integer types, by length modifier
  NULL         \* the null pointer, as the argument of %s

Digits == <<"0", "1", "2", "3", "4", "5", "6", "7", "8", "9">>
LowerDigits == Digits \o <<"a", "b", "c", "d", "e", "f">>
UpperDigits == Digits \o <<"A", "B", "C", "D", "E", "F">>

Lengths == {"none", "hh", "h", "l", "ll", "j", "z", "t"}

ASSUME FormatAssumption ==
  /\ Bits \in [Lengths -> Nat \ {0}]
  /\ NULL \notin Seq(STRING)

VARIABLES
  format, args,  \* the call
  str,           \* the position in the format
  next,          \* the arguments va_arg has consumed
  out,           \* the characters printed
  fields         \* history: the directives met and what they printed

vars == <<format, args, str, next, out, fields>>

Init ==
  /\ \E c \in Calls : format = c.format /\ args = c.args
  /\ str = 1 /\ next = 0 /\ out = << >> /\ fields = << >>

At(k) == IF k <= Len(format) THEN format[k] ELSE "NUL"
-----------------------------------------------------------------------------
(* The position after the characters from k on that read_arg accepts.      *)
Skip(k, chars) == Min({m \in k .. Len(format) + 1 : At(m) \notin chars})

FlagChars == {"-", "+", " ", "#", "0"}

(* get_flags: any of the flags, in any order and number.                   *)
get_flags(k) == {format[m] : m \in k .. Skip(k, FlagChars) - 1}

DigitValue(c) == (CHOOSE d \in 1 .. 16 : c \in {LowerDigits[d], UpperDigits[d]}) - 1

(* The number a sequence of digits is read as.                             *)
ReadNumber(digits, base) ==
  FoldLeft(LAMBDA value, c : value * base + DigitValue(c), 0, digits)

AfterNumber(k) == Skip(k, ToSet(Digits))

(* get_width: 0 when there is no digit; -1 when the starter is missing.    *)
get_width(k) == ReadNumber(SubSeq(format, k, AfterNumber(k) - 1), 10)

get_precision(k) == IF At(k) = "." THEN get_width(k + 1) ELSE -1

AfterPrecision(k) == IF At(k) = "." THEN AfterNumber(k + 1) ELSE k

(* get_input: hh, h, ll, l, j, z or t.                                     *)
get_input(k) ==
  IF At(k) \in {"h", "l"} /\ At(k + 1) = At(k) THEN IF At(k) = "h" THEN "hh" ELSE "ll"
  ELSE IF At(k) \in {"h", "l", "j", "z", "t"} THEN At(k)
  ELSE "none"

AfterInput(k) ==
  k + CASE get_input(k) = "none" -> 0 [] get_input(k) \in {"hh", "ll"} -> 2 [] OTHER -> 1

(* A directive that starts after position k: t_info, and where it ends.    *)
Directive(k) ==
  LET w == Skip(k + 1, FlagChars)
      p == AfterNumber(w)
      l == AfterPrecision(p)
      c == AfterInput(l)
  IN  [flags |-> get_flags(k + 1), min_width |-> get_width(w),
       precision |-> get_precision(p), input_len |-> get_input(l),
       conv |-> At(c), end |-> c]
-----------------------------------------------------------------------------
(* g_args: the converters, their base, and the length that replaces the    *)
(* one given.                                                              *)
Unsigned == {"o", "u", "x", "X", "p", "O", "U", "b", "B"}
Numbers == Unsigned \cup {"d", "i", "D"}

Base(conv) ==
  CASE conv \in {"x", "X", "p"} -> 16
    [] conv \in {"o", "O"}      -> 8
    [] conv \in {"b", "B"}      -> 2
    [] OTHER                    -> 10

InputLen(d) ==
  CASE d.conv = "p" -> "t"
    [] d.conv \in {"O", "D", "U", "B"} -> "l"
    [] OTHER -> d.input_len

(* get_u32_arg, get_int_arg: the argument in its width.  The build makes   *)
(* char unsigned, so that %hhd prints an unsigned number.                  *)
Pow2(n) == 2 ^ n

Argument(d, arg) ==
  LET bits == Bits[InputLen(d)]
      u    == arg % Pow2(bits)
  IN  IF d.conv \in Unsigned \/ InputLen(d) = "hh" \/ u < Pow2(bits - 1)
      THEN u ELSE u - Pow2(bits)

Magnitude(n) == IF n < 0 THEN -n ELSE n

(* fill_uint: the digits, the last one first; none for 0.                  *)
fill_uint(value, base, dic) ==
  LET fill[n \in Nat] == IF n = 0 THEN << >> ELSE <<dic[(n % base) + 1]>> \o fill[n \div base]
  IN  fill[value]

(* get_header: the sign or the prefix.                                     *)
get_header(d, n) ==
  LET verbose == "#" \in d.flags \/ d.conv = "p"
      base    == Base(d.conv)
  IN  CASE verbose /\ (d.conv = "p" \/ n # 0) ->
             IF base = 16 THEN <<"0", IF d.conv = "X" THEN "X" ELSE "x">> ELSE <<"0">>
        [] verbose /\ n = 0 /\ base = 8 /\ d.precision = 0 -> <<"0">>
        [] d.conv \in Unsigned -> << >>
        [] n < 0               -> <<"-">>
        [] "+" \in d.flags     -> <<"+">>
        [] " " \in d.flags     -> <<" ">>
        [] OTHER               -> << >>

(* ft_putnchar_buf: nothing, when the count is not positive.               *)
PutN(c, n) == [k \in 1 .. n |-> c]

(* ft_putstr_buf instead of ft_putrstr_buf: a wrong order of the digits.   *)
PutForward(digits) == digits

(* ft_putrstr_buf                                                          *)
PutReverse(digits) == Reverse(digits)

(* A wrong count: the header is forgotten.                                 *)
SpacingNoHeader(d, padding, header, num_len) == d.min_width - (padding + num_len)

(* The columns left to fill.  MAX(..., 0) compares unsigned numbers, and   *)
(* the difference comes out negative when the field is too narrow.         *)
Spacing(d, padding, header, num_len) == d.min_width - (padding + Len(header) + num_len)

(* display_final: spaces, header, zeros, digits, spaces.                   *)
display_final(d, header, number) ==
  LET zeroed    == "0" \in d.flags /\ d.precision = -1
      left      == "-" \in d.flags
      precision == IF d.precision = -1 THEN 1 ELSE d.precision
      padding   == Max({precision - Len(number), 0})
      spacing   == Spacing(d, padding, header, Len(number))
  IN  (IF ~zeroed /\ ~left THEN PutN(" ", spacing) ELSE << >>)
      \o header
      \o PutN("0", IF zeroed /\ ~left THEN padding + spacing ELSE padding)
      \o PutReverse(number)
      \o (IF left THEN PutN(" ", spacing) ELSE << >>)

display_int(d, arg) ==
  LET n   == Argument(d, arg)
      dic == IF d.conv = "X" THEN UpperDigits ELSE LowerDigits
  IN  display_final(d, get_header(d, n), fill_uint(Magnitude(n), Base(d.conv), dic))

(* putchar_padded and display_str: text in a field.                        *)
Padded(d, text) ==
  LET spacing == d.min_width - Len(text)
  IN  IF "-" \in d.flags THEN text \o PutN(" ", spacing)
      ELSE PutN(IF "0" \in d.flags THEN "0" ELSE " ", spacing) \o text

(* len = MIN(len, info.precision)                                          *)
Cut(d, text) == IF d.precision >= 0 THEN SubSeq(text, 1, Min({Len(text), d.precision})) ELSE text

display_str(d, arg) ==
  Padded(d, Cut(d, IF arg = NULL THEN <<"(", "n", "u", "l", "l", ")">> ELSE arg))

(* The directives that take an argument.                                   *)
TakesArg(conv) == conv \in Numbers \cup {"s", "c"}

(* display: a letter that is not in the table is printed in its field.     *)
display(d, arg) ==
  CASE d.conv \in Numbers -> display_int(d, arg)
    [] d.conv = "s"       -> display_str(d, arg)
    [] d.conv = "c"       -> Padded(d, <<arg>>)
    [] OTHER              -> Padded(d, <<d.conv>>)
-----------------------------------------------------------------------------
Literal ==
  /\ str <= Len(format) /\ format[str] # "%"
  /\ out' = Append(out, format[str]) /\ str' = str + 1
  /\ UNCHANGED <<format, args, next, fields>>

(* A wrong loop: it goes on at the letter of the directive.                *)
AfterDirectiveHere(d) == d.end

(* str++                                                                   *)
AfterDirective(d) == d.end + 1

Convert ==
  /\ str <= Len(format) /\ format[str] = "%"
  /\ LET d    == Directive(str)
         arg  == IF TakesArg(d.conv) THEN args[next + 1] ELSE NULL
         text == display(d, arg)
     IN  /\ out' = out \o text
         /\ str' = AfterDirective(d)
         /\ next' = IF TakesArg(d.conv) THEN next + 1 ELSE next
         /\ fields' = Append(fields, [d |-> d, arg |-> arg, text |-> text, from |-> Len(out)])
  /\ UNCHANGED <<format, args>>

Formatted == str > Len(format) /\ UNCHANGED vars

Next == Literal \/ Convert \/ Formatted

Spec == Init /\ [][Next]_vars
-----------------------------------------------------------------------------
Stripped(text) == SelectSeq(text, LAMBDA c : c \notin {" ", "+", "-", "x", "X"})

(* What a number prints, sign, prefix, zeros and spaces aside, reads back  *)
(* as the number itself, in the width and the sign of its type.            *)
ValueReadsBack ==
  \A k \in DOMAIN fields :
    fields[k].d.conv \in Numbers =>
      LET n == Argument(fields[k].d, fields[k].arg)
      IN  /\ ReadNumber(Stripped(fields[k].text), Base(fields[k].d.conv)) = Magnitude(n)
          /\ "-" \in ToSet(fields[k].text) => n < 0
          /\ n < 0 /\ "#" \notin fields[k].d.flags => "-" \in ToSet(fields[k].text)

(* A field is as wide as asked for, and wider only when its text is.  The  *)
(* one number that may come out shorter than a digit is 0 with the flag 0  *)
(* and no room for it.                                                     *)
FieldWidth(f) ==
  LET d == f.d
      number == fill_uint(Magnitude(Argument(d, f.arg)), Base(d.conv), LowerDigits)
      header == get_header(d, Argument(d, f.arg))
      digits == Max({Len(number), IF d.precision = -1 THEN 1 ELSE d.precision})
  IN  /\ Len(f.text) >= d.min_width
      /\ d.conv \in Numbers /\ ~("0" \in d.flags /\ number = << >>) =>
           Len(f.text) = Max({d.min_width, Len(header) + digits})
      /\ d.conv = "s" /\ d.precision >= 0 =>
           Len(f.text) <= Max({d.min_width, d.precision})

(* The lines of nm (disp_sym), w being the digits of an address: the value *)
(* or as many blanks, then the letter.  The blank after the width is       *)
(* itself the letter of the directive.                                     *)
disp_sym(w, defined) ==
  IF defined THEN <<"%", ".", Digits[w + 1], "l", "l", "x", " ", "%", "c">>
             ELSE <<"%", " ", Digits[w + 2], " ", "%", "c">>

(* Columns align: every field has the width asked for, in spite of the     *)
(* differences that wrap; and the letters of all symbols of nm stand in    *)
(* one column, whatever the value, and whether there is one or not.        *)
ColumnsAlign ==
  /\ \A k \in DOMAIN fields : FieldWidth(fields[k])
  /\ \A w \in 1 .. 8, defined \in BOOLEAN :
       format = disp_sym(w, defined) /\ Len(fields) = 2 =>
         fields[2].from = w + 1 /\ fields[2].text = <<args[Len(args)]>>
=============================================================================
