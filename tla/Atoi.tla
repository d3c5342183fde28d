-------------------------------- MODULE Atoi ---------------------------------
(***************************************************************************)
(* The reader of unsigned numbers, ft_pure_atoi, on which ft_atoi and the  *)
(* reader of archive headers rest.  Characters are their codes.  A word of *)
(* 32 bits is the pair of its halves.                                      *)
(***************************************************************************)
EXTENDS Integers, Sequences, FiniteSetsExt

Half == 65536
Word(n) == <<(n \div Half) % Half, n % Half>>
Negated(w) == <<(-w[1] - (IF w[2] = 0 THEN 0 ELSE 1)) % Half, (-w[2]) % Half>>

ft_isdigit(c) == c \in 48 .. 57

(* value * 10 + c - '0', in 32 bits: the int wraps, as compiled.           *)
Shifted(w, c) ==
  LET low == w[2] * 10 + c - 48 IN <<(w[1] * 10 + low \div Half) % Half, low % Half>>

(* A wrong limit: nine digits.                                             *)
MoreDigitsNine(i) == i < 9

(* i <= 10: at most eleven digits are read.                                *)
MoreDigits(i) == i <= 10

(* The number at a place of the text: of the digits from there to the      *)
(* first character that is none, or to the limit.                          *)
ft_pure_atoi(text, start) ==
  LET Stop(i) == ~(ft_isdigit(text[start + i]) /\ MoreDigits(i))
      len == Min({i \in 0 .. Len(text) - start : Stop(i)})
      value[k \in 0 .. len] ==
        IF k = 0 THEN <<0, 0>> ELSE Shifted(value[k - 1], text[start + k - 1])
  IN  value[len]
=============================================================================
