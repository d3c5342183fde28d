------------------------------- MODULE Numbers -------------------------------
(***************************************************************************)
(* Integers to text and back: ft_putnbr_buf and ft_putnbr_fd, which fill a *)
(* static buffer from its end, ft_itoa, ft_intlen and ft_atoi.             *)
(*                                                                         *)
(* A text is the sequence of its characters, without the NUL.              *)
(***************************************************************************)
EXTENDS Atoi

CONSTANTS
  Values,  \* the numbers printed
  Texts,   \* the texts parsed: blanks, a sign or none, digits
  MaxCalls \* bound on the numbers printed one after another

Minus == 45
Plus == 43
Blank == 32
Zero == 48
Stale == 0    \* a byte of a static buffer that was never used

MaxLen == 11  \* the size of the static buffers

VARIABLES
  printer,  \* the function whose static buffer is followed; each has its own
  buffer,   \* that buffer
  calls,    \* how many numbers have been printed
  last,     \* the number printed last
  shown,    \* the text that came out
  parsed    \* a text and the word ft_atoi made of it

vars == <<printer, buffer, calls, last, shown, parsed>>

(* n / 10 and n % 10, which C rounds towards zero.                         *)
Quot(n) == IF n >= 0 THEN n \div 10 ELSE (n + 9) \div 10
Rem(n)  == n - 10 * Quot(n)

isneg(n) == IF n < 0 THEN 1 ELSE 0

(* A wrong table: the test for 10 itself is strict.                        *)
ft_intlen_strict(num) ==
  LET m == IF num < 0 THEN num ELSE -num
  IN  1 + isneg(num) + Len(SelectSeq([k \in 1 .. 9 |-> -(10 ^ k)], LAMBDA p : m < p))

(* Compared as negative numbers, which the smallest int has a place among. *)
ft_intlen(num) ==
  LET m == IF num < 0 THEN num ELSE -num
  IN  1 + isneg(num) + Len(SelectSeq([k \in 1 .. 9 |-> -(10 ^ k)], LAMBDA p : m <= p))

(* The digits of n >= 0 in the places from first to i, the last digit at i. *)
Fill(b, first, i, n) ==
  [j \in DOMAIN b |-> IF j \in first .. i THEN Zero + Rem(n \div 10 ^ (i - j)) ELSE b[j]]

(* The text of n at the start of the buffer, the sign first: the last      *)
(* digit of a negative number is taken before its sign is turned.          *)
Filled(b, n) ==
  LET len == ft_intlen(n)
  IN  IF n >= 0 THEN Fill(b, 1, len, n)
      ELSE Fill([b EXCEPT ![1] = Minus, ![len] = Zero - Rem(n)], 2, len - 1, -Quot(n))

(* The length of the text of i without its sign, as ft_itoa counts.        *)
itoa_len(n) == LET f[i \in Int] == IF Quot(i) = 0 THEN 1 ELSE 1 + f[Quot(i)] IN f[n]

(* The digits are those of the negative number, from the last to the first. *)
ft_itoa(n) ==
  LET m == IF n < 0 THEN n ELSE -n
      Digit(k) == LET f[j \in Nat] == IF j = 0 THEN m ELSE Quot(f[j - 1]) IN Zero - Rem(f[k])
      len == itoa_len(n) + isneg(n)
  IN  [j \in 1 .. len |-> IF n < 0 /\ j = 1 THEN Minus ELSE Digit(len - j)]
-----------------------------------------------------------------------------
(* A wrong sign: it is looked for at the start, not after the blanks.      *)
SignAtStart(text, i) == text[1] = Minus

(* sign is the place of the sign, or that of the first character.          *)
SignAt(text, i) == text[IF text[i] \in {Minus, Plus} THEN i ELSE 1] = Minus

ft_atoi(text) ==
  IF text = << >> THEN Word(0)
  ELSE LET blanks == {k \in 1 .. Len(text) : \A j \in 1 .. k : text[j] = Blank}
           i == IF blanks = {} THEN 1 ELSE (CHOOSE k \in blanks : k + 1 \notin blanks) + 1
           padded == Append(text, 0)
           value == ft_pure_atoi(padded, IF padded[i] \in {Minus, Plus} THEN i + 1 ELSE i)
       IN  IF SignAt(padded, i) THEN Negated(value) ELSE value
-----------------------------------------------------------------------------
Unparsed == [text |-> << >>, word |-> Word(0)]

Init ==
  /\ printer \in {"ft_putnbr_buf", "ft_putnbr_fd"}
  /\ buffer = [j \in 1 .. MaxLen |-> Stale]
  /\ calls = 0 /\ last = 0 /\ shown = <<Zero>> /\ parsed = Unparsed

Counted == calls < MaxCalls /\ calls' = calls + 1

PutNumber(n) ==
  /\ Counted
  /\ buffer' = Filled(buffer, n)
  /\ shown' = SubSeq(buffer', 1, ft_intlen(n)) /\ last' = n
  /\ parsed' = Unparsed /\ UNCHANGED printer

(* The text goes to the buffer of the output ...                           *)
ft_putnbr_buf(n) == printer = "ft_putnbr_buf" /\ PutNumber(n)

(* ... or is written at once; ft_putnbr does so to descriptor 1.           *)
ft_putnbr_fd(n) == printer = "ft_putnbr_fd" /\ PutNumber(n)

Itoa(n) ==
  /\ Counted
  /\ shown' = ft_itoa(n) /\ last' = n
  /\ parsed' = Unparsed /\ UNCHANGED <<printer, buffer>>

Atoi(text) ==
  /\ parsed = Unparsed
  /\ parsed' = [text |-> text, word |-> ft_atoi(text)]
  /\ UNCHANGED <<printer, buffer, calls, last, shown>>

Next ==
  \/ \E n \in Values : ft_putnbr_buf(n) \/ ft_putnbr_fd(n) \/ Itoa(n)
  \/ \E text \in Texts \cup {shown} : Atoi(text)

Spec == Init /\ [][Next]_vars
-----------------------------------------------------------------------------
(* The number a text denotes, counted below zero so that the smallest int  *)
(* has one too.                                                            *)
Digits(text) == SelectSeq(text, ft_isdigit)
BelowZero(ds) == LET f[k \in Nat] == IF k = 0 THEN 0 ELSE 10 * f[k - 1] - (ds[k] - Zero) IN f[Len(ds)]
Denotes(text, n) ==
  LET ds == Digits(text)
  IN  /\ text = (IF n < 0 THEN <<Minus>> ELSE << >>) \o ds
      /\ ds # << >> /\ (Len(ds) > 1 => ds[1] # Zero)
      /\ BelowZero(ds) = IF n < 0 THEN n ELSE -n

(* What comes out denotes the number that went in, the smallest int too,   *)
(* with no digit missing or to spare, whatever an earlier number has left  *)
(* in the static buffer.                                                   *)
PrintsTheNumber == Denotes(shown, last) /\ Len(shown) <= MaxLen

(* ft_atoi reads back every number printed, and any text of at most ten    *)
(* digits that fits an int, after blanks and with either sign.             *)
ParsesTheNumber ==
  LET text == parsed.text
      ds   == Digits(text)
  IN  Len(ds) < 10 \/ (Len(ds) = 10 /\ (ds[1] < Zero + 2 \/ Denotes(text, last))) =>
        parsed.word = IF \E i \in DOMAIN text : text[i] = Minus
                      THEN Word(BelowZero(ds)) ELSE Negated(Word(BelowZero(ds)))

(* Numbers go to text and back.                                            *)
NumbersReadBack == PrintsTheNumber /\ ParsesTheNumber
=============================================================================
