------------------------------ MODULE MCFormat -------------------------------
(* Calls for Format.  The integer types have two to eight bits, so that    *)
(* every argument below is too large, or negative, for some of them.       *)
EXTENDS Format

MCBits == [none |-> 5, hh |-> 2, h |-> 3, l |-> 6, ll |-> 8, j |-> 8, z |-> 8, t |-> 8]

Call(directive, arg) == [format |-> <<"%">> \o directive, args |-> <<arg>>]

Flags == {<< >>, <<"-">>, <<"0">>, <<"#">>, <<"+", "0">>, <<"0", "-">>, <<"#", "0">>}
Widths == {<< >>, <<"3">>, <<"1", "2">>}
Precisions == {<< >>, <<".">>, <<".", "3">>}
Inputs == {<< >>, <<"h">>, <<"h", "h">>, <<"l", "l">>}
Values == {0, 1, -1, 5, -8, 200}

NumberCalls ==
  {Call(f \o w \o p \o l \o <<c>>, v) :
     f \in Flags, w \in Widths, p \in Precisions, l \in Inputs,
     c \in {"d", "u", "x", "X", "o", "p", "b"}, v \in Values}

TextCalls ==
  {Call(f \o w \o p \o <<"s">>, v) :
     f \in Flags, w \in Widths, p \in Precisions,
     v \in {NULL, << >>, <<"_", "m", "a", "i", "n">>}}

(* Symbol lines of objects whose addresses have one or two digits.         *)
SymbolCalls ==
  {[format |-> disp_sym(w, TRUE), args |-> <<v, "T">>] : w \in 1 .. 2, v \in 0 .. 15}
  \cup {[format |-> disp_sym(2, TRUE), args |-> <<v, "T">>] : v \in 16 .. 255}
  \cup {[format |-> disp_sym(w, FALSE), args |-> <<"U">>] : w \in 1 .. 2}

MCCalls == NumberCalls \cup TextCalls \cup SymbolCalls
=============================================================================
