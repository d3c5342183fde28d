------------------------------- MODULE MCLibft -------------------------------
(* Inputs for the parts of libft.                                          *)
EXTENDS Libft, TLC

(* All strings of two letters and a blank: four characters in the first,   *)
(* two in the second, and NULL; and every character.  The characters that  *)
(* differ are also on both sides of 128, and on the same side.             *)
Alphabet == {32, 97, 98}
High == [1 .. 2 -> {97, 127, 128, 200}] \cup {<<200>>, << >>}
Over(n) == UNION {[1 .. k -> Alphabet] : k \in 0 .. n}

MCInputs == [s1 : Over(4) \cup {NULL}, s2 : Over(2) \cup {NULL},
             n : 0 .. 5, c : {0, 32, 98}]
  \cup [s1 : {<<97>>}, s2 : {<< >>}, n : {0}, c : 0 .. 255]
  \cup [s1 : High, s2 : High, n : 0 .. 2, c : {200}]

(* Numbers at every change of length, the largest and the smallest int,    *)
(* and texts with blanks, signs and up to twelve digits.                   *)
IntMax == 2147483647

MCValues ==
  LET Near == UNION {{10 ^ k - 1, 10 ^ k + 7} : k \in {0, 1, 2, 5, 8}} \cup {10 ^ 9, IntMax}
  IN  Near \cup {0 - n : n \in Near} \cup {0 - IntMax - 1}

DigitStrings == {<<7>>, <<0, 4, 2>>, <<1, 9, 9, 9, 9, 9, 9, 9, 9, 9>>,
                 <<4, 2, 9, 4, 9, 6, 7, 2, 9, 6, 0>>, <<1, 2, 3, 4, 5, 6, 7, 8, 9, 0, 1, 2>>, << >>}

MCTexts == {b \o s \o [k \in DOMAIN d |-> 48 + d[k]] : b \in {<< >>, <<32>>, <<32, 32>>},
                          s \in {<< >>, <<45>>, <<43>>}, d \in DigitStrings}

(* The first and the last code of every length, and a code in the middle;  *)
(* strings of up to two characters, and one of three.                      *)
Codes == {1, 127, 128, 191, 192, 2047, 2048, 8364, 65535, 65536, 1114111}

MCStrings == UNION {[1 .. n -> Codes] : n \in 0 .. 2} \cup {<<233, 8364, 65>>}

MCFields == [left : BOOLEAN, zero : BOOLEAN, min_width : {0, 3, 5}, precision : {0 - 1, 1, 2}]

(* Four nodes: a list of two and its copy; or a list of four.              *)
(* The nodes are interchangeable.                                          *)
CONSTANTS n1, n2, n3, n4

MCNode == {n1, n2, n3, n4}
Symmetry == Permutations(MCNode)
=============================================================================
