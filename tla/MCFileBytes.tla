----------------------------- MODULE MCFileBytes -----------------------------
(* Sections of none, one and two rows and lengths around them, at an       *)
(* address on a row, off a row, and near the end of the address space; the *)
(* types of processor in the table, around it, and those of 64 bits.       *)
EXTENDS FileBytes, Integers

MCSizes == (0 .. 5) \cup (14 .. 20) \cup (31 .. 34)
MCAddrs == {0, 3, 500}
MCCpus == (-2 .. 20) \cup {16777216 + k : k \in 0 .. 19}
MCFewCpus == {7, 16777223}
=============================================================================
