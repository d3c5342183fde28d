----------------------------- MODULE MCFileWalk ------------------------------
(* Small files for FileWalk: the headers are one unit long.  Of an address *)
(* space of 32 the file has up to 9; from a window at 2, an offset of 0 or *)
(* of 31 leads to a fat file in progress or before the file, and a size of *)
(* 29 makes the end of a window wrap.                                      *)
EXTENDS FileWalk

Arch(x86, offset, size) == [x86_64 |-> x86, offset |-> offset, size |-> size]

MCFatTables ==
  LET Entries == {Arch(FALSE, 3, 9), Arch(TRUE, 3, 2), Arch(TRUE, 2, 4), Arch(FALSE, 9, 1)}
      Stray   == {Arch(FALSE, 0, 9), Arch(TRUE, 31, 4), Arch(FALSE, 2, 29)}
  IN  {<< >>} \cup {<<a>> : a \in Entries \cup Stray}
      \cup {<<a, b>> : a, b \in Entries} \cup {<<Arch(FALSE, 3, 9), a>> : a \in Stray}

Header(ended, long, symdef, size) ==
  [ended |-> ended, long |-> long, symdef |-> symdef, size |-> size]

MCHeaders == {Header(TRUE, 0, TRUE, 0), Header(TRUE, 1, FALSE, 2), Header(TRUE, 0, FALSE, 0),
              Header(FALSE, 0, FALSE, 1), Header(TRUE, 3, FALSE, 1)}

MCFileSizes == {0, 3, 9}
=============================================================================
