---------------------------- MODULE MCObjectWalk -----------------------------
(* Small files for ObjectWalk: every struct is one or two units long.      *)
EXTENDS ObjectWalk

Cmd(kind, cmdsize, count, symoff, stroff) ==
  [cmd |-> kind, cmdsize |-> cmdsize, count |-> count,
   symoff |-> symoff, stroff |-> stroff]

MCLoadCmds ==
  {Cmd("LC_SEGMENT", z, c, 0, 0) : z \in {0, 2, 4}, c \in {0, 1, 2}}
  \cup {Cmd("LC_SYMTAB", 2, c, o, 1) : c \in {0, 1, 2}, o \in {1, 6}}
  \cup {Cmd("LC_SYMTAB", 1, 1, 0, 6), Cmd("other", 1, 0, 0, 0)}

Sect(seg, sect, off, len) ==
  [sectname |-> sect, segname |-> seg, offset |-> off, size |-> len]

MCOtoolSects == {Sect("__TEXT", "__text", 1, 2), Sect("__TEXT", "__text", 6, 3),
                 Sect("__OBJC", "__text", 0, 1), Sect("__DATA", "__data", 0, 8),
                 Sect("__DATA", "__bss", 0, 9), Sect("__DATA", "__data", 6, 60)}

MCNmSects == {Sect("__TEXT", "__text", 1, 2), Sect("__DATA", "__data", 0, 8),
              Sect("__DATA", "__bss", 0, 9)}

Sym(type, stab, ext, n_sect, value, strx, len, rank) ==
  [type |-> type, stab |-> stab, ext |-> ext, n_sect |-> n_sect,
   value |-> value, strx |-> strx, len |-> len, rank |-> rank]

MCSyms == {Sym("SECT", FALSE, TRUE, 0, 1, 0, 0, 2),
           Sym("SECT", FALSE, FALSE, 1, 1, 0, 9, 2),
           Sym("SECT", FALSE, TRUE, 2, 2, 6, 0, 1),
           Sym("UNDF", TRUE, TRUE, 0, 0, 1, 3, 1)}

MCOutOfBounds == [at |-> 0, len |-> 0, rank |-> 3]

MCSizes == {1, 6, 8}

Nm == [is_otool |-> FALSE, show_text |-> FALSE, show_data |-> FALSE,
       pick |-> << >>, sorting |-> "alphabetical", reversed |-> FALSE]

Otool == [Nm EXCEPT !.is_otool = TRUE, !.show_text = TRUE]

MCNmTargets == {Nm, [Nm EXCEPT !.sorting = "numerical", !.reversed = TRUE],
                [Nm EXCEPT !.sorting = "none"]}

MCOtoolTargets == {Otool, [Otool EXCEPT !.show_data = TRUE],
                   [Otool EXCEPT !.show_text = FALSE, !.pick = <<"__DATA", "__bss">>]}

MCWalkTargets == MCOtoolTargets \cup {[Nm EXCEPT !.reversed = TRUE]}
=============================================================================
