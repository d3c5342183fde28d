------------------------------ MODULE MCDriver -------------------------------
(* Command lines for Driver: every one of up to three (nm) or four (otool) *)
(* arguments over a few flags, a lone dash, an empty argument and a file.  *)
EXTENDS Driver

NmWords == {<<"-", "j", "n">>, <<"-", "p", "r">>, <<"-">>, << >>, <<"f">>}
OtoolWords == {<<"-", "s">>, <<"-", "d", "s">>, <<"-", "s", "h">>, <<"f">>}

Lines(words, n) == UNION {[1 .. k -> words] : k \in 0 .. n}

MCNmArgvs == Lines(NmWords, 3)
MCOtoolArgvs == Lines(OtoolWords, 4)
MCFewArgvs == {<<<<"-", "n">>, <<"f">>>>}
=============================================================================
