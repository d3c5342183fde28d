------------------------------- MODULE Driver --------------------------------
(***************************************************************************)
(* The main functions of the two tools (nm.c, otool.c): the flags, the     *)
(* loop over the files, and what is said and returned when a file cannot   *)
(* be mapped or shown; map (headers.c) and gen_filter (tools.c).           *)
(*                                                                         *)
(* disp_file is the module FileWalk; here it is one step with any of its   *)
(* results.  An argument is the sequence of its characters.                *)
(***************************************************************************)
EXTENDS Naturals, Sequences, FiniteSets

CONSTANTS
  NmArgvs,     \* the arguments of nm considered, without the program's name
  OtoolArgvs,  \* those of otool
  Errnos,      \* the errors stat, open and mmap may give, but EMFILE
  EMFILE,      \* the error of open when no descriptor is left
  ENOMEM,      \* the error malloc gives
  WriteErrnos, \* the errors a failed write may give
  MaxFds       \* descriptors the process may open

OK == 0
ERR_SILENT == 1     \* the code of CHECK(condition), and EPERM
ERR_MAGIC == 132
ERR_MEM == 133

NULL == <<"">>      \* an argument that was blanked

ASSUME DriverAssumption ==
  /\ NmArgvs \cup OtoolArgvs \subseteq Seq(Seq(STRING))
  /\ \A a \in NmArgvs \cup OtoolArgvs : \A k \in DOMAIN a : a[k] # NULL
  /\ Errnos \cup WriteErrnos \cup {EMFILE, ENOMEM} \subseteq Nat \ {OK, ERR_MAGIC, ERR_MEM}
  /\ EMFILE \notin Errnos \cup {ERR_SILENT}
  /\ MaxFds \in Nat

VARIABLES
  is_otool,  \* whether the process is otool, or nm
  given,     \* the arguments as they were given, "a.out" included
  argv,      \* the arguments, blanked as they are read
  pc,        \* "args", "letters", "files", "map", "disp_file", "munmap", "exit"
  i, j,      \* the argument and the letter looked at
  target,    \* the fields of t_target that the flags set
  fds,       \* descriptors that were opened and not closed
  mapped,    \* the files that are mapped
  errno,
  status,    \* what main returns
  shown,     \* history: the files disp_file has returned OK for
  told,      \* history: the files a message names
  code       \* history: the last result map or disp_file gave for a file

vars == <<is_otool, given, argv, pc, i, j, target, fds, mapped, errno, status, shown, told,
          code>>

(* check_args: nm without arguments reads a.out.                           *)
check_args(a) == IF a = << >> /\ ~is_otool THEN <<<<"a.out">>>> ELSE a

(* ft_bzero, get_otool_target and the first line of nm's filter_args, where *)
(* argc counts the program and the flags.                                  *)
FirstTarget(a) ==
  [only_name |-> FALSE, sorting |-> "sort_alphabetical", reversed |-> FALSE,
   show_names |-> is_otool \/ Len(a) > 1,
   show_text |-> TRUE, show_data |-> FALSE, show_header |-> FALSE,
   target_seg |-> NULL, target_sect |-> NULL]

Init ==
  /\ is_otool \in BOOLEAN
  /\ \E a \in IF is_otool THEN OtoolArgvs ELSE NmArgvs : given = check_args(a)
  /\ argv = given
  /\ pc = "args" /\ i = 0 /\ j = 0
  /\ target = FirstTarget(given)
  /\ fds = 0 /\ mapped = {}
  /\ errno = 0 /\ status = 0
  /\ shown = {} /\ told = {} /\ code = << >>

Quiet == UNCHANGED <<is_otool, given, fds, mapped, errno, status, shown, told, code>>
-----------------------------------------------------------------------------
(* filter_args: the flags come first.                                      *)
IsFlag(a) == a # << >> /\ a[1] = "-"

StartFlag ==
  /\ pc = "args" /\ i + 1 <= Len(argv) /\ IsFlag(argv[i + 1])
  /\ pc' = "letters" /\ i' = i + 1 /\ j' = 1
  /\ UNCHANGED <<argv, target>> /\ Quiet

StartFiles ==
  /\ pc = "args"
  /\ i + 1 <= Len(argv) => ~IsFlag(argv[i + 1])
  /\ pc' = "files" /\ i' = 0
  /\ UNCHANGED <<j, argv, target>> /\ Quiet

(* A wrong flag: -n does not undo -p.                                      *)
NmLetterSticky(t, c) ==
  CASE c = "j" -> [t EXCEPT !.only_name = TRUE]
    [] c = "n" /\ t.sorting # "no_sorting" -> [t EXCEPT !.sorting = "sort_numerical"]
    [] c = "p" -> [t EXCEPT !.sorting = "no_sorting"]
    [] c = "r" -> [t EXCEPT !.reversed = TRUE]
    [] OTHER   -> t

NmLetter(t, c) ==
  CASE c = "j" -> [t EXCEPT !.only_name = TRUE]
    [] c = "n" -> [t EXCEPT !.sorting = "sort_numerical"]
    [] c = "p" -> [t EXCEPT !.sorting = "no_sorting"]
    [] c = "r" -> [t EXCEPT !.reversed = TRUE]
    [] OTHER   -> t

OtoolLetter(t, c) ==
  CASE c = "t" -> [t EXCEPT !.show_text = FALSE]
    [] c = "d" -> [t EXCEPT !.show_data = TRUE]
    [] c = "h" -> [t EXCEPT !.show_header = TRUE]
    [] OTHER   -> t

(* c == 's' && argc > i + 2 && j == 1: a section is asked for by the first *)
(* letter of an argument that two others follow.                           *)
TakesSection == is_otool /\ argv[i][j] = "s" /\ i + 2 <= Len(argv) /\ j = 2

Letter ==
  /\ pc = "letters" /\ j <= Len(argv[i]) /\ ~TakesSection
  /\ target' = IF is_otool THEN OtoolLetter(target, argv[i][j])
                           ELSE NmLetter(target, argv[i][j])
  /\ j' = j + 1
  /\ UNCHANGED <<pc, i, argv>> /\ Quiet

(* A wrong end of a flag: it stays among the arguments.                    *)
KeepFlag(a, k) == a

(* argv[i] = NULL; a wrong way to blank an argument with operands.         *)
BlankFlag(a, k) == [a EXCEPT ![k] = NULL]

(* ft_bzero of three arguments: the flag and its operands.                *)
BlankSection(a, k) == [a EXCEPT ![k] = NULL, ![k + 1] = NULL, ![k + 2] = NULL]

Section ==
  /\ pc = "letters" /\ j <= Len(argv[i]) /\ TakesSection
  /\ target' = [target EXCEPT !.target_seg = argv[i + 1], !.target_sect = argv[i + 2]]
  /\ argv' = BlankSection(argv, i)
  /\ i' = i + 2 /\ pc' = "args"
  /\ UNCHANGED j /\ Quiet

EndFlag ==
  /\ pc = "letters" /\ j > Len(argv[i])
  /\ argv' = BlankFlag(argv, i) /\ pc' = "args"
  /\ UNCHANGED <<i, j, target>> /\ Quiet
-----------------------------------------------------------------------------
KeepArgs == UNCHANGED <<is_otool, given, argv, j, target>>

(* A wrong loop: the counter is not moved past a blanked argument.         *)
NextFileStuck ==
  /\ pc = "files" /\ i + 1 <= Len(argv)
  /\ IF argv[i + 1] = NULL THEN UNCHANGED <<i, pc>> ELSE i' = i + 1 /\ pc' = "map"
  /\ KeepArgs /\ UNCHANGED <<fds, mapped, errno, status, shown, told, code>>

NextFile ==
  /\ pc = "files" /\ i + 1 <= Len(argv)
  /\ i' = i + 1
  /\ pc' = IF argv[i + 1] = NULL THEN "files" ELSE "map"
  /\ KeepArgs /\ UNCHANGED <<fds, mapped, errno, status, shown, told, code>>

(* A wrong filter: files that are not understood are passed over.          *)
MessageForErrno(r) == r \notin {OK, ERR_SILENT, ERR_MAGIC, ERR_MEM}

(* nm_filter, otool_filter, gen_filter: every code but 1 has a message.    *)
(* Otool puts the one for ERR_MAGIC into the buffer, where it stays when   *)
(* main returns 1 without a flush; it counts as told.                      *)
Message(r) == r \notin {OK, ERR_SILENT}

Filter(r) ==
  /\ code' = [k \in DOMAIN code \cup {i} |-> IF k = i THEN r ELSE code[k]]
  /\ told' = IF Message(r) THEN told \cup {i} ELSE told

(* A wrong main: otool goes on after an error.                             *)
AfterErrorOn(next) == next

(* nm goes on, to munmap or to the next file; otool returns 1 at once.     *)
AfterError(next) == IF is_otool THEN "exit" ELSE next

StatusAfterError == IF is_otool THEN 1 ELSE status

(* errno after calls that may write: it was e, and a write that fails sets *)
(* it, in the middle of a listing, of a message or of a flush.             *)
AfterWrites(e) == {e} \cup WriteErrnos

(* map gave r, an error number or ERR_MAGIC, and left e in errno.          *)
Refuse(r, e) ==
  /\ Filter(r)
  /\ errno' \in IF Message(r) THEN AfterWrites(e) ELSE {e}
  /\ pc' = AfterError("files") /\ status' = StatusAfterError
  /\ KeepArgs /\ UNCHANGED <<i, mapped, shown>>

(* stat fails, or open does.                                               *)
NotOpened(e) ==
  /\ pc = "map"
  /\ Refuse(e, e)
  /\ UNCHANGED fds

Openable == pc = "map" /\ fds < MaxFds

OutOfDescriptors ==
  /\ pc = "map" /\ fds = MaxFds
  /\ Refuse(EMFILE, EMFILE)
  /\ UNCHANGED fds

(* st.st_size == 0: the descriptor stays open.                             *)
Empty ==
  /\ Openable
  /\ fds' = fds + 1
  /\ Refuse(ERR_MAGIC, errno)

(* mmap fails: the descriptor stays open.                                  *)
NotMapped(e) ==
  /\ Openable
  /\ fds' = fds + 1
  /\ Refuse(e, e)

(* A wrong map: the descriptor is not closed.                              *)
FdsNotClosed == fds + 1

(* close(fd)                                                               *)
FdsAfterMap == fds

Map ==
  /\ Openable
  /\ mapped' = mapped \cup {i} /\ pc' = "disp_file"
  /\ fds' = FdsAfterMap
  /\ KeepArgs /\ UNCHANGED <<i, errno, status, shown, told, code>>

(* A wrong main: a file that was shown is not unmapped.                    *)
AfterShownKeeps(r) == IF r = OK THEN "files" ELSE AfterError("munmap")

AfterShown(r) == IF r = OK THEN "munmap" ELSE AfterError("munmap")

(* disp_file.  Whatever it returns, a write may have failed in it, or a    *)
(* malloc: the results of array_push and of the second pass are dropped.   *)
disp_file(r) ==
  /\ pc = "disp_file"
  /\ Filter(r)
  /\ shown' = IF r = OK THEN shown \cup {i} ELSE shown
  /\ errno' \in AfterWrites(errno) \cup {ENOMEM}
  /\ pc' = AfterShown(r)
  /\ status' = IF r = OK THEN status ELSE StatusAfterError
  /\ KeepArgs /\ UNCHANGED <<i, fds, mapped>>

(* munmap of a mapping that mmap gave does not fail.                       *)
Munmap ==
  /\ pc = "munmap"
  /\ mapped' = mapped \ {i} /\ pc' = "files"
  /\ KeepArgs /\ UNCHANGED <<i, fds, errno, status, shown, told, code>>

(* A wrong end: nm returns OK.                                             *)
StatusOK == OK

(* return (errno), as the last flush leaves it, and otool's return (OK)    *)
LastStatus == IF is_otool THEN OK ELSE errno'

Finish ==
  /\ pc = "files" /\ i = Len(argv)
  /\ errno' \in AfterWrites(errno)
  /\ pc' = "exit" /\ status' = LastStatus
  /\ KeepArgs /\ UNCHANGED <<i, fds, mapped, shown, told, code>>

Exited == pc = "exit" /\ UNCHANGED vars

Next ==
  \/ StartFlag \/ Letter \/ Section \/ EndFlag \/ StartFiles
  \/ NextFile
  \/ \E e \in Errnos : NotOpened(e) \/ NotMapped(e)
  \/ OutOfDescriptors \/ Empty \/ Map
  \/ \E r \in {OK, ERR_SILENT, ERR_MAGIC, ERR_MEM} : disp_file(r)
  \/ Munmap \/ Finish \/ Exited

Spec == Init /\ [][Next]_vars

(* Nothing else runs in the process and no step waits for anything.        *)
FairSpec == Spec /\ WF_vars(Next)
-----------------------------------------------------------------------------
Args == DOMAIN given
Opened == pc \notin {"args", "letters"}

(* The arguments that the flags of otool take: k is an operand of -s.      *)
Operand(k) == argv[k] = NULL /\ ~IsFlag(given[k])

(* The leading arguments are blanked, and nothing after them.              *)
FlagsBlanked ==
  /\ \E k \in 0 .. Len(argv) : \A m \in Args :
       /\ m <= k <=> argv[m] = NULL
       /\ m = k + 1 => ~IsFlag(given[m])
  /\ ~is_otool => \A m \in Args : ~Operand(m)
  /\ \A m \in DOMAIN code : argv[m] # NULL

FlagLetters == UNION {{m} \X DOMAIN given[m] : m \in {m \in Args : argv[m] = NULL}}

Before(p, q) == p[1] < q[1] \/ (p[1] = q[1] /\ p[2] < q[2])

Given(c) == {p \in FlagLetters : given[p[1]][p[2]] = c}

LastSorting ==
  LET orders == Given("n") \cup Given("p")
  IN  IF orders = {} THEN "sort_alphabetical"
      ELSE LET last == CHOOSE p \in orders : \A q \in orders : p = q \/ Before(q, p)
           IN  IF last \in Given("n") THEN "sort_numerical" ELSE "no_sorting"

(* Of the letters n and p the last one given counts, wherever it stands,   *)
(* and r and j hold once given; the section asked for is made of operands. *)
TargetAsGiven ==
  /\ ~is_otool => /\ target.only_name = (Given("j") # {})
                  /\ target.reversed = (Given("r") # {})
                  /\ target.sorting = LastSorting
  /\ target.target_sect # NULL =>
       \E m \in Args : /\ m > 2 /\ argv[m] = NULL
                       /\ target.target_seg = given[m - 1]
                       /\ target.target_sect = given[m]

(* The flags are the leading arguments that start with a dash: they are    *)
(* blanked, with the two operands of each -s, and every other argument is  *)
(* a file, also one that starts with a dash but follows a file.  What the  *)
(* tool then does is what the flags say, the later of two that differ, and *)
(* no operand is ever opened.                                              *)
FlagsThenFiles == Opened => FlagsBlanked /\ TargetAsGiven

(* A file that was looked at is shown or a message names it, unless it     *)
(* gave the code 1: a check of the file or a malloc failed, or the system  *)
(* said EPERM.                                                             *)
Answered(k) == k \in shown \/ k \in told \/ code[k] = ERR_SILENT

Files == {k \in Args : argv[k] # NULL}

(* The code is an error of stat, open or mmap; 1 may also be disp_file's.  *)
Unmapped(k) == code[k] \in (Errnos \cup {EMFILE}) \ {ERR_SILENT}

(* Every file nm is given is shown or answered with a message, but for the *)
(* code 1, which has none, and nm does not return 0 if one of them, the    *)
(* first or the last, could not be opened or mapped, whatever came after.  *)
(* Otool returns 1 at the first file that cannot be shown, having shown    *)
(* all the files before it and opened none after.                          *)
EveryFileAnswered ==
  /\ \A k \in DOMAIN code : Answered(k)
  /\ pc = "exit" =>
       /\ ~is_otool => /\ DOMAIN code = Files
                       /\ status = OK => \A k \in Files : ~Unmapped(k)
       /\ is_otool /\ status = OK => shown = Files
       /\ is_otool /\ status # OK =>
            /\ i \in Files \ shown
            /\ shown = {k \in Files : k < i} /\ \A k \in DOMAIN code : k <= i

Refused(k) == code[k] \in Errnos \cup {ERR_MAGIC} /\ k \notin shown

(* Between two files nothing is mapped; only otool may leave a mapping,    *)
(* the one of the file it returns for.  Open has no descriptor left for a  *)
(* file only if as many files before it were refused, which an empty file  *)
(* and one that cannot be mapped are.                                      *)
ResourcesReturned ==
  /\ pc \in {"files", "map"} => mapped = {}
  /\ pc = "exit" => mapped \subseteq {i}
  /\ pc = "exit" /\ ~is_otool => mapped = {}
  /\ \A k \in DOMAIN code :
       code[k] = EMFILE => MaxFds <= Cardinality({m \in DOMAIN code : m < k /\ Refused(m)})

(* What test_nm.sh expects of ft_nm -n f, that it prints what nm -n f      *)
(* does: no line with the file's name when a single file is given.         *)
NamedWhenSeveral ==
  Opened /\ ~is_otool => (target.show_names <=> Cardinality(Files) > 1)

NoStatus == 999     \* main has not returned

CallOfStart == INSTANCE Returns WITH
  ret <- IF pc = "exit" THEN status ELSE NoStatus, NoResult <- NoStatus,
  Codes <- {OK, 1, EMFILE, ENOMEM} \cup Errnos \cup WriteErrnos

(* Whatever the arguments are and whichever calls fail, the process ends,  *)
(* once, with 0, 1 or an error of the system: none of the codes that stand *)
(* for a malformed file is returned.                                       *)
ImplementsCall == CallOfStart!Spec
==============================================================================
