---------------------------- MODULE DriverProofs -----------------------------
(* What Driver promises for every command line and every failing call.     *)
EXTENDS Driver, SequenceTheorems, FiniteSetTheorems, TLAPS

(* What an argument may be, the name that nm reads and the blank included. *)
Words == Seq(STRING) \cup {NULL, <<"a.out">>}

Targets ==
  [only_name : BOOLEAN, sorting : {"sort_alphabetical", "sort_numerical", "no_sorting"},
   reversed : BOOLEAN, show_names : BOOLEAN, show_text : BOOLEAN, show_data : BOOLEAN,
   show_header : BOOLEAN, target_seg : Words, target_sect : Words]

Typed ==
  /\ is_otool \in BOOLEAN
  /\ given \in Seq(Words) /\ \A k \in Args : given[k] # NULL
  /\ argv \in Seq(Words) /\ Len(argv) = Len(given)
  /\ pc \in {"args", "letters", "files", "map", "disp_file", "munmap", "exit"}
  /\ i \in 0 .. Len(given) /\ j \in Nat
  /\ target \in Targets
  /\ fds \in Nat

(* While the flags are read, what stands before the cursor is blanked and  *)
(* what stands after it is untouched; then a prefix is blanked.            *)
PrefixBlanked ==
  \E k \in 0 .. Len(argv) : \A m \in Args : /\ m <= k <=> argv[m] = NULL
                                            /\ m = k + 1 => ~IsFlag(given[m])

ArgsInv ==
  /\ pc = "args" => \A m \in Args : argv[m] = IF m <= i THEN NULL ELSE given[m]
  /\ pc = "letters" => /\ \A m \in Args : argv[m] = IF m < i THEN NULL ELSE given[m]
                       /\ i >= 1 /\ IsFlag(given[i]) /\ j \in 1 .. Len(given[i]) + 1
  /\ Opened => PrefixBlanked
  /\ ~is_otool => \A m \in Args : ~Operand(m)

(* The letters read so far: those of the flags, and of the one being read. *)
SeenLetters == FlagLetters \cup (IF pc = "letters" THEN {i} \X (1 .. j - 1) ELSE {})

Seen(c) == {p \in SeenLetters : given[p[1]][p[2]] = c}

(* The last of the letters n and p that were read.                         *)
LastSeen(p) ==
  /\ p \in Seen("n") \cup Seen("p")
  /\ \A q \in Seen("n") \cup Seen("p") : p = q \/ Before(q, p)

SortingSeen ==
  \/ Seen("n") \cup Seen("p") = {} /\ target.sorting = "sort_alphabetical"
  \/ \E p \in Seen("n") : LastSeen(p) /\ target.sorting = "sort_numerical"
  \/ \E p \in Seen("p") : LastSeen(p) /\ target.sorting = "no_sorting"

FlagsSeen ==
  /\ target.only_name = (Seen("j") # {})
  /\ target.reversed = (Seen("r") # {})
  /\ SortingSeen

SectionSeen ==
  target.target_sect # NULL =>
    \E m \in Args : /\ m > 2 /\ argv[m] = NULL
                    /\ target.target_seg = given[m - 1] /\ target.target_sect = given[m]

TargetInv == (~is_otool => FlagsSeen) /\ SectionSeen

(* Which files have been looked at, and what is mapped, at each place of   *)
(* the loop over the files.                                                *)
LoopInv ==
  /\ ~Opened => /\ code = << >> /\ shown = {} /\ mapped = {} /\ status = OK
                /\ fds = 0 /\ errno = OK
  /\ pc \in {"map", "disp_file", "munmap"} => i \in Files
  /\ pc \in {"map", "disp_file"} => DOMAIN code = {k \in Files : k < i}
  /\ pc \in {"files", "munmap"} => DOMAIN code = {k \in Files : k <= i}
  /\ shown \subseteq DOMAIN code
  /\ DOMAIN code \subseteq Files
  /\ pc \in {"files", "map"} => mapped = {}
  /\ pc \in {"disp_file", "munmap"} => mapped = {i}

AnsweredInv ==
  /\ \A k \in DOMAIN code : Answered(k)
  /\ is_otool /\ pc # "exit" => shown = DOMAIN code /\ status = OK
  /\ pc = "exit" =>
       /\ ~is_otool => DOMAIN code = Files
       /\ is_otool /\ status = OK => shown = Files
       /\ is_otool /\ status # OK =>
            /\ i \in Files \ shown
            /\ shown = {k \in Files : k < i} /\ \A k \in DOMAIN code : k <= i

(* A descriptor is left open only by a file that was refused.              *)
DescriptorsInv ==
  /\ pc = "exit" => mapped \subseteq {i}
  /\ pc = "exit" /\ ~is_otool => mapped = {}
  /\ fds <= Cardinality({m \in DOMAIN code : Refused(m)})
  /\ \A k \in DOMAIN code :
       code[k] = EMFILE => MaxFds <= Cardinality({m \in DOMAIN code : m < k /\ Refused(m)})

(* errno is no longer 0 once a file could not be opened or mapped.         *)
ErrnoInv ==
  /\ errno = OK => \A k \in DOMAIN code : ~Unmapped(k)
  /\ pc = "exit" /\ ~is_otool => status = errno
-----------------------------------------------------------------------------
LEMMA Constants ==
  /\ \A e \in Errnos \cup WriteErrnos \cup {EMFILE, ENOMEM} : e \in Nat /\ e \notin {OK, ERR_MAGIC, ERR_MEM}
  /\ EMFILE \notin Errnos /\ EMFILE \notin {OK, ERR_SILENT, ERR_MAGIC, ERR_MEM}
  /\ MaxFds \in Nat
  /\ \A a \in NmArgvs \cup OtoolArgvs :
       a \in Seq(Words) /\ \A k \in DOMAIN a : a[k] # NULL
<1>1. \A a \in Seq(Seq(STRING)) : a \in Seq(Words)
  <2> DEFINE S == Seq(STRING)
  <2>1. S \subseteq Words
    BY DEF Words
  <2> HIDE DEF S
  <2>2. \A a \in Seq(S) : a \in Seq(Words)
    BY <2>1
  <2> QED
    BY <2>2 DEF S
<1> QED
  BY <1>1, DriverAssumption

(* The steps that read the flags, and those that go over the files.        *)
FlagStep == StartFlag \/ Letter \/ Section \/ EndFlag

FileStep ==
  \/ NextFile
  \/ \E e \in Errnos : NotOpened(e) \/ NotMapped(e)
  \/ OutOfDescriptors \/ Empty \/ Map
  \/ \E r \in {OK, ERR_SILENT, ERR_MAGIC, ERR_MEM} : disp_file(r)
  \/ Munmap \/ Finish

LEMMA StepKinds == [Next]_vars <=> FlagStep \/ StartFiles \/ FileStep \/ UNCHANGED vars
BY DEF Next, FlagStep, FileStep, Exited

(* Main looks at the files after the flags, and no longer at the flags.    *)
LEMMA FileStepOpened ==
  ASSUME FileStep PROVE Opened /\ Opened' /\ KeepArgs
<1>1. CASE NextFile
  BY <1>1 DEF NextFile, Opened
<1>2. CASE \E e \in Errnos : NotOpened(e) \/ NotMapped(e)
  BY <1>2 DEF NotOpened, NotMapped, Openable, Refuse, AfterError, Opened
<1>3. CASE OutOfDescriptors \/ Empty
  BY <1>3 DEF OutOfDescriptors, Empty, Openable, Refuse, AfterError, Opened
<1>4. CASE Map \/ Munmap \/ Finish
  BY <1>4 DEF Map, Openable, Munmap, Finish, Opened
<1>5. CASE \E r \in {OK, ERR_SILENT, ERR_MAGIC, ERR_MEM} : disp_file(r)
  BY <1>5 DEF disp_file, AfterShown, AfterError, Opened
<1> QED
  BY <1>1, <1>2, <1>3, <1>4, <1>5 DEF FileStep

(* The error that stands in errno when map gives r.                        *)
Left(r) == IF r = ERR_MAGIC THEN errno ELSE r

(* A file is refused before it is mapped, or disp_file gives a result.     *)
RefuseStep ==
  \E r \in Errnos \cup {ERR_MAGIC, EMFILE} :
    /\ pc = "map" /\ Refuse(r, Left(r))
    /\ \/ r \in Errnos \cup {ERR_MAGIC} /\ fds' \in {fds, fds + 1}
       \/ r = EMFILE /\ fds = MaxFds /\ fds' = fds

LEMMA FileStepKinds ==
  ASSUME FileStep
  PROVE  \/ NextFile \/ Map \/ Munmap \/ Finish \/ RefuseStep
         \/ \E r \in {OK, ERR_SILENT, ERR_MAGIC, ERR_MEM} : disp_file(r)
<1>1. ASSUME NEW e \in Errnos, NotOpened(e) \/ NotMapped(e) PROVE RefuseStep
  <2>1. Left(e) = e
    BY Constants DEF Left
  <2> QED
    BY <1>1, <2>1 DEF NotOpened, NotMapped, Openable, RefuseStep
<1>2. CASE OutOfDescriptors
  <2>1. Left(EMFILE) = EMFILE
    BY Constants DEF Left
  <2> QED
    BY <1>2, <2>1 DEF OutOfDescriptors, RefuseStep
<1>3. CASE Empty
  <2>1. Left(ERR_MAGIC) = errno
    BY DEF Left
  <2> QED
    BY <1>3, <2>1 DEF Empty, Openable, RefuseStep
<1> QED
  BY <1>1, <1>2, <1>3 DEF FileStep

LEMMA Singleton ==
  ASSUME NEW S, NEW x \in S
  PROVE  <<x>> \in Seq(S) /\ DOMAIN <<x>> = {1} /\ DOMAIN <<x>> = 1 .. 1 /\ Len(<<x>>) = 1 /\ <<x>>[1] = x
OBVIOUS

(* Neither the blank nor a.out is a flag, and the two differ.              *)
LEMMA Names ==
  /\ NULL \in Words /\ ~IsFlag(NULL)
  /\ <<"a.out">> \in Words /\ <<"a.out">> # NULL
  /\ \A w \in Words : Len(w) \in Nat /\ DOMAIN w = 1 .. Len(w)
<1>1. "" # "a.out" /\ "" # "-"
  OBVIOUS
<1>2. NULL[1] = "" /\ <<"a.out">>[1] = "a.out"
  BY DEF NULL
<1>3. <<"a.out">> # NULL
  BY <1>1, <1>2
<1>4. \A w \in Seq(STRING) : Len(w) \in Nat /\ DOMAIN w = 1 .. Len(w)
  BY LenProperties
<1>5. \A w \in {NULL, <<"a.out">>} : Len(w) \in Nat /\ DOMAIN w = 1 .. Len(w)
  <2>1. \A x : Len(<<x>>) = 1 /\ DOMAIN <<x>> = 1 .. 1
    BY Zenon, Singleton
  <2> QED
    BY <2>1 DEF NULL
<1> QED
  BY <1>1, <1>2, <1>3, <1>4, <1>5 DEF IsFlag, Words

LEMMA InitTyped == Init => Typed
<1> SUFFICES ASSUME Init PROVE Typed
  OBVIOUS
<1>1. is_otool \in BOOLEAN
  BY DEF Init
<1>2. PICK a \in NmArgvs \cup OtoolArgvs : given = check_args(a)
  BY DEF Init
<1>3. given = a \/ given = <<<<"a.out">>>>
  BY <1>2 DEF check_args
<1>4. given \in Seq(Words) /\ \A k \in DOMAIN given : given[k] # NULL
  <2>1. CASE given = a
    BY <2>1, Constants
  <2>2. CASE given = <<<<"a.out">>>>
    <3> DEFINE name == <<"a.out">>
    <3>1. name \in Words /\ name # NULL
      BY Names
    <3>2. given = <<name>>
      BY <2>2
    <3> HIDE DEF name
    <3>3. given \in Seq(Words) /\ DOMAIN given = {1} /\ given[1] = name
      BY <3>1, <3>2, Singleton
    <3> QED
      BY <3>1, <3>3
  <2> QED
    BY <1>3, <2>1, <2>2
<1>5. argv = given /\ pc = "args" /\ i = 0 /\ j = 0 /\ fds = 0 /\ target = FirstTarget(given)
  BY DEF Init
<1>6. FirstTarget(given) \in Targets
  <2>1. NULL \in Words
    BY Names
  <2> DEFINE names == is_otool \/ Len(given) > 1
  <2>2. names \in BOOLEAN
    OBVIOUS
  <2>3. FirstTarget(given) =
          [only_name |-> FALSE, sorting |-> "sort_alphabetical", reversed |-> FALSE,
           show_names |-> names, show_text |-> TRUE, show_data |-> FALSE,
           show_header |-> FALSE, target_seg |-> NULL, target_sect |-> NULL]
    BY DEF FirstTarget
  <2> HIDE DEF names
  <2> QED
    BY <2>1, <2>2, <2>3 DEF Targets
<1>7. i \in 0 .. Len(given)
  BY <1>4, <1>5
<1> QED
  BY <1>1, <1>4, <1>5, <1>6, <1>7 DEF Typed, Args

(* A letter changes no field but its own, and asks for no section.         *)
LEMMA LetterFields ==
  ASSUME NEW t \in Targets, NEW c
  PROVE  /\ NmLetter(t, c) \in Targets /\ OtoolLetter(t, c) \in Targets
         /\ NmLetter(t, c).target_seg = t.target_seg
         /\ NmLetter(t, c).target_sect = t.target_sect
         /\ OtoolLetter(t, c).target_seg = t.target_seg
         /\ OtoolLetter(t, c).target_sect = t.target_sect
         /\ NmLetter(t, c).only_name = IF c = "j" THEN TRUE ELSE t.only_name
         /\ NmLetter(t, c).reversed = IF c = "r" THEN TRUE ELSE t.reversed
         /\ NmLetter(t, c).sorting = IF c = "n" THEN "sort_numerical"
                                     ELSE IF c = "p" THEN "no_sorting" ELSE t.sorting
<1>1. CASE c = "j"
  BY <1>1 DEF Targets, NmLetter, OtoolLetter
<1>2. CASE c = "n"
  BY <1>2 DEF Targets, NmLetter, OtoolLetter
<1>3. CASE c = "p"
  BY <1>3 DEF Targets, NmLetter, OtoolLetter
<1>4. CASE c = "r"
  BY <1>4 DEF Targets, NmLetter, OtoolLetter
<1>5. CASE c = "t"
  BY <1>5 DEF Targets, NmLetter, OtoolLetter
<1>6. CASE c = "d"
  BY <1>6 DEF Targets, NmLetter, OtoolLetter
<1>7. CASE c = "h"
  BY <1>7 DEF Targets, NmLetter, OtoolLetter
<1>8. CASE c \notin {"j", "n", "p", "r", "t", "d", "h"}
  BY <1>8 DEF Targets, NmLetter, OtoolLetter
<1> QED
  BY <1>1, <1>2, <1>3, <1>4, <1>5, <1>6, <1>7, <1>8

(* -s keeps the two operands.                                              *)
LEMMA SectionFields ==
  ASSUME NEW t \in Targets, NEW a \in Words, NEW b \in Words,
         NEW new, new = [t EXCEPT !.target_seg = a, !.target_sect = b]
  PROVE  new \in Targets
<1> DEFINE first == [t EXCEPT !.target_seg = a]
<1>1. first \in Targets /\ first.target_seg = a
  BY DEF Targets
<1>2. new = [first EXCEPT !.target_sect = b]
  BY DEF Targets
<1> HIDE DEF first
<1> QED
  BY <1>1, <1>2 DEF Targets

LEMMA SetInSeq ==
  ASSUME NEW S, NEW s \in Seq(S), NEW m \in 1 .. Len(s), NEW v \in S
  PROVE  LET new == [s EXCEPT ![m] = v]
         IN  /\ new \in Seq(S) /\ Len(new) = Len(s) /\ DOMAIN new = DOMAIN s
             /\ \A p \in DOMAIN s : new[p] = IF p = m THEN v ELSE s[p]
OBVIOUS

(* Blanking the arguments of a flag keeps the length of the list.          *)
LEMMA Blanked ==
  ASSUME NEW a \in Seq(Words), NEW k \in 1 .. Len(a)
  PROVE  /\ BlankFlag(a, k) \in Seq(Words) /\ Len(BlankFlag(a, k)) = Len(a)
         /\ \A m \in DOMAIN a : BlankFlag(a, k)[m] = IF m = k THEN NULL ELSE a[m]
         /\ k + 2 <= Len(a) =>
              /\ BlankSection(a, k) \in Seq(Words) /\ Len(BlankSection(a, k)) = Len(a)
              /\ \A m \in DOMAIN a :
                   BlankSection(a, k)[m] = IF m \in {k, k + 1, k + 2} THEN NULL ELSE a[m]
<1>1. NULL \in Words
  BY Names
<1>2. \A s \in Seq(Words) : \A m \in 1 .. Len(s) :
        LET new == [s EXCEPT ![m] = NULL]
        IN  /\ new \in Seq(Words) /\ Len(new) = Len(s) /\ DOMAIN new = DOMAIN s
            /\ \A p \in DOMAIN s : new[p] = IF p = m THEN NULL ELSE s[p]
  BY <1>1, SetInSeq
<1> DEFINE one   == [a EXCEPT ![k] = NULL]
           two   == [one EXCEPT ![k + 1] = NULL]
           three == [two EXCEPT ![k + 2] = NULL]
<1>3. /\ one \in Seq(Words) /\ Len(one) = Len(a) /\ DOMAIN one = DOMAIN a
      /\ \A p \in DOMAIN a : one[p] = IF p = k THEN NULL ELSE a[p]
  BY <1>1, <1>2
<1>4. ASSUME k + 2 <= Len(a)
      PROVE  /\ three \in Seq(Words) /\ Len(three) = Len(a)
             /\ \A p \in DOMAIN a : three[p] = IF p \in {k, k + 1, k + 2} THEN NULL ELSE a[p]
  <2> HIDE DEF one
  <2>1. k + 1 \in 1 .. Len(one) /\ k + 2 \in 1 .. Len(a)
    BY <1>3, <1>4
  <2>2. /\ two \in Seq(Words) /\ Len(two) = Len(a) /\ DOMAIN two = DOMAIN a
        /\ \A p \in DOMAIN a : two[p] = IF p = k + 1 THEN NULL ELSE one[p]
    BY <1>2, <1>3, <2>1
  <2> HIDE DEF two
  <2>3. /\ three \in Seq(Words) /\ Len(three) = Len(a)
        /\ \A p \in DOMAIN a : three[p] = IF p = k + 2 THEN NULL ELSE two[p]
    BY <1>2, <2>1, <2>2
  <2> QED
    BY <1>3, <2>2, <2>3
<1>5. BlankFlag(a, k) = one /\ BlankSection(a, k) = three
  BY DEF BlankFlag, BlankSection
<1> QED
  <2> HIDE DEF one, two, three
  <2> QED
    BY <1>3, <1>4, <1>5
-----------------------------------------------------------------------------
LEMMA StepTyped ==
  ASSUME Typed, ArgsInv, LoopInv, [Next]_vars PROVE Typed'
<1>0. /\ Args = 1 .. Len(given) /\ Len(given) \in Nat /\ DOMAIN argv = 1 .. Len(given)
      /\ \A m \in Args : argv[m] \in Words
  BY ElementOfSeq, LenProperties DEF Typed, Args
<1>1. CASE StartFlag
  BY <1>0, <1>1 DEF Typed, Args, StartFlag, Quiet
<1>2. CASE StartFiles
  BY <1>0, <1>2 DEF Typed, Args, StartFiles, Quiet
<1>3. CASE Letter
  <2>1. target' \in Targets
    BY <1>3, LetterFields DEF Letter, Typed
  <2> QED
    BY <1>0, <1>3, <2>1 DEF Typed, Args, Letter, Quiet
<1>4. CASE Section
  <2>1. pc = "letters" /\ i \in 1 .. Len(argv) /\ i + 2 <= Len(argv)
    BY <1>0, <1>4 DEF Section, TakesSection, ArgsInv, Typed
  <2>2. argv' \in Seq(Words) /\ Len(argv') = Len(given)
    BY <1>4, <2>1, Blanked DEF Section, Typed
  <2>3. target' \in Targets
    <3>1. PICK a \in Words, b \in Words : a = argv[i + 1] /\ b = argv[i + 2]
      BY <1>0, <2>1 DEF Typed
    <3>2. /\ target \in Targets
          /\ target' = [target EXCEPT !.target_seg = a, !.target_sect = b]
      BY <1>4, <3>1 DEF Section, Typed
    <3> QED
      BY <3>2, SectionFields
  <2>4. i' \in 0 .. Len(given) /\ pc' = "args"
    BY <1>4, <2>1 DEF Section, Typed
  <2> QED
    BY <1>4, <2>2, <2>3, <2>4 DEF Typed, Args, Section, Quiet
<1>5. CASE EndFlag
  <2>1. i \in 1 .. Len(argv)
    BY <1>0, <1>5 DEF EndFlag, ArgsInv, Typed
  <2>2. argv' \in Seq(Words) /\ Len(argv') = Len(given)
    BY <1>5, <2>1, Blanked DEF EndFlag, Typed
  <2> QED
    BY <1>5, <2>2 DEF Typed, Args, EndFlag, Quiet
<1>6. CASE FileStep
  <2>1. KeepArgs /\ Opened'
    BY <1>6, FileStepOpened
  <2>2. /\ pc' \in {"files", "map", "disp_file", "munmap", "exit"}
        /\ i' \in 0 .. Len(given) /\ fds' \in Nat
    <3>1. CASE NextFile
      BY <1>0, <3>1 DEF NextFile, Typed
    <3>2. CASE Map \/ Munmap \/ Finish
      BY <3>2 DEF Map, FdsAfterMap, Munmap, Finish, Typed
    <3>3. CASE RefuseStep
      BY <3>3 DEF RefuseStep, Refuse, AfterError, Typed
    <3>4. CASE \E r \in {OK, ERR_SILENT, ERR_MAGIC, ERR_MEM} : disp_file(r)
      BY <3>4 DEF disp_file, AfterShown, AfterError, Typed
    <3> QED
      BY <1>6, <3>1, <3>2, <3>3, <3>4, FileStepKinds
  <2> QED
    BY <2>1, <2>2 DEF Typed, Args, KeepArgs
<1>7. CASE UNCHANGED vars
  BY <1>7 DEF Typed, Args, vars
<1> QED
  BY <1>1, <1>2, <1>3, <1>4, <1>5, <1>6, <1>7, StepKinds DEF FlagStep

LEMMA InitArgs == Init => ArgsInv
<1> SUFFICES ASSUME Init PROVE ArgsInv
  OBVIOUS
<1>1. pc = "args" /\ i = 0 /\ argv = given
  BY DEF Init
<1>2. \A m \in Args : argv[m] # NULL /\ ~(m <= 0)
  BY <1>1, InitTyped DEF Typed, Args
<1> QED
  BY <1>1, <1>2 DEF ArgsInv, Opened, Operand

LEMMA StepArgsInv ==
  ASSUME Typed, ArgsInv, [Next]_vars PROVE ArgsInv'
<1>0. /\ Args = 1 .. Len(given) /\ Len(given) \in Nat /\ DOMAIN argv = 1 .. Len(given)
      /\ Len(argv) = Len(given) /\ i \in Nat /\ j \in Nat
      /\ \A m \in Args : given[m] \in Words /\ given[m] # NULL
      /\ \A m \in Args : Len(given[m]) \in Nat
  <2>1. Args = 1 .. Len(given) /\ \A m \in Args : given[m] \in Words
    BY ElementOfSeq, LenProperties DEF Typed, Args
  <2> QED
    BY <2>1, Names DEF Typed, Args
<1>1. CASE StartFlag
  <2>1. /\ pc = "args" /\ i + 1 \in Args /\ IsFlag(argv[i + 1]) /\ argv[i + 1] = given[i + 1]
    BY <1>0, <1>1 DEF StartFlag, ArgsInv
  <2>2. 1 \in 1 .. Len(given[i + 1]) + 1
    BY <1>0, <2>1
  <2>3. /\ pc' = "letters" /\ i' = i + 1 /\ j' = 1 /\ argv' = argv /\ given' = given
        /\ is_otool' = is_otool
    BY <1>1 DEF StartFlag, Quiet
  <2>4. \A m \in Args : argv[m] = IF m < i + 1 THEN NULL ELSE given[m]
    BY <1>0, <2>1 DEF ArgsInv
  <2> QED
    BY <1>0, <2>1, <2>2, <2>3, <2>4 DEF ArgsInv, Args, Opened, Operand
<1>2. CASE StartFiles
  <2>1. /\ pc = "args" /\ pc' = "files" /\ argv' = argv /\ given' = given
        /\ is_otool' = is_otool /\ (i + 1 <= Len(argv) => ~IsFlag(argv[i + 1]))
    BY <1>2 DEF StartFiles, Quiet
  <2>2. PrefixBlanked
    <3>1. i \in 0 .. Len(argv)
      BY <1>0 DEF Typed
    <3>2. \A m \in Args : /\ m <= i <=> argv[m] = NULL
                          /\ m = i + 1 => ~IsFlag(given[m])
      BY <1>0, <2>1 DEF ArgsInv
    <3> QED
      BY <3>1, <3>2 DEF PrefixBlanked
  <2>3. PrefixBlanked'
    BY <2>1, <2>2 DEF PrefixBlanked, Args
  <2> QED
    BY <2>1, <2>3 DEF ArgsInv, Args, Opened, Operand
<1>3. CASE Letter
  <2>1. j <= Len(argv[i]) /\ pc = "letters" /\ i \in Args /\ argv[i] = given[i]
    BY <1>0, <1>3 DEF Letter, ArgsInv, Typed
  <2>2. j + 1 \in 1 .. Len(given[i]) + 1
    BY <1>0, <2>1
  <2> QED
    BY <1>3, <2>1, <2>2 DEF Letter, ArgsInv, Args, Opened, Operand, Quiet
<1>4. CASE Section
  <2>1. /\ pc = "letters" /\ i \in 1 .. Len(argv) /\ i + 2 <= Len(argv) /\ is_otool
    BY <1>0, <1>4 DEF Section, TakesSection, ArgsInv, Typed
  <2>2. \A m \in Args : argv'[m] = IF m \in {i, i + 1, i + 2} THEN NULL ELSE argv[m]
    <3>1. argv' = BlankSection(argv, i) /\ argv \in Seq(Words)
      BY <1>4 DEF Section, Typed
    <3>2. \A m \in DOMAIN argv :
            BlankSection(argv, i)[m] = IF m \in {i, i + 1, i + 2} THEN NULL ELSE argv[m]
      BY <2>1, <3>1, Blanked
    <3> QED
      BY <1>0, <3>1, <3>2
  <2>3. \A m \in Args : argv[m] = IF m < i THEN NULL ELSE given[m]
    BY <2>1 DEF ArgsInv
  <2>4. \A m \in Args : argv'[m] = IF m <= i + 2 THEN NULL ELSE given[m]
    BY <1>0, <2>1, <2>2, <2>3
  <2>5. pc' = "args" /\ i' = i + 2 /\ given' = given /\ is_otool'
    BY <1>4, <2>1 DEF Section, Quiet
  <2> QED
    BY <2>4, <2>5 DEF ArgsInv, Args, Opened
<1>5. CASE EndFlag
  <2>1. pc = "letters" /\ i \in 1 .. Len(argv) /\ IsFlag(given[i])
    BY <1>0, <1>5 DEF EndFlag, ArgsInv, Typed
  <2>2. \A m \in Args : argv'[m] = IF m = i THEN NULL ELSE argv[m]
    BY <1>0, <1>5, <2>1, Blanked DEF EndFlag, Typed
  <2>3. \A m \in Args : argv[m] = IF m < i THEN NULL ELSE given[m]
    BY <2>1 DEF ArgsInv
  <2>4. \A m \in Args : argv'[m] = IF m <= i THEN NULL ELSE given[m]
    BY <1>0, <2>1, <2>2, <2>3
  <2>5. pc' = "args" /\ i' = i /\ given' = given /\ is_otool' = is_otool
    BY <1>5 DEF EndFlag, Quiet
  <2>6. ~is_otool => \A m \in Args : argv'[m] = NULL => IsFlag(given[m])
    BY <2>1, <2>2 DEF ArgsInv, Operand
  <2> QED
    BY <2>4, <2>5, <2>6 DEF ArgsInv, Args, Opened, Operand
<1>6. CASE FileStep
  <2>1. /\ Opened /\ Opened' /\ argv' = argv /\ given' = given /\ is_otool' = is_otool
    BY <1>6, FileStepOpened DEF KeepArgs
  <2>2. PrefixBlanked'
    BY <2>1 DEF ArgsInv, PrefixBlanked, Args
  <2> QED
    BY <2>1, <2>2 DEF ArgsInv, Args, Opened, Operand
<1>7. CASE UNCHANGED vars
  BY <1>7 DEF ArgsInv, PrefixBlanked, Args, Opened, Operand, vars
<1> QED
  BY <1>1, <1>2, <1>3, <1>4, <1>5, <1>6, <1>7, StepKinds DEF FlagStep
-----------------------------------------------------------------------------
LEMMA FilesKept ==
  ASSUME FileStep PROVE Files' = Files /\ Args' = Args /\ is_otool' = is_otool
BY FileStepOpened DEF KeepArgs, Files, Args

LEMMA FilesAreArgs ==
  ASSUME Typed
  PROVE  /\ Files \subseteq 1 .. Len(given) /\ Len(given) \in Nat /\ Len(argv) = Len(given)
         /\ i \in Nat /\ i <= Len(given)
         /\ \A k \in 1 .. Len(given) : k \in Files <=> argv[k] # NULL
<1>1. Args = 1 .. Len(given)
  BY LenProperties DEF Typed, Args
<1> QED
  BY <1>1 DEF Files, Typed

(* The flag steps touch nothing that the loop over the files keeps.        *)
LEMMA FlagStepQuiet ==
  ASSUME FlagStep PROVE ~Opened /\ ~Opened' /\ Quiet
BY DEF FlagStep, StartFlag, Letter, Section, EndFlag, Opened, Quiet

LEMMA StepLoopInv ==
  ASSUME Typed, LoopInv, [Next]_vars PROVE LoopInv'
<1>0. /\ Files \subseteq 1 .. Len(given) /\ Len(given) \in Nat /\ Len(argv) = Len(given)
      /\ i \in Nat /\ i <= Len(given)
      /\ \A k \in 1 .. Len(given) : k \in Files <=> argv[k] # NULL
  BY FilesAreArgs
<1>1. CASE FlagStep
  <2>1. code' = << >> /\ shown' = {} /\ mapped' = {} /\ status' = OK
        /\ fds' = 0 /\ errno' = OK
    BY <1>1, FlagStepQuiet DEF LoopInv, Quiet
  <2> QED
    BY <1>1, <2>1, FlagStepQuiet DEF LoopInv, Opened
<1>2. CASE StartFiles
  <2>1. code' = << >> /\ shown' = {} /\ mapped' = {} /\ pc' = "files" /\ i' = 0
    BY <1>2 DEF StartFiles, LoopInv, Opened, Quiet
  <2>2. Files' = Files
    BY <1>2 DEF StartFiles, Quiet, Files, Args
  <2>3. {k \in Files : k <= 0} = {}
    <3>1. \A k \in Files : ~(k <= 0)
      BY <1>0
    <3> QED
      BY Zenon, <3>1
  <2>4. DOMAIN code' = {}
    BY <2>1
  <2> QED
    BY <2>1, <2>2, <2>3, <2>4 DEF LoopInv, Opened
<1>3. ASSUME FileStep PROVE LoopInv'
  <2>1. /\ Opened' /\ Files' = Files /\ (Opened' <=> pc' \notin {"args", "letters"})
    BY <1>3, FileStepOpened, FilesKept DEF Opened
  <2>2. CASE NextFile
    <3>1. /\ pc = "files" /\ i' = i + 1 /\ i + 1 \in 1 .. Len(given)
          /\ pc' = IF argv[i + 1] = NULL THEN "files" ELSE "map"
          /\ code' = code /\ shown' = shown /\ mapped' = mapped
      BY <1>0, <2>2 DEF NextFile
    <3>2. CASE argv[i + 1] = NULL
      <4>1. i + 1 \notin Files
        BY <1>0, <3>1, <3>2
      <4>2. \A k \in Files : k <= i <=> k <= i + 1
        BY <1>0, <4>1
      <4>3. {k \in Files : k <= i} = {k \in Files : k <= i + 1}
        BY <4>2
      <4> QED
        BY <2>1, <3>1, <3>2, <4>3 DEF LoopInv
    <3>3. CASE argv[i + 1] # NULL
      <4>1. i + 1 \in Files
        BY <1>0, <3>1, <3>3
      <4>2. \A k \in Files : k <= i <=> k < i + 1
        BY <1>0
      <4>3. {k \in Files : k <= i} = {k \in Files : k < i + 1}
        BY <4>2
      <4> QED
        BY <2>1, <3>1, <3>3, <4>1, <4>3 DEF LoopInv
    <3> QED
      BY <3>2, <3>3
  <2>3. CASE Map
    BY <2>1, <2>3 DEF Map, Openable, KeepArgs, LoopInv
  <2>4. CASE Munmap
    BY <2>1, <2>4 DEF Munmap, KeepArgs, LoopInv
  <2>5. CASE Finish
    BY <2>1, <2>5 DEF Finish, KeepArgs, LoopInv
  <2>6. ASSUME pc \in {"map", "disp_file"} PROVE {k \in Files : k < i} \cup {i} = {k \in Files : k <= i}
    <3>1. i \in Files
      BY <2>6 DEF LoopInv
    <3>2. \A k \in Files : k <= i <=> k < i \/ k = i
      BY <1>0
    <3> QED
      BY <3>1, <3>2
  <2>7. ASSUME RefuseStep PROVE LoopInv'
    <3>1. PICK r : pc = "map" /\ Refuse(r, Left(r))
      BY <2>7 DEF RefuseStep
    <3>2. /\ i' = i /\ mapped' = mapped /\ shown' = shown /\ pc' \in {"files", "exit"}
          /\ DOMAIN code' = DOMAIN code \cup {i}
      BY <3>1 DEF Refuse, AfterError, Filter
    <3>3. DOMAIN code' = {k \in Files : k <= i}
      BY <2>6, <3>1, <3>2 DEF LoopInv
    <3> QED
      BY <2>1, <3>1, <3>2, <3>3 DEF LoopInv
  <2>8. ASSUME NEW r, disp_file(r) PROVE LoopInv'
    <3>2. /\ pc = "disp_file" /\ i' = i /\ mapped' = mapped
          /\ shown' = (IF r = OK THEN shown \cup {i} ELSE shown)
          /\ pc' \in {"munmap", "exit"} /\ DOMAIN code' = DOMAIN code \cup {i}
      BY <2>8 DEF disp_file, AfterShown, AfterError, Filter
    <3>3. DOMAIN code' = {k \in Files : k <= i}
      BY <2>6, <3>2 DEF LoopInv
    <3> QED
      BY <2>1, <3>2, <3>3 DEF LoopInv
  <2> QED
    BY <1>3, <2>2, <2>3, <2>4, <2>5, <2>7, <2>8, FileStepKinds
<1>4. CASE UNCHANGED vars
  BY <1>4 DEF LoopInv, Opened, Files, Args, vars
<1> QED
  BY <1>1, <1>2, <1>3, <1>4, StepKinds

LEMMA InitLoop == Init => LoopInv /\ ErrnoInv /\ AnsweredInv /\ DescriptorsInv
<1> SUFFICES ASSUME Init PROVE LoopInv /\ ErrnoInv /\ AnsweredInv /\ DescriptorsInv
  OBVIOUS
<1>1. /\ code = << >> /\ shown = {} /\ mapped = {} /\ status = OK /\ fds = 0 /\ errno = OK
      /\ pc = "args" /\ DOMAIN code = {}
  BY DEF Init, OK
<1>2. {m \in DOMAIN code : Refused(m)} = {} /\ fds <= Cardinality({})
  BY <1>1, FS_EmptySet
<1>3. LoopInv
  BY <1>1 DEF LoopInv, Opened
<1>4. ErrnoInv
  BY <1>1 DEF ErrnoInv
<1>5. AnsweredInv
  BY <1>1 DEF AnsweredInv
<1>6. DescriptorsInv
  BY <1>1, <1>2 DEF DescriptorsInv
<1> QED
  BY <1>3, <1>4, <1>5, <1>6
-----------------------------------------------------------------------------
LEMMA StepErrnoInv ==
  ASSUME ErrnoInv, [Next]_vars PROVE ErrnoInv'
<1>1. CASE FlagStep
  BY <1>1, FlagStepQuiet DEF ErrnoInv, Unmapped, Quiet, Opened
<1>2. CASE StartFiles
  BY <1>2 DEF ErrnoInv, Unmapped, StartFiles, Quiet
<1>3. ASSUME NEW e, OK \in AfterWrites(e) PROVE e = OK
  BY <1>3, Constants DEF AfterWrites
<1>4. ASSUME NEW r, Filter(r), errno' = OK => errno = OK /\ r \notin (Errnos \cup {EMFILE}) \ {ERR_SILENT}
      PROVE  errno' = OK => \A k \in DOMAIN code' : ~Unmapped(k)'
  <2>1. \A k \in DOMAIN code' : (k = i /\ code'[k] = r) \/ (k \in DOMAIN code /\ code'[k] = code[k])
    BY <1>4 DEF Filter
  <2> QED
    BY <1>4, <2>1 DEF ErrnoInv, Unmapped
<1>5. CASE RefuseStep
  <2>1. PICK r \in Errnos \cup {ERR_MAGIC, EMFILE} : Refuse(r, Left(r))
    BY <1>5 DEF RefuseStep
  <2>2. /\ Filter(r) /\ is_otool' = is_otool /\ (~is_otool => pc' = "files")
        /\ errno' = OK => Left(r) = OK
    BY <1>3, <2>1 DEF Refuse, KeepArgs, AfterError
  <2>3. Left(r) = OK => r = ERR_MAGIC /\ errno = OK
    BY Constants DEF Left
  <2>4. ERR_MAGIC \notin Errnos \cup {EMFILE}
    BY Constants
  <2>5. errno' = OK => \A k \in DOMAIN code' : ~Unmapped(k)'
    BY <1>4, <2>2, <2>3, <2>4
  <2> QED
    BY <2>2, <2>5 DEF ErrnoInv
<1>6. ASSUME NEW r \in {OK, ERR_SILENT, ERR_MAGIC, ERR_MEM}, disp_file(r) PROVE ErrnoInv'
  <2>1. /\ Filter(r) /\ is_otool' = is_otool /\ (~is_otool => pc' = "munmap")
        /\ errno' \in AfterWrites(errno) \cup {ENOMEM}
    BY <1>6 DEF disp_file, KeepArgs, AfterError, AfterShown
  <2>2. errno' = OK => errno = OK
    BY <1>3, <2>1, Constants
  <2>3. r \notin (Errnos \cup {EMFILE}) \ {ERR_SILENT}
    BY Constants
  <2>4. errno' = OK => \A k \in DOMAIN code' : ~Unmapped(k)'
    BY <1>4, <2>1, <2>2, <2>3
  <2> QED
    BY <2>1, <2>4 DEF ErrnoInv
<1>7. CASE NextFile \/ Map \/ Munmap
  BY <1>7 DEF ErrnoInv, Unmapped, NextFile, Map, Munmap, KeepArgs
<1>8. CASE Finish
  <2>1. errno' = OK => errno = OK
    BY <1>3, <1>8 DEF Finish
  <2> QED
    BY <1>8, <2>1 DEF ErrnoInv, Unmapped, Finish, LastStatus, KeepArgs
<1>9. CASE UNCHANGED vars
  BY <1>9 DEF ErrnoInv, Unmapped, vars
<1> QED
  BY <1>1, <1>2, <1>5, <1>6, <1>7, <1>8, <1>9, StepKinds, FileStepKinds

LEMMA StepAnsweredInv ==
  ASSUME Typed, LoopInv, AnsweredInv, [Next]_vars PROVE AnsweredInv'
<1>0. /\ Files \subseteq 1 .. Len(given) /\ Len(given) \in Nat /\ Len(argv) = Len(given)
      /\ i \in Nat /\ i <= Len(given)
  BY FilesAreArgs
<1>1. CASE FlagStep \/ StartFiles
  <2>1. /\ code' = code /\ shown' = shown /\ status' = status /\ is_otool' = is_otool
        /\ pc # "exit" /\ pc' # "exit" /\ code = << >>
    BY <1>1, FlagStepQuiet DEF StartFiles, Quiet, Opened, LoopInv
  <2>2. DOMAIN code = {}
    BY <2>1
  <2> QED
    BY <2>1, <2>2 DEF AnsweredInv
<1>2. ASSUME FileStep PROVE AnsweredInv'
  <2>0. Files' = Files /\ is_otool' = is_otool
    BY <1>2, FilesKept
  <2>1. CASE NextFile \/ Map \/ Munmap
    <3>1. /\ code' = code /\ shown' = shown /\ told' = told /\ status' = status
          /\ pc # "exit" /\ pc' # "exit"
      BY <2>1 DEF NextFile, Map, Openable, Munmap
    <3> QED
      BY <2>0, <3>1 DEF AnsweredInv, Answered
  <2>2. CASE Finish
    <3>1. /\ code' = code /\ shown' = shown /\ told' = told /\ pc = "files" /\ i' = i
          /\ i = Len(argv) /\ (is_otool => status' = OK)
      BY <2>2 DEF Finish, LastStatus
    <3>2. {k \in Files : k <= i} = Files
      <4>1. \A k \in Files : k <= i
        BY <1>0, <3>1
      <4> QED
        BY Zenon, <4>1
    <3>3. DOMAIN code = Files
      BY <3>1, <3>2 DEF LoopInv
    <3> QED
      BY <2>0, <3>1, <3>3 DEF AnsweredInv, Answered
  <2>3. ASSUME NEW r, Filter(r), r = OK => i \in shown', shown \subseteq shown'
        PROVE  /\ \A k \in DOMAIN code' : Answered(k)'
               /\ DOMAIN code' = DOMAIN code \cup {i}
    <3>1. /\ DOMAIN code' = DOMAIN code \cup {i} /\ code'[i] = r
          /\ \A k \in DOMAIN code : k # i => code'[k] = code[k]
          /\ told \subseteq told' /\ (Message(r) => i \in told')
      BY <2>3 DEF Filter
    <3>2. ASSUME NEW k \in DOMAIN code' PROVE Answered(k)'
      <4>1. CASE k = i
        BY <2>3, <3>1, <4>1 DEF Answered, Message
      <4>2. CASE k # i
        BY <2>3, <3>1, <4>2 DEF Answered, AnsweredInv
      <4> QED
        BY <4>1, <4>2
    <3> QED
      BY <3>1, <3>2
  <2>4. ASSUME NEW r, pc \in {"map", "disp_file"}, Filter(r), r # OK, shown' = shown, i' = i,
               is_otool => pc' = "exit" /\ status' = 1, ~is_otool => pc' # "exit"
        PROVE  AnsweredInv'
    <3>1. /\ \A k \in DOMAIN code' : Answered(k)'
          /\ DOMAIN code' = DOMAIN code \cup {i}
      BY <2>3, <2>4
    <3>2. ASSUME is_otool
          PROVE  /\ i \in Files \ shown /\ shown = {k \in Files : k < i}
                 /\ \A k \in DOMAIN code' : k <= i
      <4>1. shown = DOMAIN code /\ DOMAIN code = {k \in Files : k < i} /\ i \in Files
        BY <2>4, <3>2 DEF AnsweredInv, LoopInv
      <4>2. i \notin shown /\ \A k \in DOMAIN code' : k <= i
        BY <1>0, <3>1, <4>1
      <4> QED
        BY <4>1, <4>2
    <3> QED
      BY <2>0, <2>4, <3>1, <3>2 DEF AnsweredInv, OK
  <2>5. CASE RefuseStep
    <3>1. PICK r \in Errnos \cup {ERR_MAGIC, EMFILE} : pc = "map" /\ Refuse(r, Left(r))
      BY <2>5 DEF RefuseStep
    <3>2. r # OK
      BY Constants DEF OK, ERR_MAGIC
    <3> QED
      BY <2>4, <3>1, <3>2 DEF Refuse, AfterError, StatusAfterError
  <2>6. ASSUME NEW r \in {OK, ERR_SILENT, ERR_MAGIC, ERR_MEM}, disp_file(r) PROVE AnsweredInv'
    <3>1. pc = "disp_file" /\ Filter(r) /\ i' = i
      BY <2>6 DEF disp_file
    <3>2. CASE r # OK
      BY <2>4, <2>6, <3>1, <3>2 DEF disp_file, AfterShown, AfterError, StatusAfterError
    <3>3. CASE r = OK
      <4>1. shown' = shown \cup {i} /\ pc' = "munmap" /\ status' = status
        BY <2>6, <3>3 DEF disp_file, AfterShown
      <4>2. /\ \A k \in DOMAIN code' : Answered(k)'
            /\ DOMAIN code' = DOMAIN code \cup {i}
        BY <2>3, <3>1, <4>1
      <4> QED
        BY <2>0, <3>1, <4>1, <4>2 DEF AnsweredInv
    <3> QED
      BY <3>2, <3>3
  <2> QED
    BY <1>2, <2>1, <2>2, <2>5, <2>6, FileStepKinds
<1>3. CASE UNCHANGED vars
  BY <1>3 DEF AnsweredInv, Answered, Files, Args, vars
<1> QED
  BY <1>1, <1>2, <1>3, StepKinds
-----------------------------------------------------------------------------
(* A result for the file at i leaves the earlier files as they were.       *)
LEMMA EarlierFiles ==
  ASSUME Typed, LoopInv, pc \in {"map", "disp_file"}, NEW r, Filter(r),
         shown' \in {shown, shown \cup {i}}
  PROVE  /\ DOMAIN code' = DOMAIN code \cup {i} /\ code'[i] = r
         /\ \A k \in DOMAIN code : k < i /\ k \in Nat /\ code'[k] = code[k]
         /\ i \in Nat /\ i \notin shown /\ IsFiniteSet(DOMAIN code)
         /\ \A m \in DOMAIN code : Refused(m)' <=> Refused(m)
<1>1. /\ DOMAIN code' = DOMAIN code \cup {i} /\ code'[i] = r
      /\ \A k \in DOMAIN code : k # i => code'[k] = code[k]
  BY DEF Filter
<1>2. /\ DOMAIN code = {k \in Files : k < i} /\ Files \subseteq 1 .. Len(given)
      /\ Len(given) \in Nat /\ i \in Nat /\ shown \subseteq DOMAIN code
  BY FilesAreArgs DEF LoopInv
<1>3. i \notin DOMAIN code /\ \A k \in DOMAIN code : k < i /\ k \in Nat
  <2>1. \A k \in DOMAIN code : k < i /\ k \in Files
    BY Zenon, <1>2
  <2>2. \A k \in Files : k \in Nat
    BY <1>2
  <2>3. ~(i < i)
    BY <1>2
  <2> QED
    BY Zenon, <2>1, <2>2, <2>3
<1>4. IsFiniteSet(DOMAIN code)
  <2>1. DOMAIN code \subseteq Files
    BY Zenon, <1>2
  <2>2. IsFiniteSet(1 .. Len(given))
    BY <1>2, FS_Interval
  <2>3. IsFiniteSet(Files)
    BY <1>2, <2>2, FS_Subset
  <2> QED
    BY <2>1, <2>3, FS_Subset
<1>5. \A m \in DOMAIN code : Refused(m)' <=> Refused(m)
  BY <1>1, <1>3 DEF Refused
<1> QED
  BY <1>1, <1>2, <1>3, <1>4, <1>5

LEMMA StepDescriptorsInv ==
  ASSUME Typed, LoopInv, DescriptorsInv, [Next]_vars PROVE DescriptorsInv'
<1>1. CASE FlagStep \/ StartFiles
  <2>1. /\ code' = code /\ shown' = shown /\ fds' = fds
        /\ pc # "exit" /\ pc' # "exit"
    BY <1>1, FlagStepQuiet DEF StartFiles, Quiet, Opened
  <2> QED
    BY <2>1 DEF DescriptorsInv, Refused
<1>2. ASSUME FileStep PROVE DescriptorsInv'
  <2>0. is_otool' = is_otool
    BY <1>2, FilesKept
  <2>1. CASE NextFile \/ Map \/ Munmap \/ Finish
    <3>1. code' = code /\ shown' = shown /\ fds' = fds
      BY <2>1 DEF NextFile, Map, FdsAfterMap, Munmap, Finish
    <3>2. pc' = "exit" => mapped' = {} /\ pc = "files"
      BY <2>1 DEF NextFile, Map, Munmap, Finish, LoopInv
    <3> QED
      BY <3>1, <3>2 DEF DescriptorsInv, Refused
  <2>2. ASSUME pc \in {"map", "disp_file"}, NEW r, Filter(r), shown' \in {shown, shown \cup {i}},
               r = EMFILE => MaxFds <= fds /\ fds' = fds,
               fds' \in {fds, fds + 1},
               fds' = fds + 1 => r \in Errnos \cup {ERR_MAGIC} /\ shown' = shown
        PROVE  /\ fds' <= Cardinality({m \in DOMAIN code' : Refused(m)'})
               /\ \A k \in DOMAIN code' :
                    code'[k] = EMFILE =>
                      MaxFds <= Cardinality({m \in DOMAIN code' : m < k /\ Refused(m)'})
    <3>1. /\ DOMAIN code' = DOMAIN code \cup {i} /\ code'[i] = r
          /\ \A k \in DOMAIN code : k < i /\ k \in Nat /\ code'[k] = code[k]
          /\ i \in Nat /\ i \notin shown /\ IsFiniteSet(DOMAIN code)
          /\ \A m \in DOMAIN code : Refused(m)' <=> Refused(m)
      BY <2>2, EarlierFiles
    <3> DEFINE old == {m \in DOMAIN code : Refused(m)}
               new == {m \in DOMAIN code' : Refused(m)'}
    <3>2. /\ IsFiniteSet(old) /\ IsFiniteSet(new) /\ old \subseteq new /\ i \notin old
          /\ new \subseteq old \cup {i}
      <4>1. old \subseteq DOMAIN code /\ old \subseteq new /\ new \subseteq old \cup {i}
        BY <3>1
      <4>2. i \notin DOMAIN code
        BY <3>1
      <4>3. IsFiniteSet(old) /\ IsFiniteSet(old \cup {i})
        BY <3>1, <4>1, FS_Subset, FS_AddElement
      <4> QED
        BY <4>1, <4>2, <4>3, FS_Subset
    <3>3. Cardinality(old) \in Nat /\ Cardinality(new) \in Nat
          /\ Cardinality(old) <= Cardinality(new) /\ fds <= Cardinality(old) /\ fds \in Nat
      <4>1. Cardinality(old) \in Nat /\ Cardinality(new) \in Nat
        BY <3>2, FS_CardinalityType
      <4>2. Cardinality(old) <= Cardinality(new)
        BY <3>2, FS_Subset
      <4> QED
        BY <4>1, <4>2 DEF DescriptorsInv, Typed
    <3>4. ASSUME fds' = fds + 1 PROVE Cardinality(new) = Cardinality(old) + 1
      <4>1. \A m : m = i => Refused(m)'
        BY <2>2, <3>1, <3>4 DEF Refused
      <4>2. i \in new
        BY <3>1, <4>1
      <4>3. new = old \cup {i}
        <5> HIDE DEF old, new
        <5> QED
          BY <3>2, <4>2
      <4> HIDE DEF old, new
      <4> QED
        BY <3>2, <4>3, FS_AddElement
    <3>5. fds' <= Cardinality(new)
      <4> HIDE DEF old, new
      <4> QED
        BY <2>2, <3>3, <3>4
    <3>6. ASSUME NEW k \in DOMAIN code', code'[k] = EMFILE
          PROVE  MaxFds <= Cardinality({m \in DOMAIN code' : m < k /\ Refused(m)'})
      <4>1. CASE k = i
        <5>1. {m \in DOMAIN code' : m < i /\ Refused(m)'} = old
          <6>1. \A m \in DOMAIN code' : m < i /\ Refused(m)' <=> m \in DOMAIN code /\ Refused(m)
            <7>1. ~(i < i)
              BY <3>1
            <7> QED
              BY <3>1, <7>1
          <6> QED
            BY <3>1, <6>1
        <5>2. MaxFds <= fds /\ MaxFds \in Nat
          BY <2>2, <3>1, <3>6, <4>1, Constants
        <5>3. MaxFds <= Cardinality(old)
          <6> HIDE DEF old, new
          <6> QED
            BY <3>3, <5>2
        <5> QED
          BY <4>1, <5>1, <5>3
      <4>2. CASE k # i
        <5>1. k \in DOMAIN code /\ k < i /\ k \in Nat /\ code[k] = EMFILE
          BY <3>1, <3>6, <4>2
        <5>2. {m \in DOMAIN code' : m < k /\ Refused(m)'} = {m \in DOMAIN code : m < k /\ Refused(m)}
          <6>1. \A m \in DOMAIN code' : m < k => m \in DOMAIN code
            <7>1. ~(i < k)
              BY <3>1, <5>1
            <7> QED
              BY <3>1, <7>1
          <6> QED
            BY <3>1, <6>1
        <5> QED
          BY <5>1, <5>2 DEF DescriptorsInv
      <4> QED
        BY <4>1, <4>2
    <3> QED
      BY <3>5, <3>6
  <2>3. CASE RefuseStep
    <3>1. PICK r \in Errnos \cup {ERR_MAGIC, EMFILE} :
            /\ pc = "map" /\ Refuse(r, Left(r))
            /\ \/ r \in Errnos \cup {ERR_MAGIC} /\ fds' \in {fds, fds + 1}
               \/ r = EMFILE /\ fds = MaxFds /\ fds' = fds
      BY <2>3 DEF RefuseStep
    <3>2. Filter(r) /\ shown' = shown /\ mapped' = {}
      BY <3>1 DEF Refuse, LoopInv
    <3>3. r = EMFILE => MaxFds <= fds /\ fds' = fds
      <4>1. r \in Errnos \cup {ERR_MAGIC} => r # EMFILE
        BY Constants
      <4> QED
        BY <3>1, <4>1, Constants
    <3>4. fds + 1 # fds
      BY DEF Typed
    <3>5. fds' \in {fds, fds + 1} /\ (fds' = fds + 1 => r \in Errnos \cup {ERR_MAGIC})
      BY <3>1, <3>4
    <3>6. /\ fds' <= Cardinality({m \in DOMAIN code' : Refused(m)'})
          /\ \A k \in DOMAIN code' :
               code'[k] = EMFILE =>
                 MaxFds <= Cardinality({m \in DOMAIN code' : m < k /\ Refused(m)'})
      BY <2>2, <3>1, <3>2, <3>3, <3>5
    <3> QED
      BY <3>2, <3>6 DEF DescriptorsInv
  <2>4. ASSUME NEW r \in {OK, ERR_SILENT, ERR_MAGIC, ERR_MEM}, disp_file(r) PROVE DescriptorsInv'
    <3>1. /\ pc = "disp_file" /\ Filter(r) /\ shown' \in {shown, shown \cup {i}} /\ fds' = fds
          /\ mapped' = mapped /\ i' = i /\ mapped = {i} /\ (pc' = "exit" => is_otool)
      BY <2>4 DEF disp_file, AfterShown, AfterError, LoopInv
    <3>2. r # EMFILE /\ fds + 1 # fds
      BY Constants DEF Typed
    <3>3. /\ fds' <= Cardinality({m \in DOMAIN code' : Refused(m)'})
          /\ \A k \in DOMAIN code' :
               code'[k] = EMFILE =>
                 MaxFds <= Cardinality({m \in DOMAIN code' : m < k /\ Refused(m)'})
      BY <2>2, <3>1, <3>2
    <3> QED
      BY <2>0, <3>1, <3>3 DEF DescriptorsInv
  <2> QED
    BY <1>2, <2>1, <2>3, <2>4, FileStepKinds
<1>3. CASE UNCHANGED vars
  BY <1>3 DEF DescriptorsInv, Refused, vars
<1> QED
  BY <1>1, <1>2, <1>3, StepKinds
-----------------------------------------------------------------------------
(* The flags, the loop and what it keeps, together kept by every step.     *)
LEMMA DriverInvariant ==
  Spec => [](Typed /\ ArgsInv /\ LoopInv /\ AnsweredInv /\ DescriptorsInv /\ ErrnoInv)
<1> DEFINE Inv == Typed /\ ArgsInv /\ LoopInv /\ AnsweredInv /\ DescriptorsInv /\ ErrnoInv
<1>1. Init => Inv
  BY InitTyped, InitArgs, InitLoop
<1>2. Inv /\ [Next]_vars => Inv'
  <2> SUFFICES ASSUME Inv, [Next]_vars PROVE Inv'
    OBVIOUS
  <2>1. Typed' /\ ArgsInv' /\ LoopInv'
    BY StepTyped, StepArgsInv, StepLoopInv
  <2>2. AnsweredInv' /\ DescriptorsInv' /\ ErrnoInv'
    BY StepAnsweredInv, StepDescriptorsInv, StepErrnoInv
  <2> QED
    BY <2>1, <2>2
<1> QED
  BY <1>1, <1>2, PTL DEF Spec

(* Each file of nm is shown, or a message names it, or its code is 1, and  *)
(* nm does not return 0 once a file could not be opened or mapped; otool   *)
(* shows every file before the first that fails and returns 1 there        *)
(* (nm.c and otool.c, main).                                               *)
THEOREM FilesAnswered == Spec => []EveryFileAnswered
<1>1. LoopInv /\ AnsweredInv /\ ErrnoInv => EveryFileAnswered
  BY DEF LoopInv, AnsweredInv, ErrnoInv, EveryFileAnswered
<1> QED
  BY <1>1, DriverInvariant, PTL

(* Nothing is mapped between two files, and open runs out of descriptors   *)
(* only after as many files that were empty or could not be mapped (map).  *)
THEOREM ResourcesAreReturned == Spec => []ResourcesReturned
<1>1. LoopInv /\ DescriptorsInv => ResourcesReturned
  BY DEF LoopInv, DescriptorsInv, ResourcesReturned
<1> QED
  BY <1>1, DriverInvariant, PTL
-----------------------------------------------------------------------------
(* What a letter that was read is: its flag, and its place in the flag.    *)
LEMMA FlagLetter ==
  ASSUME Typed
  PROVE  /\ \A p \in FlagLetters : /\ p = <<p[1], p[2]>> /\ p[1] \in Args /\ argv[p[1]] = NULL
                                   /\ p[2] \in 1 .. Len(given[p[1]])
         /\ \A m \in Args : \A k \in 1 .. Len(given[m]) :
              argv[m] = NULL => <<m, k>> \in FlagLetters
         /\ Args = 1 .. Len(given) /\ Len(given) \in Nat
         /\ \A m \in Args : Len(given[m]) \in Nat
<1>1. Args = 1 .. Len(given) /\ Len(given) \in Nat /\ \A m \in Args : given[m] \in Words
  BY ElementOfSeq, LenProperties DEF Typed, Args
<1>2. \A m \in Args : Len(given[m]) \in Nat /\ DOMAIN given[m] = 1 .. Len(given[m])
  BY <1>1, Names
<1>3. \A p : p \in FlagLetters <=>
        \E m \in Args : argv[m] = NULL /\ p \in {m} \X DOMAIN given[m]
  BY DEF FlagLetters
<1>4. ASSUME NEW p \in FlagLetters
      PROVE  /\ p = <<p[1], p[2]>> /\ p[1] \in Args /\ argv[p[1]] = NULL
             /\ p[2] \in 1 .. Len(given[p[1]])
  <2>1. PICK m \in Args : argv[m] = NULL /\ p \in {m} \X DOMAIN given[m]
    BY <1>3
  <2>2. p = <<p[1], p[2]>> /\ p[1] = m /\ p[2] \in DOMAIN given[m]
    BY <2>1
  <2> QED
    BY <1>2, <2>1, <2>2
<1>5. ASSUME NEW m \in Args, NEW k \in 1 .. Len(given[m]), argv[m] = NULL
      PROVE  <<m, k>> \in FlagLetters
  <2>1. k \in DOMAIN given[m]
    BY <1>2
  <2>2. <<m, k>> \in {m} \X DOMAIN given[m]
    BY <2>1
  <2> QED
    BY <1>3, <1>5, <2>2
<1> QED
  BY <1>1, <1>2, <1>4, <1>5

(* All the letters read so far stand before the one that is read next.     *)
LEMMA SeenLetter ==
  ASSUME Typed, ArgsInv
  PROVE  /\ \A p \in SeenLetters : p = <<p[1], p[2]>> /\ p[1] \in Nat /\ p[2] \in Nat
         /\ pc = "letters" => \A p \in SeenLetters : Before(p, <<i, j>>)
         /\ pc # "letters" => SeenLetters = FlagLetters
<1>1. pc # "letters" => SeenLetters = FlagLetters
  BY DEF SeenLetters
<1>2. /\ i \in Nat /\ j \in Nat /\ Args = 1 .. Len(given) /\ Len(given) \in Nat
      /\ \A m \in Args : Len(given[m]) \in Nat
  BY FlagLetter DEF Typed
<1>3. ASSUME NEW p \in FlagLetters
      PROVE  /\ p = <<p[1], p[2]>> /\ p[1] \in Nat /\ p[2] \in Nat
             /\ pc = "letters" => p[1] < i
  <2>1. /\ p = <<p[1], p[2]>> /\ p[1] \in Args /\ argv[p[1]] = NULL
        /\ p[2] \in 1 .. Len(given[p[1]])
    BY FlagLetter
  <2>2. p[1] \in Nat /\ p[2] \in Nat
    BY <1>2, <2>1
  <2>3. pc = "letters" => p[1] < i
    BY <1>2, <2>1, <2>2 DEF ArgsInv, Typed, Args
  <2> QED
    BY <2>1, <2>2, <2>3
<1>4. ASSUME pc = "letters", NEW p \in {i} \X (1 .. j - 1)
      PROVE  p = <<p[1], p[2]>> /\ p[1] = i /\ p[2] \in Nat /\ p[2] < j
  BY <1>2, <1>4
<1>5. ASSUME NEW p \in SeenLetters
      PROVE  /\ p = <<p[1], p[2]>> /\ p[1] \in Nat /\ p[2] \in Nat
             /\ pc = "letters" => p[1] < i \/ (p[1] = i /\ p[2] < j)
  BY <1>2, <1>3, <1>4 DEF SeenLetters
<1> QED
  BY <1>1, <1>5 DEF Before

(* Reading a letter adds it to the letters read; no other step of nm, and  *)
(* no step over the files, changes what was read.                          *)
LEMMA SeenMore ==
  ASSUME Typed, ArgsInv, Letter
  PROVE  SeenLetters' = SeenLetters \cup {<<i, j>>}
<1>1. /\ pc = "letters" /\ pc' = "letters" /\ i' = i /\ j' = j + 1 /\ argv' = argv
      /\ given' = given /\ j \in Nat /\ j >= 1
  BY DEF Letter, Quiet, ArgsInv, Typed
<1>2. FlagLetters' = FlagLetters
  BY <1>1 DEF FlagLetters, Args
<1>3. {i} \X (1 .. (j + 1) - 1) = ({i} \X (1 .. j - 1)) \cup {<<i, j>>}
  <2>1. 1 .. (j + 1) - 1 = (1 .. j - 1) \cup {j}
    BY <1>1
  <2> DEFINE low == 1 .. j - 1
             all == 1 .. (j + 1) - 1
  <2> HIDE DEF low, all
  <2>2. all = low \cup {j}
    BY <2>1 DEF low, all
  <2>3. {i} \X all = ({i} \X low) \cup {<<i, j>>}
    BY <2>2
  <2> QED
    BY <2>3 DEF low, all
<1> QED
  BY <1>1, <1>2, <1>3 DEF SeenLetters

LEMMA SeenSame ==
  ASSUME Typed, ArgsInv, StartFlag \/ StartFiles \/ EndFlag \/ FileStep \/ UNCHANGED vars
  PROVE  SeenLetters' = SeenLetters /\ given' = given
<1>1. CASE StartFlag
  <2>1. /\ pc = "args" /\ pc' = "letters" /\ j' = 1 /\ argv' = argv /\ given' = given
    BY <1>1 DEF StartFlag, Quiet
  <2>2. FlagLetters' = FlagLetters
    BY <2>1 DEF FlagLetters, Args
  <2>3. \A x : {x} \X (1 .. 1 - 1) = {}
    <3>1. 1 .. 1 - 1 = {}
      OBVIOUS
    <3> QED
      BY <3>1
  <2>4. {i'} \X (1 .. j' - 1) = {}
    BY <2>1, <2>3
  <2> QED
    BY <2>1, <2>2, <2>4 DEF SeenLetters
<1>2. CASE StartFiles
  <2>1. /\ pc = "args" /\ pc' = "files" /\ argv' = argv /\ given' = given
    BY <1>2 DEF StartFiles, Quiet
  <2> QED
    BY <2>1 DEF SeenLetters, FlagLetters, Args
<1>3. CASE EndFlag
  <2>1. /\ pc = "letters" /\ pc' = "args" /\ argv' = BlankFlag(argv, i) /\ given' = given
        /\ i \in 1 .. Len(argv) /\ argv \in Seq(Words) /\ argv[i] = given[i]
        /\ j > Len(argv[i]) /\ j \in 1 .. Len(given[i]) + 1
        /\ Args' = Args
    BY <1>3, FlagLetter DEF EndFlag, Quiet, ArgsInv, Typed, Args
  <2>2. \A m \in Args : argv'[m] = IF m = i THEN NULL ELSE argv[m]
    BY <2>1, Blanked, FlagLetter DEF Typed
  <2>3. Len(given[i]) \in Nat /\ i \in Args /\ argv[i] # NULL
    BY <2>1, FlagLetter DEF Typed
  <2>4. 1 .. j - 1 = 1 .. Len(given[i])
    BY <2>1, <2>3
  <2>5. DOMAIN given[i] = 1 .. Len(given[i])
    <3>1. given[i] \in Words
      BY <2>3, ElementOfSeq, LenProperties, FlagLetter DEF Typed
    <3> QED
      BY <3>1, Names
  <2>6. {m \in Args : argv'[m] = NULL} = {m \in Args : argv[m] = NULL} \cup {i}
    BY <2>2, <2>3
  <2> DEFINE old == {m \in Args : argv[m] = NULL}
             new == {m \in Args : argv'[m] = NULL}
             Of(m) == {m} \X DOMAIN given[m]
  <2>7. UNION {Of(m) : m \in new} = (UNION {Of(m) : m \in old}) \cup Of(i)
    <3>1. new = old \cup {i}
      BY <2>6
    <3> HIDE DEF old, new, Of
    <3>2. {Of(m) : m \in new} = {Of(m) : m \in old} \cup {Of(i)}
      BY <3>1
    <3> QED
      BY <3>2
  <2>8. FlagLetters = UNION {Of(m) : m \in old}
    BY DEF FlagLetters
  <2>9. FlagLetters' = UNION {Of(m) : m \in new}
    BY <2>1 DEF FlagLetters
  <2>10. Of(i) = {i} \X (1 .. j - 1)
    BY <2>4, <2>5
  <2> QED
    <3> HIDE DEF old, new, Of
    <3> QED
      BY <2>1, <2>7, <2>8, <2>9, <2>10 DEF SeenLetters
<1>4. CASE FileStep
  BY <1>4, FileStepOpened DEF KeepArgs, Opened, SeenLetters, FlagLetters, Args
<1>5. CASE UNCHANGED vars
  BY <1>5 DEF vars, SeenLetters, FlagLetters, Args
<1> QED
  BY <1>1, <1>2, <1>3, <1>4, <1>5

(* The letters n and p: at most one of them is the last.                   *)
LEMMA OneLast ==
  ASSUME Typed, ArgsInv, NEW p, NEW q, LastSeen(p), LastSeen(q)
  PROVE  p = q
<1>1. /\ p \in SeenLetters /\ q \in SeenLetters
      /\ p = q \/ (Before(p, q) /\ Before(q, p))
  BY DEF LastSeen, Seen
<1>2. p[1] \in Nat /\ p[2] \in Nat /\ q[1] \in Nat /\ q[2] \in Nat
  BY <1>1, SeenLetter
<1> QED
  BY <1>1, <1>2 DEF Before

LEMMA InitTarget == Init => TargetInv
<1> SUFFICES ASSUME Init PROVE TargetInv
  OBVIOUS
<1>1. Typed /\ ArgsInv /\ pc = "args" /\ i = 0 /\ target = FirstTarget(given)
  BY InitTyped, InitArgs DEF Init
<1>2. SeenLetters = {}
  <2>1. \A p \in FlagLetters : p[1] \in Args /\ argv[p[1]] = NULL
    BY <1>1, FlagLetter
  <2>2. \A m \in Args : argv[m] # NULL
    BY <1>1 DEF Init, Typed
  <2> QED
    BY <1>1, <2>1, <2>2 DEF SeenLetters
<1>3. \A c : Seen(c) = {}
  BY <1>2 DEF Seen
<1>4. /\ target.only_name = FALSE /\ target.reversed = FALSE
      /\ target.sorting = "sort_alphabetical" /\ target.target_sect = NULL
  BY <1>1 DEF FirstTarget
<1> QED
  BY <1>3, <1>4 DEF TargetInv, FlagsSeen, SortingSeen, SectionSeen

LEMMA StepFlagsSeen ==
  ASSUME Typed, ArgsInv, ~is_otool, FlagsSeen, [Next]_vars PROVE FlagsSeen'
<1>1. CASE Letter
  <2>0. PICK c, next : c = given[i][j] /\ next = <<i, j>>
    OBVIOUS
  <2>1. /\ target' = NmLetter(target, c) /\ given' = given /\ pc = "letters"
        /\ target \in Targets
    <3>1. argv[i] = given[i]
      BY <1>1, FlagLetter DEF Letter, ArgsInv, Typed
    <3> QED
      BY <1>1, <2>0, <3>1 DEF Letter, Quiet, Typed
  <2>2. SeenLetters' = SeenLetters \cup {next}
    BY <1>1, <2>0, SeenMore
  <2>3. \A x : Seen(x)' = IF x = c THEN Seen(x) \cup {next} ELSE Seen(x)
    <3>1. given[next[1]][next[2]] = c
      BY <2>0
    <3>2. \A x : Seen(x)' = {p \in SeenLetters \cup {next} : given[p[1]][p[2]] = x}
      BY <2>1, <2>2 DEF Seen
    <3>3. ASSUME NEW x
          PROVE  {p \in SeenLetters \cup {next} : given[p[1]][p[2]] = x}
                   = IF x = c THEN Seen(x) \cup {next} ELSE Seen(x)
      BY <3>1 DEF Seen
    <3> QED
      BY <3>2, <3>3
  <2>4. \A p \in SeenLetters : Before(p, next)
    BY <2>0, <2>1, SeenLetter
  <2>5. /\ target'.only_name = IF c = "j" THEN TRUE ELSE target.only_name
        /\ target'.reversed = IF c = "r" THEN TRUE ELSE target.reversed
        /\ target'.sorting = IF c = "n" THEN "sort_numerical"
                             ELSE IF c = "p" THEN "no_sorting" ELSE target.sorting
    <3>1. NmLetter(target, c).only_name = IF c = "j" THEN TRUE ELSE target.only_name
      BY <2>1, LetterFields
    <3>2. NmLetter(target, c).reversed = IF c = "r" THEN TRUE ELSE target.reversed
      BY <2>1, LetterFields
    <3>3. NmLetter(target, c).sorting = IF c = "n" THEN "sort_numerical"
                                        ELSE IF c = "p" THEN "no_sorting" ELSE target.sorting
      BY <2>1, LetterFields
    <3> QED
      BY <2>1, <3>1, <3>2, <3>3
  <2>6. \A x : Seen(x) \subseteq SeenLetters
    BY DEF Seen
  <2>7. target'.only_name = (Seen("j")' # {}) /\ target'.reversed = (Seen("r")' # {})
    <3>1. /\ Seen("j")' # {} <=> c = "j" \/ Seen("j") # {}
          /\ Seen("r")' # {} <=> c = "r" \/ Seen("r") # {}
      BY <2>3
    <3> QED
      BY <2>5, <3>1 DEF FlagsSeen
  <2>8. CASE c \in {"n", "p"}
    <3>1. next \in Seen(c)' /\ Seen("n")' \cup Seen("p")' = Seen("n") \cup Seen("p") \cup {next}
      BY <2>3, <2>8
    <3>2. LastSeen(next)'
      <4> USE DEF LastSeen
      <4>1. next \in Seen("n")' \cup Seen("p")'
        BY <3>1
      <4>2. \A q \in Seen("n")' \cup Seen("p")' : next = q \/ Before(q, next)
        BY <2>4, <2>6, <3>1
      <4> QED
        BY <4>1, <4>2
    <3> QED
      BY <2>5, <2>7, <2>8, <3>1, <3>2 DEF FlagsSeen, SortingSeen
  <2>9. CASE c \notin {"n", "p"}
    <3>1. Seen("n")' = Seen("n") /\ Seen("p")' = Seen("p") /\ target'.sorting = target.sorting
      BY <2>3, <2>5, <2>9
    <3>2. \A p : LastSeen(p)' <=> LastSeen(p)
      BY <3>1 DEF LastSeen, Before
    <3> QED
      BY <2>7, <3>1, <3>2 DEF FlagsSeen, SortingSeen
  <2> QED
    BY <2>8, <2>9
<1>2. CASE StartFlag \/ StartFiles \/ EndFlag \/ FileStep \/ UNCHANGED vars
  <2>1. SeenLetters' = SeenLetters /\ given' = given
    BY <1>2, SeenSame
  <2>2. target' = target
    BY <1>2, FileStepOpened DEF StartFlag, StartFiles, EndFlag, KeepArgs, vars
  <2>3. \A x : Seen(x)' = Seen(x)
    BY <2>1 DEF Seen
  <2>4. \A p : LastSeen(p)' <=> LastSeen(p)
    BY <2>3 DEF LastSeen, Before
  <2> QED
    BY <2>2, <2>3, <2>4 DEF FlagsSeen, SortingSeen
<1>3. CASE Section
  BY <1>3 DEF Section, TakesSection
<1> QED
  BY <1>1, <1>2, <1>3, StepKinds DEF FlagStep

LEMMA StepSectionSeen ==
  ASSUME Typed, ArgsInv, SectionSeen, [Next]_vars PROVE SectionSeen'
<1>0. Args = 1 .. Len(given) /\ Len(given) \in Nat /\ i \in Nat
  BY FlagLetter DEF Typed
<1>1. ASSUME target'.target_seg = target.target_seg, target'.target_sect = target.target_sect,
             given' = given, \A m \in Args : argv[m] = NULL => argv'[m] = NULL
      PROVE  SectionSeen'
  BY <1>1 DEF SectionSeen, Args
<1>2. CASE Letter
  BY <1>1, <1>2, LetterFields DEF Letter, Quiet, Typed
<1>3. CASE Section
  <2>1. /\ pc = "letters" /\ i \in 1 .. Len(argv) /\ i + 2 <= Len(argv) /\ Len(argv) = Len(given)
    BY <1>0, <1>3 DEF Section, TakesSection, ArgsInv, Typed
  <2>2. /\ i + 1 \in Args /\ i + 2 \in Args /\ i + 2 > 2 /\ (i + 2) - 1 = i + 1
        /\ argv[i + 1] = given[i + 1] /\ argv[i + 2] = given[i + 2]
        /\ argv[i + 1] \in Words /\ argv[i + 2] \in Words
    <3>1. i + 1 \in Args /\ i + 2 \in Args /\ i + 2 > 2 /\ (i + 2) - 1 = i + 1
      BY <1>0, <2>1
    <3>2. argv[i + 1] \in Words /\ argv[i + 2] \in Words
      BY <1>0, <2>1, <3>1, ElementOfSeq DEF Typed
    <3> QED
      BY <1>0, <2>1, <3>1, <3>2 DEF ArgsInv
  <2>3. target'.target_seg = given[i + 1] /\ target'.target_sect = given[i + 2] /\ given' = given
    <3>0. PICK a \in Words, b \in Words : a = argv[i + 1] /\ b = argv[i + 2]
      BY <2>2
    <3>1. /\ target \in Targets
          /\ target' = [target EXCEPT !.target_seg = a, !.target_sect = b]
      BY <1>3, <3>0 DEF Section, Typed
    <3>2. target'.target_seg = a
      BY <3>1 DEF Targets
    <3>4. target'.target_sect = b
      BY <3>1 DEF Targets
    <3>3. given' = given
      BY <1>3 DEF Section, Quiet
    <3> QED
      BY <2>2, <3>0, <3>2, <3>3, <3>4
  <2>4. argv'[i + 2] = NULL
    BY <1>3, <2>1, Blanked DEF Section, Typed
  <2>5. \E m \in Args : /\ m > 2 /\ argv'[m] = NULL
                        /\ target'.target_seg = given[m - 1] /\ target'.target_sect = given[m]
    BY <2>2, <2>3, <2>4
  <2> QED
    BY <2>3, <2>5 DEF SectionSeen, Args
<1>4. CASE EndFlag
  <2>1. i \in 1 .. Len(argv) /\ argv \in Seq(Words) /\ Len(argv) = Len(given)
    BY <1>0, <1>4 DEF EndFlag, ArgsInv, Typed
  <2>2. \A m \in Args : argv'[m] = IF m = i THEN NULL ELSE argv[m]
    BY <1>0, <1>4, <2>1, Blanked DEF EndFlag
  <2> QED
    BY <1>1, <1>4, <2>2 DEF EndFlag, Quiet
<1>5. CASE StartFlag \/ StartFiles \/ UNCHANGED vars
  BY <1>1, <1>5 DEF StartFlag, StartFiles, Quiet, vars
<1>6. CASE FileStep
  BY <1>1, <1>6, FileStepOpened DEF KeepArgs
<1> QED
  BY <1>2, <1>3, <1>4, <1>5, <1>6, StepKinds DEF FlagStep

(* When the files are opened the flags are exactly the leading arguments   *)
(* with a dash and their operands, the later of two that differ counts,    *)
(* and no blanked argument is ever opened (nm.c, otool.c: filter_args).    *)
THEOREM FlagsAreFirst == Spec => []FlagsThenFiles
<1>1. ASSUME Typed, ArgsInv, LoopInv, TargetInv PROVE FlagsThenFiles
  <2> SUFFICES ASSUME Opened PROVE FlagsBlanked /\ TargetAsGiven
    BY DEF FlagsThenFiles
  <2>1. FlagsBlanked
    <3>1. \A m \in DOMAIN code : argv[m] # NULL
      BY <1>1 DEF LoopInv, Files
    <3> QED
      BY <1>1, <3>1 DEF FlagsBlanked, ArgsInv, PrefixBlanked
  <2>2. \A c : Seen(c) = Given(c)
    BY <1>1, SeenLetter DEF Seen, Given, Opened
  <2>3. ASSUME SortingSeen PROVE target.sorting = LastSorting
    <3> DEFINE orders == Given("n") \cup Given("p")
               Last(p) == p \in orders /\ \A q \in orders : p = q \/ Before(q, p)
    <3>1. \A p : Last(p) <=> LastSeen(p)
      BY <2>2 DEF LastSeen
    <3>2. CASE orders = {}
      BY <2>2, <2>3, <3>2 DEF SortingSeen, LastSorting
    <3>3. ASSUME NEW p, Last(p)
          PROVE  LastSorting = IF p \in Given("n") THEN "sort_numerical" ELSE "no_sorting"
      <4> DEFINE last == CHOOSE x \in orders : \A q \in orders : x = q \/ Before(q, x)
      <4>1. Last(last)
        BY <3>3
      <4>2. last = p
        <5> HIDE DEF last, Last
        <5> QED
          BY <1>1, <3>1, <3>3, <4>1, OneLast
      <4>3. LastSorting = IF last \in Given("n") THEN "sort_numerical" ELSE "no_sorting"
        BY <3>3 DEF LastSorting
      <4> HIDE DEF last
      <4> QED
        BY <4>2, <4>3
    <3>4. \A p \in Given("p") : p \notin Given("n")
      BY DEF Given
    <3> HIDE DEF Last
    <3>5. CASE orders # {}
      BY <2>2, <2>3, <3>1, <3>3, <3>4, <3>5 DEF SortingSeen
    <3> QED
      BY <3>2, <3>5
  <2>4. TargetAsGiven
    BY <1>1, <2>2, <2>3 DEF TargetInv, FlagsSeen, SectionSeen, TargetAsGiven
  <2> QED
    BY <2>1, <2>4
<1>2. Init => TargetInv
  BY InitTarget
<1>3. ASSUME Typed, ArgsInv, TargetInv, [Next]_vars PROVE TargetInv'
  <2>1. is_otool' = is_otool
    BY <1>3, FlagStepQuiet, FilesKept, StepKinds DEF StartFiles, Quiet, vars
  <2> QED
    BY <1>3, <2>1, StepFlagsSeen, StepSectionSeen DEF TargetInv
<1> QED
  BY <1>1, <1>2, <1>3, DriverInvariant, PTL DEF Spec
-----------------------------------------------------------------------------
(* The errors main may have met, and what it then returns.                 *)
StatusInv ==
  /\ errno \in {OK, EMFILE, ENOMEM} \cup Errnos \cup WriteErrnos
  /\ pc # "exit" => status = OK
  /\ status \in ({OK, 1, EMFILE, ENOMEM} \cup Errnos \cup WriteErrnos)

LEMMA StepStatus ==
  ASSUME StatusInv, [Next]_vars
  PROVE  StatusInv' /\ (pc = "exit" => UNCHANGED <<pc, status>>)
<1>1. CASE FlagStep
  BY <1>1 DEF FlagStep, StartFlag, Letter, Section, EndFlag, Quiet, StatusInv
<1>2. CASE StartFiles
  BY <1>2 DEF StartFiles, Quiet, StatusInv
<1>3. CASE NextFile
  BY <1>3 DEF NextFile, StatusInv
<1>4. CASE Map \/ Munmap
  BY <1>4 DEF Map, Munmap, Openable, StatusInv
<1>5. CASE Finish
  BY <1>5 DEF Finish, LastStatus, AfterWrites, StatusInv
<1>6. CASE RefuseStep
  <2>1. /\ pc = "map" /\ status = OK
        /\ pc' = AfterError("files") /\ status' = StatusAfterError
    BY <1>6 DEF RefuseStep, Refuse, StatusInv
  <2>2. errno' \in {OK, EMFILE, ENOMEM} \cup Errnos \cup WriteErrnos
    BY <1>6 DEF RefuseStep, Refuse, Left, AfterWrites, StatusInv
  <2> QED
    BY <2>1, <2>2 DEF StatusInv, AfterError, StatusAfterError
<1>7. ASSUME NEW r, disp_file(r)
      PROVE  StatusInv' /\ (pc = "exit" => UNCHANGED <<pc, status>>)
  <2>1. pc = "disp_file" /\ status = OK
    BY <1>7 DEF disp_file, StatusInv
  <2>2. errno' \in {OK, EMFILE, ENOMEM} \cup Errnos \cup WriteErrnos
    BY <1>7 DEF disp_file, AfterWrites, StatusInv
  <2>3. /\ pc' # "exit" => status' = OK
        /\ status' \in {OK, 1}
    BY <1>7, <2>1 DEF disp_file, AfterShown, AfterError, StatusAfterError
  <2> QED
    BY <2>1, <2>2, <2>3 DEF StatusInv
<1>8. CASE UNCHANGED vars
  BY <1>8 DEF vars, StatusInv
<1> QED
  BY <1>1, <1>2, <1>3, <1>4, <1>5, <1>6, <1>7, <1>8, StepKinds, FileStepKinds

(* The process ends at most once, and with 0, 1 or an error of the system: *)
(* main implements Returns, but for the promise that it ends.              *)
THEOREM StartSeesOneReturn ==
  Spec => CallOfStart!Init /\ [][CallOfStart!Return]_(IF pc = "exit" THEN status ELSE NoStatus)
<1> DEFINE ret == IF pc = "exit" THEN status ELSE NoStatus
<1>1. Init => StatusInv /\ CallOfStart!Init
  BY DEF Init, OK, StatusInv, CallOfStart!Init
<1>2. StatusInv /\ [Next]_vars => StatusInv' /\ [CallOfStart!Return]_ret
  <2> SUFFICES ASSUME StatusInv, [Next]_vars PROVE StatusInv' /\ [CallOfStart!Return]_ret
    OBVIOUS
  <2>1. StatusInv' /\ (pc = "exit" => UNCHANGED <<pc, status>>)
    BY StepStatus
  <2> QED
    BY <2>1 DEF StatusInv, CallOfStart!Return
<1> QED
  BY <1>1, <1>2, PTL DEF Spec
=============================================================================
