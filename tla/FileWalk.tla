------------------------------ MODULE FileWalk -------------------------------
(***************************************************************************)
(* disp_file: how the tools find the objects inside one mapped file.  A    *)
(* window of the file is an object, a fat file with one window per         *)
(* architecture, or an archive with one window per member; fat files and   *)
(* archives call disp_file again (parsing.c, ranlib.c, headers.c).         *)
(*                                                                         *)
(* The C stack is the variable `stack`; it has room for StackLimit calls.  *)
(* What a window holds is revealed when disp_file looks at it: any kind of *)
(* content, any table of architectures, any member header, but the same    *)
(* again where a call in progress has looked already.  disp_object is the  *)
(* module ObjectWalk; here it is one step with any of its results.         *)
(*                                                                         *)
(* The offsets and sizes of a table are words: get_sub_mem adds them to    *)
(* the address of the window and looks at no carry, so that an entry can   *)
(* name a window outside the file, or the fat file itself.  Such a window  *)
(* is read like any other, until the process dies of it.                   *)
(***************************************************************************)
EXTENDS Naturals, Sequences

CONSTANTS
  Base,           \* the address the file is mapped at
  FileSizes,      \* the file sizes considered
  Word64,         \* 2^64, the modulus of addresses
  MachHeaderMin,  \* sizeof(t_mach_header)
  FatHeader,      \* sizeof(t_fat_header)
  FatArch,        \* sizeof(t_fat_arch) or of its 64-bit form
  ArMagic,        \* 8, the length of "!<arch>\n"
  ArHeader,       \* sizeof(t_ar_header)
  U32,            \* sizeof(u32)
  MaxLongName,    \* 256
  FatTables,      \* the architecture tables a fat file may hold
  Headers,        \* the member headers an archive may hold
  SymdefWords,    \* the length words a __.SYMDEF member may hold
  StackLimit      \* the calls of disp_file the C stack has room for

ASSUME SizesAssumption ==
  /\ {MachHeaderMin, FatHeader, FatArch, ArMagic, ArHeader, U32} \subseteq Nat \ {0}
  /\ {Base, MaxLongName} \subseteq Nat /\ {Word64, StackLimit} \subseteq Nat \ {0}
  /\ FileSizes \subseteq Nat /\ SymdefWords \subseteq Nat

(* An architecture is its cputype and the window it names; a member header *)
(* its terminator, the length of a "#1/" name (0 for a short name), whether *)
(* the name starts with __.SYMDEF, and the size field.                     *)
Word == 0 .. Word64 - 1

ASSUME ContentAssumption ==
  /\ FatTables \subseteq Seq([x86_64 : BOOLEAN, offset : Word, size : Word])
  /\ Headers \subseteq [ended : BOOLEAN, long : Nat, symdef : BOOLEAN, size : Nat]

(* The mapping lies so low in the address space that no address wraps when *)
(* the length of the file is added to an address inside it.                *)
ASSUME MappingAssumption == \A z \in FileSizes : Base + z + z < Word64

OK == 0
ERR_SILENT == 1
ERR_MAGIC == 132
ERR_MEM == 133
NoResult == 999     \* the function called last has not returned
Crashed == 998      \* and never will: the process was killed by a signal

VARIABLES
  file,     \* the mapping: address and size
  stack,    \* the calls in progress, the innermost first
  ret,      \* the result the innermost call has just been given back
  failures  \* history: the codes that disp_object, get_vm and checks gave
            \* outside every second pass over a fat file

vars == <<file, stack, ret, failures>>

Top == Head(stack)
Caller == Tail(stack)

Window == [data : Nat, size : Nat]

Inside(inner, outer) ==
  /\ inner.data >= outer.data
  /\ inner.size > 0 => inner.data + inner.size <= outer.data + outer.size

(* The first address behind a window.                                      *)
End(mem) == (mem.data + mem.size) % Word64

(* A wrong get_sub_mem: the size is believed.                              *)
get_sub_mem_unclamped(mem, offset, size) ==
  LET data == (mem.data + offset) % Word64
  IN  [data |-> data, size |-> IF data > End(mem) THEN 0 ELSE size]

(* get_sub_mem: the part of the window from offset on, cut at its end; no  *)
(* sum is checked for a carry.                                             *)
get_sub_mem(mem, offset, size) ==
  LET data == (mem.data + offset) % Word64
      end  == End(mem)
  IN  [data |-> data,
       size |-> IF data > end THEN 0
                ELSE IF (data + size) % Word64 > end THEN end - data ELSE size]

CHECK_LEN(mem, l) == l <= mem.size

(* A call of disp_file: its window, the target's show_cpu, and whether it  *)
(* was given the name of an archive.                                       *)
DispFile(mem, show_cpu, ar) ==
  [fun |-> "disp_file", mem |-> mem, show_cpu |-> show_cpu, ar |-> ar]

DispFat(mem, archs, i, all) ==
  [fun |-> "disp_fat", mem |-> mem, archs |-> archs, i |-> i, all |-> all]

(* stage: "first" until the first member is looked at, then "single" or    *)
(* "members"; offset: the member, or where it starts; full_len: its length. *)
DispRanlib(mem, show_cpu, stage, offset, full_len) ==
  [fun |-> "disp_ranlib", mem |-> mem, show_cpu |-> show_cpu, stage |-> stage,
   offset |-> offset, full_len |-> full_len]

Init ==
  /\ \E z \in FileSizes : file = [data |-> Base, size |-> z]
  /\ stack = <<DispFile(file, FALSE, FALSE)>>
  /\ ret = NoResult /\ failures = {}

Running(fun) == stack # << >> /\ ret = NoResult /\ Top.fun = fun
Returned(fun) == stack # << >> /\ ret \notin {NoResult, Crashed} /\ Top.fun = fun

Call(caller, callee) == stack' = <<callee, caller>> \o Caller /\ ret' = NoResult

(* A wrong call: the frame of the caller is left below.                    *)
GotoOnTop(frame) == stack' = <<frame>> \o stack /\ ret' = NoResult

Goto(frame) == stack' = <<frame>> \o Caller /\ ret' = NoResult
Return(code) == stack' = Caller /\ ret' = code

(* Some call in progress is the second pass over a fat file.               *)
SecondPass == \E k \in 1 .. Len(stack) : stack[k].fun = "disp_fat" /\ stack[k].all

(* A check of the innermost call, or disp_object, gave the code.           *)
Fail(code) ==
  /\ Return(code)
  /\ failures' = IF SecondPass THEN failures ELSE failures \cup {code}

(* disp_file has been entered, there was room for it on the C stack.       *)
Entered == Running("disp_file") /\ Len(stack) <= StackLimit

(* Where a call in progress has looked before, the file holds what it held *)
(* then.                                                                   *)
Holds(fun) ==
  \A k \in 2 .. Len(stack) : stack[k].mem.data = Top.mem.data => stack[k].fun = fun

(* The C stack is exhausted, or memory outside the mapping was read that   *)
(* is not there; if it is there, it holds anything.                        *)
Crash ==
  /\ stack # << >> /\ ret = NoResult
  /\ Len(stack) > StackLimit \/ ~Inside(Top.mem, file)
  /\ ret' = Crashed
  /\ UNCHANGED <<file, stack, failures>>
-----------------------------------------------------------------------------
(* get_vm: the window is too short for a header, or is nothing known.  An  *)
(* archive whose first member header is malformed is nothing known.        *)
TooShort ==
  /\ Entered /\ ~CHECK_LEN(Top.mem, MachHeaderMin)
  /\ Fail(ERR_MEM)
  /\ UNCHANGED file

Unknown ==
  /\ Entered /\ CHECK_LEN(Top.mem, MachHeaderMin) /\ Holds("disp_ranlib")
  /\ Fail(ERR_MAGIC)
  /\ UNCHANGED file

(* The header line that disp_filename prints for an object.                *)
Label(call) ==
  IF call.show_cpu THEN "architecture" ELSE IF call.ar THEN "member" ELSE "file"

(* disp_object displays the window of the call, under its label.           *)
DispObject(code) ==
  /\ Entered /\ CHECK_LEN(Top.mem, MachHeaderMin) /\ Holds("disp_object")
  /\ IF code = OK THEN Return(OK) /\ UNCHANGED failures ELSE Fail(code)
  /\ UNCHANGED file

-----------------------------------------------------------------------------
(* disp_fat: the table has to lie in the window.                           *)
FatTableFits(archs) == CHECK_LEN(Top.mem, FatHeader + Len(archs) * FatArch)

EnterFat(archs) ==
  /\ Entered /\ CHECK_LEN(Top.mem, MachHeaderMin) /\ Holds("disp_fat")
  /\ \A k \in 2 .. Len(stack) :
       stack[k].mem.data = Top.mem.data => stack[k].archs = archs
  /\ IF FatTableFits(archs)
     THEN Goto(DispFat(Top.mem, archs, 1, FALSE)) /\ UNCHANGED failures
     ELSE Fail(ERR_MEM)
  /\ UNCHANGED file

(* A wrong choice: the first entry, whatever it is.                        *)
WantedAny(arch, all) == TRUE

(* cpu == CPU_TYPE_X86_64 || all                                           *)
Wanted(arch, all) == arch.x86_64 \/ all

(* A wrong label: also when a single architecture is shown.                *)
ShowCpuAlways(call) == Len(call.archs) > 1

(* vm.target.show_cpu, for the calls this call makes.                      *)
ShowCpu(call) == Len(call.archs) > 1 /\ call.all

(* A wrong window: the offset of the architecture is not added.            *)
get_arch_map_at_zero(mem, arch) == get_sub_mem(mem, 0, arch.size)

(* The window of an architecture (get_arch_map).                           *)
get_arch_map(mem, arch) == get_sub_mem(mem, arch.offset, arch.size)

ShowArch ==
  /\ Running("disp_fat") /\ Top.i <= Len(Top.archs)
  /\ LET arch == Top.archs[Top.i]
     IN  IF Wanted(arch, Top.all)
         THEN Call(Top, DispFile(get_arch_map(Top.mem, arch), ShowCpu(Top), FALSE))
         ELSE Goto([Top EXCEPT !.i = @ + 1])
  /\ UNCHANGED <<file, failures>>

(* No x86_64 entry: disp_fat calls itself once more, to show all.          *)
StartAll ==
  /\ Running("disp_fat") /\ Top.i > Len(Top.archs) /\ ~Top.all
  /\ Goto([Top EXCEPT !.i = 1, !.all = TRUE])
  /\ UNCHANGED <<file, failures>>

EndAll ==
  /\ Running("disp_fat") /\ Top.i > Len(Top.archs) /\ Top.all
  /\ Return(OK)
  /\ UNCHANGED <<file, failures>>

(* The result of the second pass is dropped by its caller (line 123), that *)
(* of the first pass is not.                                               *)
ArchShown ==
  /\ Returned("disp_fat")
  /\ \/ Top.all  /\ ret = OK /\ Goto([Top EXCEPT !.i = @ + 1])
     \/ Top.all  /\ ret # OK /\ Return(OK)
     \/ ~Top.all /\ Return(ret)
  /\ UNCHANGED <<file, failures>>
-----------------------------------------------------------------------------
(* check_ranlib_header at offset pos, h being what lies there.             *)
check_ranlib_header(mem, pos, h) ==
  IF ~CHECK_LEN(mem, pos + ArHeader + U32) THEN ERR_MEM
  ELSE IF ~h.ended \/ h.long > MaxLongName THEN ERR_SILENT
  ELSE IF ~CHECK_LEN(mem, pos + ArHeader + h.long + U32) THEN ERR_MEM
  ELSE OK

HeaderLen(h) == h.long + ArHeader
FullLen(h) == h.size + ArHeader

(* get_vm and the start of disp_ranlib: the first member may be a symbol   *)
(* index; if it is not, it is the only one shown.                          *)
EnterArchive(h) ==
  /\ Entered /\ CHECK_LEN(Top.mem, MachHeaderMin) /\ Holds("disp_ranlib")
  /\ check_ranlib_header(Top.mem, ArMagic, h) = OK
  /\ Goto(DispRanlib(Top.mem, Top.show_cpu, IF h.symdef THEN "first" ELSE "single",
                     ArMagic + HeaderLen(h), 0))
  /\ UNCHANGED <<file, failures>>

(* The two tables of the index are skipped by their length words.          *)
SkipIndex(w1, w2) ==
  /\ Running("disp_ranlib") /\ Top.stage = "first"
  /\ LET second == Top.offset + w1 + U32
     IN  IF CHECK_LEN(Top.mem, Top.offset + U32) /\ CHECK_LEN(Top.mem, second + U32)
         THEN /\ Goto([Top EXCEPT !.stage = "members", !.offset = second + w2 + U32])
              /\ UNCHANGED failures
         ELSE Fail(ERR_MEM)
  /\ UNCHANGED file

(* disp_child: the window of a member reaches to the end of the archive.   *)
Child(offset) ==
  DispFile(get_sub_mem(Top.mem, offset, Top.mem.size), Top.show_cpu, TRUE)

SingleMember ==
  /\ Running("disp_ranlib") /\ Top.stage = "single"
  /\ Call(Top, Child(Top.offset))
  /\ UNCHANGED <<file, failures>>

Member(h) ==
  /\ Running("disp_ranlib") /\ Top.stage = "members" /\ Top.offset < Top.mem.size
  /\ LET code == check_ranlib_header(Top.mem, Top.offset, h)
     IN  IF code = OK
         THEN /\ Call([Top EXCEPT !.full_len = FullLen(h)],
                      Child(Top.offset + HeaderLen(h)))
              /\ UNCHANGED failures
         ELSE Fail(code)
  /\ UNCHANGED file

(* A wrong step: the loop does not go on to the next member.               *)
NextOffsetSame(call) == call.offset

(* offset += info.full_len                                                 *)
NextOffset(call) == call.offset + call.full_len

(* A wrong loop: the result of disp_child is not looked at.                *)
GoesOnAnyway(call) == call.stage = "members"

(* CHECK(disp_child(...)): the loop goes on if the member could be shown.  *)
GoesOn(call) == call.stage = "members" /\ ret = OK

MemberShown ==
  /\ Returned("disp_ranlib")
  /\ IF GoesOn(Top)
     THEN Goto([Top EXCEPT !.offset = NextOffset(Top)])
     ELSE Return(ret)
  /\ UNCHANGED <<file, failures>>

EndArchive ==
  /\ Running("disp_ranlib") /\ Top.stage = "members" /\ Top.offset >= Top.mem.size
  /\ Return(OK)
  /\ UNCHANGED <<file, failures>>

(* disp_file has returned to main, or the process is no more.              *)
Finished == (stack = << >> \/ ret = Crashed) /\ UNCHANGED vars
-----------------------------------------------------------------------------
ObjectResults == {OK, ERR_SILENT, ERR_MEM}

Next ==
  \/ Crash \/ TooShort \/ Unknown
  \/ \E code \in ObjectResults : DispObject(code)
  \/ \E archs \in FatTables : EnterFat(archs)
  \/ ShowArch \/ StartAll \/ EndAll \/ ArchShown
  \/ \E h \in Headers : EnterArchive(h) \/ Member(h)
  \/ \E w1, w2 \in SymdefWords : SkipIndex(w1, w2)
  \/ SingleMember \/ MemberShown \/ EndArchive
  \/ Finished

Spec == Init /\ [][Next]_vars /\ WF_vars(Next)
-----------------------------------------------------------------------------
Calls ==
  [fun : {"disp_file"}, mem : Window, show_cpu : BOOLEAN, ar : BOOLEAN]
  \cup [fun : {"disp_fat"}, mem : Window, archs : FatTables, i : Nat \ {0}, all : BOOLEAN]
  \cup [fun : {"disp_ranlib"}, mem : Window, show_cpu : BOOLEAN,
        stage : {"first", "single", "members"}, offset : Nat, full_len : Nat]

(* The calls in progress are well formed, and disp_file is the innermost.  *)
TypeOK ==
  /\ file \in [data : {Base}, size : FileSizes]
  /\ stack \in Seq(Calls)
  /\ \A k \in 2 .. Len(stack) : stack[k].fun # "disp_file"
  /\ ret \in {NoResult, Crashed, OK, ERR_SILENT, ERR_MAGIC, ERR_MEM}
  /\ (ret \notin {NoResult, Crashed} => stack = << >> \/ Top.fun # "disp_file")
  /\ failures \subseteq {ERR_SILENT, ERR_MAGIC, ERR_MEM}

(* The entry that a call of disp_fat is at makes an address wrap: that of  *)
(* its window, or, when that is inside, that of the window's end.          *)
Wraps(call) ==
  /\ call.fun = "disp_fat" /\ call.i \in DOMAIN call.archs
  /\ LET arch == call.archs[call.i]
          data == call.mem.data + arch.offset
     IN  \/ data >= Word64
         \/ data <= End(call.mem) /\ data + arch.size >= Word64

(* The entry names the fat file itself.                                    *)
NamesItself(call) ==
  /\ call.fun = "disp_fat" /\ call.i \in DOMAIN call.archs
  /\ call.archs[call.i].offset = 0

(* However files, archives and architecture tables are nested: the window  *)
(* of every call lies in that of its caller and in the file, and starts    *)
(* after that of its caller, unless the call was made, at whatever depth,  *)
(* for an entry that makes an address wrap, and but for an entry with      *)
(* offset 0, whose window starts where its fat file does.                  *)
WindowsNest ==
  /\ TypeOK
  /\ \A k \in 1 .. Len(stack) :
       (\A j \in k + 1 .. Len(stack) : ~Wraps(stack[j])) =>
         /\ Inside(stack[k].mem, file)
         /\ k < Len(stack) =>
              /\ Inside(stack[k].mem, stack[k + 1].mem)
              /\ \/ stack[k].mem.data > stack[k + 1].mem.data
                 \/ NamesItself(stack[k + 1])

(* The process is killed only while a call made for an entry that wraps or *)
(* that names its own fat file is in progress, or over a file longer than  *)
(* the C stack has room for calls: no other file makes disp_file read      *)
(* outside the mapping, or recurse for ever.                               *)
CrashesOnlyAstray ==
  ret = Crashed =>
    \/ \E k \in 2 .. Len(stack) : Wraps(stack[k]) \/ NamesItself(stack[k])
    \/ file.size >= StackLimit

(* All architectures are shown only when none is x86_64, each of them      *)
(* under its own name; otherwise the first x86_64 entry is the only one.   *)
OneOrAll ==
  \A k \in 1 .. Len(stack) :
    stack[k].fun = "disp_fat" =>
      LET call == stack[k]
          x86  == {j \in DOMAIN call.archs : call.archs[j].x86_64}
      IN  /\ call.all => x86 = {}
          /\ k > 1 /\ ~call.all => \A j \in x86 : call.i <= j
          /\ k > 1 /\ ~call.all => call.i \in x86

(* The result of disp_file is the one error that was found outside every   *)
(* second pass over a fat file, at whatever depth, or OK if there was      *)
(* none: an error ends the walk there and then, and only the errors of a   *)
(* second pass are dropped.                                                *)
ErrorsSurface == stack = << >> => failures = IF ret = OK THEN {} ELSE {ret}

(* An object is labelled with its architecture if and only if the nearest  *)
(* fat file around it has several and all are being shown: the flag is     *)
(* passed on by value, through the members of an archive as well.          *)
ArchitectureNamed ==
  Running("disp_file") =>
    LET fats == {k \in 1 .. Len(stack) : stack[k].fun = "disp_fat"}
    IN  Label(Top) = "architecture" <=>
          \E k \in fats : /\ \A j \in fats : k <= j
                         /\ stack[k].all /\ Len(stack[k].archs) > 1

Outcomes == {Crashed, OK, ERR_SILENT, ERR_MAGIC, ERR_MEM}

CallOfMain == INSTANCE Returns
  WITH ret <- IF stack = << >> \/ ret = Crashed THEN ret ELSE NoResult, Codes <- Outcomes

(* Whatever is nested in the file, the call that main makes has one        *)
(* outcome and has it some day: a code main knows, or the end of the       *)
(* process, which the recursion over an entry with offset 0 comes to when  *)
(* the C stack is full (CrashesOnlyAstray says when it may).               *)
ImplementsCall == CallOfMain!Spec
=============================================================================
