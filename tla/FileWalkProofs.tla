--------------------------- MODULE FileWalkProofs ----------------------------
(* What FileWalk promises for every file, however deep objects, archives   *)
(* and fat files are nested in it.                                         *)
EXTENDS FileWalk, SequenceTheorems, TLAPS

(* The facts about the constants, in the form the steps use them.          *)
LEMMA Constants ==
  /\ MachHeaderMin \in Nat \ {0} /\ ArMagic \in Nat \ {0} /\ ArHeader \in Nat \ {0}
  /\ U32 \in Nat \ {0} /\ FatHeader \in Nat /\ FatArch \in Nat
  /\ Base \in Nat /\ Word64 \in Nat \ {0} /\ MaxLongName \in Nat /\ StackLimit \in Nat \ {0}
  /\ \A z \in FileSizes : z \in Nat
  /\ \A w \in SymdefWords : w \in Nat
BY SizesAssumption

(* What disp_file may return.                                              *)
Codes == {OK, ERR_SILENT, ERR_MAGIC, ERR_MEM}

(* The entries of a fat file that are for x86_64.                          *)
X86(call) == {j \in DOMAIN call.archs : call.archs[j].x86_64}

(* What is true of every call in progress, also of those gone astray: a    *)
(* table or an archive is only entered when there is something to look at, *)
(* the single member of an archive starts inside it, and disp_fat has      *)
(* passed no x86_64 entry.                                                 *)
FrameOK(call) ==
  /\ call.fun # "disp_file" => call.mem.size > 0
  /\ call.fun = "disp_ranlib" /\ call.stage = "single" =>
       call.offset > 0 /\ call.offset <= call.mem.size
  /\ call.fun = "disp_fat" => /\ call.all => X86(call) = {}
                              /\ \A j \in X86(call) : call.i <= j

FramesOK == \A k \in 1 .. Len(stack) : FrameOK(stack[k])

(* A call and its caller.                                                  *)
Fits(call, caller) ==
  /\ Inside(call.mem, caller.mem)
  /\ call.mem.data > caller.mem.data \/ NamesItself(caller)

CallersWait ==
  \A k \in 2 .. Len(stack) : stack[k].fun = "disp_fat" /\ ~stack[k].all =>
                               stack[k].i \in X86(stack[k])

(* No entry on the way to the call at k makes an address wrap, or none     *)
(* does or names its own fat file.                                         *)
Tame(s, k) == \A j \in k + 1 .. Len(s) : ~Wraps(s[j])
Straight(s, k) == \A j \in k + 1 .. Len(s) : ~Wraps(s[j]) /\ ~NamesItself(s[j])

NestInv ==
  \A k \in 1 .. Len(stack) : Tame(stack, k) =>
    /\ Inside(stack[k].mem, file)
    /\ k < Len(stack) => Fits(stack[k], stack[k + 1])

(* Each call then starts at least one place after its caller.              *)
DepthInv ==
  \A k \in 1 .. Len(stack) : Straight(stack, k) =>
    stack[k].mem.data + k >= Base + Len(stack)

(* What the process dies of.                                               *)
CrashInv ==
  ret = Crashed => stack # << >> /\ (Len(stack) > StackLimit \/ ~Inside(Top.mem, file))

(* The nearest fat file below the call at k shows several architectures.   *)
Named(s, k) ==
  \E j \in k + 1 .. Len(s) : /\ s[j].fun = "disp_fat"
                             /\ \A m \in k + 1 .. j - 1 : s[m].fun # "disp_fat"
                             /\ s[j].all /\ Len(s[j].archs) > 1

LabelInv ==
  \A k \in 1 .. Len(stack) :
    stack[k].fun # "disp_fat" => (stack[k].show_cpu <=> Named(stack, k))

(* An error on its way to main: outside every second pass it is the one    *)
(* that has been noted.                                                    *)
ErrorInv ==
  /\ ret \in Codes \ {OK} /\ ~SecondPass => failures = {ret}
  /\ failures # {} => ret \in Codes \ {OK} /\ ~SecondPass /\ failures = {ret}
  /\ stack = << >> => ret \in Codes

WalkInv == FramesOK /\ CallersWait /\ NestInv /\ DepthInv /\ CrashInv
-----------------------------------------------------------------------------
(* The three kinds of calls, with the fields each has.                     *)
FileCalls == [fun : {"disp_file"}, mem : Window, show_cpu : BOOLEAN, ar : BOOLEAN]
FatCalls ==
  [fun : {"disp_fat"}, mem : Window, archs : FatTables, i : Nat \ {0}, all : BOOLEAN]
RanlibCalls ==
  [fun : {"disp_ranlib"}, mem : Window, show_cpu : BOOLEAN,
   stage : {"first", "single", "members"}, offset : Nat, full_len : Nat]

LEMMA CallKinds ==
  /\ Calls = FileCalls \cup FatCalls \cup RanlibCalls
  /\ \A c \in Calls : /\ c.mem \in Window
                      /\ c.fun = "disp_file" => c \in FileCalls
                      /\ c.fun = "disp_fat" => c \in FatCalls
                      /\ c.fun = "disp_ranlib" => c \in RanlibCalls
BY DEF Calls, FileCalls, FatCalls, RanlibCalls

(* What becomes of the stack when its first call is replaced by one or two *)
(* others, or is left out.                                                 *)
LEMMA StackTail ==
  ASSUME NEW S, NEW s \in Seq(S), s # << >>
  PROVE  /\ Head(s) = s[1] /\ Head(s) \in S /\ Len(s) \in Nat /\ Len(s) >= 1
         /\ Tail(s) \in Seq(S) /\ Len(Tail(s)) = Len(s) - 1
         /\ \A k \in 1 .. Len(s) - 1 : Tail(s)[k] = s[k + 1]
OBVIOUS

LEMMA StackReplace ==
  ASSUME NEW S, NEW s \in Seq(S), s # << >>, NEW a \in S
  PROVE  LET t == <<a>> \o Tail(s)
         IN  /\ t \in Seq(S) /\ Len(t) = Len(s) /\ t # << >>
             /\ t[1] = a /\ \A k \in 2 .. Len(s) : t[k] = s[k]
<1> DEFINE r == Tail(s)
<1>1. r \in Seq(S) /\ Len(r) = Len(s) - 1 /\ \A k \in 1 .. Len(s) - 1 : r[k] = s[k + 1]
  BY StackTail
<1>2. Len(s) \in Nat /\ Len(s) >= 1
  BY StackTail
<1> HIDE DEF r
<1> DEFINE t == <<a>> \o r
<1>3. /\ t \in Seq(S) /\ Len(t) = Len(r) + 1 /\ t[1] = a
      /\ \A k \in 2 .. Len(r) + 1 : t[k] = r[k - 1]
  BY <1>1
<1> HIDE DEF t
<1>4. \A k \in 2 .. Len(s) : t[k] = s[k]
  BY <1>1, <1>2, <1>3
<1>5. Len(t) = Len(s) /\ t # << >>
  BY <1>1, <1>2, <1>3
<1> QED
  BY <1>3, <1>4, <1>5 DEF t, r

LEMMA StackPush ==
  ASSUME NEW S, NEW s \in Seq(S), s # << >>, NEW a \in S, NEW b \in S
  PROVE  LET t == <<a, b>> \o Tail(s)
         IN  /\ t \in Seq(S) /\ Len(t) = Len(s) + 1 /\ t # << >>
             /\ t[1] = a /\ t[2] = b /\ \A k \in 3 .. Len(s) + 1 : t[k] = s[k - 1]
<1> DEFINE r == Tail(s)
<1>1. r \in Seq(S) /\ Len(r) = Len(s) - 1 /\ \A k \in 1 .. Len(s) - 1 : r[k] = s[k + 1]
  BY StackTail
<1>2. Len(s) \in Nat /\ Len(s) >= 1
  BY StackTail
<1> HIDE DEF r
<1> DEFINE t == <<a, b>> \o r
<1>3. /\ t \in Seq(S) /\ Len(t) = Len(r) + 2 /\ t[1] = a /\ t[2] = b
      /\ \A k \in 3 .. Len(r) + 2 : t[k] = r[k - 2]
  BY <1>1
<1> HIDE DEF t
<1>4. \A k \in 3 .. Len(s) + 1 : t[k] = s[k - 1]
  BY <1>1, <1>2, <1>3, SMTT(30)
<1>5. Len(t) = Len(s) + 1 /\ t # << >>
  BY <1>1, <1>2, <1>3
<1> QED
  BY <1>3, <1>4, <1>5 DEF t, r

(* get_sub_mem gives a window; it ends inside, provided that no address    *)
(* wraps, and starts later if the offset is not 0.                         *)
LEMMA SubMemWindow ==
  ASSUME NEW mem \in Window, NEW offset \in Nat, NEW len \in Nat
  PROVE  get_sub_mem(mem, offset, len) \in Window
<1> DEFINE data == (mem.data + offset) % Word64
<1>1. mem.data \in Nat /\ mem.size \in Nat /\ Word64 \in Nat \ {0}
  BY Constants DEF Window
<1>2. data \in Nat /\ End(mem) \in Nat
  BY <1>1 DEF End
<1> HIDE DEF data
<1>3. get_sub_mem(mem, offset, len) =
        [data |-> data, size |-> IF data > End(mem) THEN 0
                                 ELSE IF (data + len) % Word64 > End(mem) THEN End(mem) - data
                                 ELSE len]
  BY DEF get_sub_mem, data
<1> QED
  BY <1>2, <1>3 DEF Window

LEMMA SubMem ==
  ASSUME NEW mem \in Window, NEW offset \in Nat, NEW len \in Nat,
         mem.data + mem.size < Word64, mem.data + offset < Word64,
         mem.data + offset <= mem.data + mem.size => mem.data + offset + len < Word64
  PROVE  /\ Inside(get_sub_mem(mem, offset, len), mem)
         /\ offset > 0 => get_sub_mem(mem, offset, len).data > mem.data
<1> DEFINE data == mem.data + offset
           end  == mem.data + mem.size
<1>1. mem.data \in Nat /\ mem.size \in Nat /\ Word64 \in Nat \ {0}
  BY Constants DEF Window
<1>2. data \in Nat /\ end \in Nat /\ data < Word64 /\ end < Word64 /\ data >= mem.data
      /\ (offset > 0 => data > mem.data) /\ (data <= end => data + len < Word64)
  BY <1>1
<1>3. (mem.data + offset) % Word64 = data /\ End(mem) = end
  BY <1>1, <1>2 DEF End
<1> HIDE DEF data, end
<1>4. data <= end => (data + len) % Word64 = data + len
  BY <1>1, <1>2
<1>5. get_sub_mem(mem, offset, len) =
        [data |-> data, size |-> IF data > end THEN 0
                                 ELSE IF (data + len) % Word64 > end THEN end - data ELSE len]
  BY <1>3 DEF get_sub_mem
<1>6. CASE data > end
  BY <1>1, <1>2, <1>5, <1>6 DEF Inside
<1>7. CASE data <= end
  BY <1>1, <1>2, <1>4, <1>5, <1>7 DEF Inside, end
<1> QED
  BY <1>2, <1>6, <1>7

LEMMA InsideTrans ==
  ASSUME NEW a \in Window, NEW b \in Window, NEW c, c.data \in Nat, c.size \in Nat,
         Inside(a, b), Inside(b, c), b.size > 0
  PROVE  Inside(a, c)
BY DEF Inside, Window
-----------------------------------------------------------------------------
(* Every step does one of three things to the stack: the first call goes   *)
(* on, calls disp_file, or returns.                                        *)
Continues(f) ==
  /\ f \in Calls /\ f.fun # "disp_file" /\ f.mem = Top.mem /\ FrameOK(f)
  /\ f.fun = "disp_ranlib" => Top.fun # "disp_fat" /\ f.show_cpu = Top.show_cpu

CallsFile(caller, callee) ==
  /\ caller \in Calls /\ callee \in FileCalls
  /\ caller.fun = Top.fun /\ caller.fun # "disp_file" /\ caller.mem = Top.mem
  /\ FrameOK(caller) /\ (Inside(caller.mem, file) /\ ~Wraps(caller) => Fits(callee, caller))
  /\ caller.fun = "disp_fat" =>
       caller = Top /\ (~Top.all => Top.i \in X86(Top)) /\ callee.show_cpu = ShowCpu(Top)
  /\ caller.fun = "disp_ranlib" =>
       caller.show_cpu = Top.show_cpu /\ callee.show_cpu = Top.show_cpu

GoesOnStep == \E f \in Calls : Continues(f) /\ Goto(f)
CallStep == \E caller, callee \in Calls : CallsFile(caller, callee) /\ Call(caller, callee)
ReturnStep == \E code \in Codes : Return(code)

(* Or the process dies.                                                    *)
CrashStep ==
  /\ stack # << >> /\ stack' = stack /\ ret' = Crashed /\ ret = NoResult
  /\ Len(stack) > StackLimit \/ ~Inside(Top.mem, file)

LEMMA TopWindow ==
  ASSUME TypeOK, FramesOK, stack # << >>
  PROVE  /\ Top = stack[1] /\ Top \in Calls /\ FrameOK(Top)
         /\ Top.mem.data \in Nat /\ Top.mem.size \in Nat /\ Top.mem \in Window
         /\ file.data = Base /\ file.size \in FileSizes /\ file.size \in Nat
<1>1. Top = stack[1] /\ Top \in Calls /\ 1 \in 1 .. Len(stack)
  BY StackTail DEF TypeOK, Top
<1>2. FrameOK(Top)
  BY <1>1 DEF FramesOK
<1>3. Top.mem \in Window
  BY <1>1, CallKinds
<1>4. file.data = Base /\ file.size \in FileSizes
  BY DEF TypeOK
<1> QED
  BY <1>1, <1>2, <1>3, <1>4, Constants DEF Window

(* In a window inside the file no sum with its length wraps.               *)
LEMMA WindowBounds ==
  ASSUME TypeOK, NEW mem \in Window, Inside(mem, file), mem.size > 0
  PROVE  /\ mem.data \in Nat /\ mem.size \in Nat
         /\ mem.data + mem.size < Word64 /\ mem.data + mem.size + mem.size < Word64
<1>1. file.data = Base /\ file.size \in FileSizes /\ file.size \in Nat /\ Base \in Nat /\ Word64 \in Nat
  BY Constants DEF TypeOK
<1>2. Base + file.size + file.size < Word64
  BY <1>1, MappingAssumption
<1>3. mem.data \in Nat /\ mem.size \in Nat /\ mem.data >= Base /\ mem.data + mem.size <= Base + file.size
  BY <1>1 DEF Window, Inside
<1> QED
  BY <1>1, <1>2, <1>3

LEMMA EnterFatShape ==
  ASSUME TypeOK, FramesOK, NEW archs \in FatTables, EnterFat(archs)
  PROVE  GoesOnStep \/ ReturnStep
<1> DEFINE f == DispFat(Top.mem, archs, 1, FALSE)
<1>1. stack # << >> /\ Top.fun = "disp_file" /\ CHECK_LEN(Top.mem, MachHeaderMin)
  BY DEF EnterFat, Entered, Running
<1>2. /\ Top.mem \in Window /\ FrameOK(Top) /\ Top.mem.size \in Nat /\ Top.mem.size > 0
  BY <1>1, TopWindow, Constants DEF CHECK_LEN
<1>3. f \in Calls /\ f.fun = "disp_fat" /\ f.mem = Top.mem /\ f.archs = archs /\ f.i = 1 /\ f.all = FALSE
  BY <1>2 DEF DispFat, Calls
<1>4. \A j \in X86(f) : f.i <= j
  <2>1. archs \in Seq([x86_64 : BOOLEAN, offset : Word, size : Word])
    BY ContentAssumption
  <2>2. \A j \in DOMAIN archs : 1 <= j
    BY <2>1
  <2> QED
    BY <1>3, <2>2 DEF X86
<1> HIDE DEF f
<1>5. Continues(f)
  BY <1>2, <1>3, <1>4 DEF Continues, FrameOK
<1>6. Goto(f) \/ Return(ERR_MEM)
  BY DEF EnterFat, Fail, f
<1> QED
  BY <1>3, <1>5, <1>6 DEF GoesOnStep, ReturnStep, Codes

LEMMA ShowArchShape ==
  ASSUME TypeOK, FramesOK, ShowArch
  PROVE  GoesOnStep \/ CallStep
<1> DEFINE arch == Top.archs[Top.i]
<1>1. stack # << >> /\ Top.fun = "disp_fat" /\ Top.i <= Len(Top.archs)
  BY DEF ShowArch, Running
<1>2. Top \in FatCalls /\ FrameOK(Top) /\ Top \in Calls
  BY <1>1, TopWindow, CallKinds
<1>3. /\ Top.archs \in FatTables /\ Top.i \in DOMAIN Top.archs /\ Top.i \in Nat \ {0}
      /\ Top.all \in BOOLEAN /\ Top.archs \in Seq([x86_64 : BOOLEAN, offset : Word, size : Word])
  <2>1. Top.archs \in FatTables /\ Top.i \in Nat \ {0} /\ Top.all \in BOOLEAN
    BY <1>2 DEF FatCalls
  <2>2. Top.archs \in Seq([x86_64 : BOOLEAN, offset : Word, size : Word])
    BY <2>1, ContentAssumption
  <2> QED
    BY <1>1, <2>1, <2>2
<1>4. arch.offset \in Nat /\ arch.size \in Nat
  <2>1. arch \in [x86_64 : BOOLEAN, offset : Word, size : Word]
    BY <1>3, LenProperties, ElementOfSeq
  <2> QED
    BY <2>1, Constants DEF Word
<1>5. CASE Wanted(arch, Top.all)
  <2> DEFINE callee == DispFile(get_arch_map(Top.mem, arch), ShowCpu(Top), FALSE)
             mem    == get_sub_mem(Top.mem, arch.offset, arch.size)
  <2>1. Top.mem.size > 0
    BY <1>1, <1>2 DEF FrameOK
  <2>2. mem \in Window
    <3> HIDE DEF arch
    <3> QED
      BY <1>1, <1>4, TopWindow, SubMemWindow
  <2>3. ASSUME Inside(Top.mem, file), ~Wraps(Top)
        PROVE  Inside(mem, Top.mem) /\ (mem.data > Top.mem.data \/ NamesItself(Top))
    <3>1. Top.mem \in Window /\ Top.mem.data + Top.mem.size < Word64 /\ Word64 \in Nat \ {0}
          /\ Top.mem.data \in Nat /\ Top.mem.size \in Nat
      BY <1>1, <2>1, <2>3, TopWindow, WindowBounds, Constants
    <3>2. End(Top.mem) = Top.mem.data + Top.mem.size
      BY <3>1 DEF End
    <3>3. /\ Top.mem.data + arch.offset < Word64
          /\ Top.mem.data + arch.offset <= End(Top.mem) =>
               Top.mem.data + arch.offset + arch.size < Word64
      <4>1. ~(Top.mem.data + arch.offset >= Word64)
            /\ ~(Top.mem.data + arch.offset <= End(Top.mem)
                 /\ Top.mem.data + arch.offset + arch.size >= Word64)
        BY <1>1, <1>3, <2>3 DEF Wraps
      <4> HIDE DEF arch
      <4> QED
        BY <1>4, <3>1, <3>2, <4>1
    <3>4. arch.offset = 0 => NamesItself(Top)
      BY <1>1, <1>3 DEF NamesItself
    <3> HIDE DEF arch
    <3> QED
      BY <1>4, <3>1, <3>2, <3>3, <3>4, SubMem
  <2> HIDE DEF mem
  <2>4. ShowCpu(Top) \in BOOLEAN
    BY <1>3 DEF ShowCpu
  <2>5. callee \in FileCalls /\ callee.mem = mem /\ callee.show_cpu = ShowCpu(Top)
    BY <2>2, <2>4 DEF FileCalls, DispFile, get_arch_map, mem
  <2>6. ~Top.all => Top.i \in X86(Top)
    BY <1>3, <1>5 DEF Wanted, X86
  <2> HIDE DEF callee
  <2>7. CallsFile(Top, callee) /\ callee \in Calls
    BY <1>1, <1>2, <2>3, <2>5, <2>6, CallKinds DEF CallsFile, Fits
  <2>8. Call(Top, callee)
    BY <1>5 DEF ShowArch, callee
  <2> QED
    BY <1>2, <2>7, <2>8 DEF CallStep
<1>6. CASE ~Wanted(arch, Top.all)
  <2> DEFINE f == [Top EXCEPT !.i = @ + 1]
  <2>1. /\ f \in FatCalls /\ f.fun = "disp_fat" /\ f.mem = Top.mem /\ f.archs = Top.archs
        /\ f.i = Top.i + 1 /\ f.all = Top.all
    BY <1>2 DEF FatCalls
  <2>2. ~Top.all /\ Top.i \notin X86(Top)
    BY <1>6 DEF Wanted, X86
  <2>3. \A j \in X86(Top) : Top.i <= j /\ j \in Nat /\ j # Top.i
    BY <1>1, <1>2, <1>3, <2>2, SMTT(30) DEF FrameOK, X86
  <2> HIDE DEF f
  <2>4. X86(f) = X86(Top)
    BY <2>1 DEF X86
  <2>5. \A j \in X86(f) : f.i <= j
    BY <1>3, <2>1, <2>3, <2>4
  <2>6. Continues(f) /\ f \in Calls
    BY <1>1, <1>2, <2>1, <2>2, <2>5, CallKinds DEF Continues, FrameOK
  <2>7. Goto(f)
    BY <1>6 DEF ShowArch, f
  <2> QED
    BY <2>6, <2>7 DEF GoesOnStep
<1> QED
  BY <1>5, <1>6

LEMMA StartAllShape ==
  ASSUME TypeOK, FramesOK, StartAll
  PROVE  GoesOnStep
<1> DEFINE f == [Top EXCEPT !.i = 1, !.all = TRUE]
<1>1. stack # << >> /\ Top.fun = "disp_fat" /\ Top.i > Len(Top.archs) /\ ~Top.all
  BY DEF StartAll, Running
<1>2. Top \in FatCalls /\ FrameOK(Top) /\ Top \in Calls
  BY <1>1, TopWindow, CallKinds
<1>3. Top.archs \in Seq([x86_64 : BOOLEAN, offset : Word, size : Word]) /\ Top.i \in Nat
  BY <1>2, ContentAssumption DEF FatCalls
<1>4. X86(Top) = {}
  BY <1>1, <1>2, <1>3 DEF FrameOK, X86
<1>5. /\ f \in FatCalls /\ f.fun = "disp_fat" /\ f.mem = Top.mem /\ f.archs = Top.archs
  <2> DEFINE g == [Top EXCEPT !.i = 1]
  <2>1. g \in FatCalls /\ g.fun = "disp_fat" /\ g.mem = Top.mem /\ g.archs = Top.archs
    BY <1>2 DEF FatCalls
  <2>2. f = [g EXCEPT !.all = TRUE]
    BY <1>2 DEF FatCalls
  <2> HIDE DEF f, g
  <2> QED
    BY <2>1, <2>2 DEF FatCalls
<1>6. Goto(f)
  BY DEF StartAll
<1> HIDE DEF f
<1>7. X86(f) = {}
  BY <1>4, <1>5 DEF X86
<1>8. Continues(f) /\ f \in Calls
  BY <1>1, <1>2, <1>5, <1>6, <1>7, CallKinds DEF Continues, FrameOK
<1> QED
  BY <1>6, <1>8 DEF GoesOnStep

LEMMA ArchShownShape ==
  ASSUME TypeOK, FramesOK, ArchShown
  PROVE  GoesOnStep \/ ReturnStep
<1> DEFINE f == [Top EXCEPT !.i = @ + 1]
<1>1. stack # << >> /\ Top.fun = "disp_fat" /\ ret \in Codes
  BY DEF ArchShown, Returned, TypeOK, Codes
<1>2. Top \in FatCalls /\ FrameOK(Top) /\ Top \in Calls
  BY <1>1, TopWindow, CallKinds
<1>3. CASE Top.all /\ Goto(f)
  <2>1. /\ f \in FatCalls /\ f.fun = "disp_fat" /\ f.mem = Top.mem /\ f.archs = Top.archs
    BY <1>2 DEF FatCalls
  <2> HIDE DEF f
  <2>2. X86(f) = {}
    BY <1>1, <1>2, <1>3, <2>1 DEF X86, FrameOK
  <2>3. Continues(f) /\ f \in Calls
    BY <1>1, <1>2, <1>3, <2>1, <2>2, CallKinds DEF Continues, FrameOK
  <2> QED
    BY <1>3, <2>3 DEF GoesOnStep
<1> HIDE DEF f
<1> QED
  BY <1>1, <1>3 DEF ArchShown, ReturnStep, Codes, f

(* What a member header that passed the check says of its length.          *)
LEMMA RanlibHeader ==
  ASSUME NEW mem \in Window, NEW pos \in Nat, NEW h \in Headers
  PROVE  /\ check_ranlib_header(mem, pos, h) \in Codes
         /\ HeaderLen(h) \in Nat /\ HeaderLen(h) > 0 /\ FullLen(h) \in Nat
         /\ check_ranlib_header(mem, pos, h) = OK => pos + HeaderLen(h) <= mem.size
<1>1. /\ h.long \in Nat /\ h.size \in Nat /\ h.ended \in BOOLEAN /\ h.symdef \in BOOLEAN
      /\ mem.size \in Nat /\ ArHeader \in Nat \ {0} /\ U32 \in Nat
  BY Constants, ContentAssumption DEF Window
<1>2. check_ranlib_header(mem, pos, h) \in Codes
  BY DEF check_ranlib_header, Codes
<1>3. HeaderLen(h) \in Nat /\ HeaderLen(h) > 0 /\ FullLen(h) \in Nat
  BY <1>1 DEF HeaderLen, FullLen
<1>4. check_ranlib_header(mem, pos, h) = OK => pos + HeaderLen(h) <= mem.size
  BY <1>1 DEF check_ranlib_header, CHECK_LEN, HeaderLen, OK, ERR_MEM, ERR_SILENT
<1> QED
  BY <1>2, <1>3, <1>4

LEMMA EnterArchiveShape ==
  ASSUME TypeOK, FramesOK, NEW h \in Headers, EnterArchive(h)
  PROVE  GoesOnStep
<1> DEFINE stage == IF h.symdef THEN "first" ELSE "single"
           f == DispRanlib(Top.mem, Top.show_cpu, stage, ArMagic + HeaderLen(h), 0)
<1>1. /\ stack # << >> /\ Top.fun = "disp_file" /\ CHECK_LEN(Top.mem, MachHeaderMin)
      /\ check_ranlib_header(Top.mem, ArMagic, h) = OK
  BY DEF EnterArchive, Entered, Running
<1>2. /\ Top \in FileCalls /\ FrameOK(Top) /\ Top.mem \in Window /\ Top.mem.size > 0
  BY <1>1, TopWindow, CallKinds, Constants DEF CHECK_LEN
<1>3. /\ ArMagic \in Nat \ {0} /\ HeaderLen(h) \in Nat
      /\ ArMagic + HeaderLen(h) <= Top.mem.size /\ ArMagic + HeaderLen(h) \in Nat
      /\ ArMagic + HeaderLen(h) > 0
  BY <1>1, <1>2, RanlibHeader, Constants
<1>4. /\ f \in RanlibCalls /\ f.fun = "disp_ranlib" /\ f.mem = Top.mem
      /\ f.show_cpu = Top.show_cpu /\ f.offset = ArMagic + HeaderLen(h)
  BY <1>2, <1>3 DEF RanlibCalls, DispRanlib, FileCalls
<1>5. Goto(f)
  BY DEF EnterArchive
<1> HIDE DEF f
<1>6. Continues(f) /\ f \in Calls
  BY <1>1, <1>2, <1>3, <1>4, CallKinds DEF Continues, FrameOK
<1> QED
  BY <1>5, <1>6 DEF GoesOnStep

LEMMA SkipIndexShape ==
  ASSUME TypeOK, FramesOK, NEW w1 \in SymdefWords, NEW w2 \in SymdefWords, SkipIndex(w1, w2)
  PROVE  GoesOnStep \/ ReturnStep
<1> DEFINE offset == Top.offset + w1 + U32 + w2 + U32
           g == [Top EXCEPT !.stage = "members"]
           f == [Top EXCEPT !.stage = "members", !.offset = offset]
<1>1. stack # << >> /\ Top.fun = "disp_ranlib"
  BY DEF SkipIndex, Running
<1>2. Top \in RanlibCalls /\ FrameOK(Top)
  BY <1>1, TopWindow, CallKinds
<1>3. offset \in Nat
  BY <1>2, Constants DEF RanlibCalls
<1>4. Goto(f) \/ Return(ERR_MEM)
  BY DEF SkipIndex, Fail
<1> HIDE DEF offset
<1>5. /\ f \in RanlibCalls /\ f.fun = "disp_ranlib" /\ f.mem = Top.mem
      /\ f.show_cpu = Top.show_cpu /\ f.stage = "members"
  <2>1. /\ g \in RanlibCalls /\ g.fun = "disp_ranlib" /\ g.mem = Top.mem
        /\ g.show_cpu = Top.show_cpu /\ g.stage = "members"
    BY <1>2 DEF RanlibCalls
  <2>2. f = [g EXCEPT !.offset = offset]
    BY <1>2 DEF RanlibCalls
  <2> HIDE DEF f, g
  <2> QED
    BY <1>3, <2>1, <2>2 DEF RanlibCalls
<1> HIDE DEF f
<1>6. Continues(f) /\ f \in Calls
  BY <1>1, <1>2, <1>5, CallKinds DEF Continues, FrameOK
<1> QED
  BY <1>4, <1>6 DEF GoesOnStep, ReturnStep, Codes

(* The window of a member at an offset inside the archive.                 *)
LEMMA ChildShape ==
  ASSUME TypeOK, FramesOK, stack # << >>, Top.fun = "disp_ranlib", NEW offset \in Nat,
         offset > 0, offset <= Top.mem.size,
         NEW caller \in Calls, caller.fun = "disp_ranlib", caller.mem = Top.mem,
         caller.show_cpu = Top.show_cpu, FrameOK(caller)
  PROVE  CallsFile(caller, Child(offset)) /\ Child(offset) \in Calls
<1> DEFINE mem == get_sub_mem(Top.mem, offset, Top.mem.size)
<1>1. Top \in RanlibCalls /\ FrameOK(Top)
  BY TopWindow, CallKinds
<1>2. Top.mem.size > 0 /\ Top.mem.size \in Nat
  BY <1>1, TopWindow DEF FrameOK
<1>3. mem \in Window
  BY <1>2, TopWindow, SubMemWindow
<1>4. ASSUME Inside(Top.mem, file) PROVE Inside(mem, Top.mem) /\ mem.data > Top.mem.data
  <2>1. /\ Top.mem \in Window /\ Top.mem.data \in Nat /\ Word64 \in Nat
        /\ Top.mem.data + Top.mem.size < Word64 /\ Top.mem.data + Top.mem.size + Top.mem.size < Word64
    BY <1>2, <1>4, TopWindow, WindowBounds, Constants
  <2>2. /\ Top.mem.data + offset < Word64 /\ Top.mem.data + offset + Top.mem.size < Word64
    BY <1>2, <2>1
  <2> QED
    BY <1>2, <2>1, <2>2, SubMem
<1> HIDE DEF mem
<1>5. /\ Child(offset) \in FileCalls /\ Child(offset).mem = mem
      /\ Child(offset).show_cpu = Top.show_cpu
  BY <1>1, <1>3 DEF Child, DispFile, FileCalls, RanlibCalls, mem
<1> QED
  BY <1>4, <1>5, CallKinds DEF CallsFile, Fits

LEMMA SingleMemberShape ==
  ASSUME TypeOK, FramesOK, SingleMember
  PROVE  CallStep
<1>1. stack # << >> /\ Top.fun = "disp_ranlib" /\ Top.stage = "single"
  BY DEF SingleMember, Running
<1>2. Top \in RanlibCalls /\ FrameOK(Top) /\ Top \in Calls
  BY <1>1, TopWindow, CallKinds
<1>3. Top.offset \in Nat /\ Top.offset > 0 /\ Top.offset <= Top.mem.size
  BY <1>1, <1>2 DEF RanlibCalls, FrameOK
<1>4. CallsFile(Top, Child(Top.offset)) /\ Child(Top.offset) \in Calls
  BY <1>1, <1>2, <1>3, ChildShape
<1> QED
  BY <1>2, <1>4 DEF SingleMember, CallStep

LEMMA MemberShape ==
  ASSUME TypeOK, FramesOK, NEW h \in Headers, Member(h)
  PROVE  CallStep \/ ReturnStep
<1> DEFINE f == [Top EXCEPT !.full_len = FullLen(h)]
           code == check_ranlib_header(Top.mem, Top.offset, h)
<1>1. stack # << >> /\ Top.fun = "disp_ranlib" /\ Top.stage = "members"
  BY DEF Member, Running
<1>2. Top \in RanlibCalls /\ FrameOK(Top) /\ Top.mem \in Window
  BY <1>1, TopWindow, CallKinds
<1>3. Top.offset \in Nat
  BY <1>2 DEF RanlibCalls
<1>4. code \in Codes
  BY <1>2, <1>3, RanlibHeader
<1>5. CASE code = OK
  <2>1. /\ HeaderLen(h) \in Nat /\ HeaderLen(h) > 0 /\ FullLen(h) \in Nat
        /\ Top.offset + HeaderLen(h) <= Top.mem.size
    BY <1>2, <1>3, <1>5, RanlibHeader
  <2>2. /\ f \in RanlibCalls /\ f.fun = "disp_ranlib" /\ f.mem = Top.mem
        /\ f.show_cpu = Top.show_cpu /\ f.stage = Top.stage /\ f.offset = Top.offset
    BY <1>2, <2>1 DEF RanlibCalls
  <2>3. Call(f, Child(Top.offset + HeaderLen(h)))
    BY <1>5 DEF Member
  <2> HIDE DEF f
  <2>4. FrameOK(f) /\ f \in Calls
    BY <1>1, <1>2, <2>2, CallKinds DEF FrameOK
  <2> DEFINE offset == Top.offset + HeaderLen(h)
  <2>5. offset \in Nat /\ offset > 0 /\ offset <= Top.mem.size
    BY <1>3, <2>1
  <2> HIDE DEF offset
  <2>6. CallsFile(f, Child(offset)) /\ Child(offset) \in Calls
    BY <1>1, <2>2, <2>4, <2>5, ChildShape
  <2> QED
    BY <2>3, <2>4, <2>6 DEF CallStep, offset
<1>6. CASE code # OK
  BY <1>4, <1>6 DEF Member, Fail, ReturnStep
<1> QED
  BY <1>5, <1>6

LEMMA MemberShownShape ==
  ASSUME TypeOK, FramesOK, MemberShown
  PROVE  GoesOnStep \/ ReturnStep
<1> DEFINE f == [Top EXCEPT !.offset = NextOffset(Top)]
<1>1. stack # << >> /\ Top.fun = "disp_ranlib" /\ ret \in Codes
  BY DEF MemberShown, Returned, TypeOK, Codes
<1>2. Top \in RanlibCalls /\ FrameOK(Top)
  BY <1>1, TopWindow, CallKinds
<1>3. CASE GoesOn(Top)
  <2>1. NextOffset(Top) \in Nat
    BY <1>2 DEF NextOffset, RanlibCalls
  <2>2. /\ f \in RanlibCalls /\ f.fun = "disp_ranlib" /\ f.mem = Top.mem
        /\ f.show_cpu = Top.show_cpu /\ f.stage = "members"
    BY <1>2, <1>3, <2>1 DEF RanlibCalls, GoesOn
  <2>3. Goto(f)
    BY <1>3 DEF MemberShown
  <2> HIDE DEF f
  <2>4. Continues(f) /\ f \in Calls
    BY <1>1, <1>2, <2>2, CallKinds DEF Continues, FrameOK
  <2> QED
    BY <2>3, <2>4 DEF GoesOnStep
<1>4. CASE ~GoesOn(Top)
  BY <1>1, <1>4 DEF MemberShown, ReturnStep
<1> QED
  BY <1>3, <1>4

(* The shape of every step; the file never changes.                        *)
LEMMA StepShape ==
  ASSUME TypeOK, FramesOK, [Next]_vars
  PROVE  /\ file' = file
         /\ \/ stack' = stack /\ ret' = ret
            \/ CrashStep
            \/ stack # << >> /\ ret # Crashed /\ (GoesOnStep \/ CallStep \/ ReturnStep)
<1>a. NoResult # Crashed
  BY DEF NoResult, Crashed
<1>0. CASE Crash
  BY <1>0 DEF Crash, CrashStep
<1>1. CASE TooShort \/ Unknown
  BY <1>a, <1>1 DEF TooShort, Unknown, Entered, Running, Fail, ReturnStep, Codes
<1>2. ASSUME NEW code \in ObjectResults, DispObject(code)
      PROVE  file' = file /\ ReturnStep /\ stack # << >> /\ ret # Crashed
  BY <1>a, <1>2 DEF DispObject, Entered, Running, Fail, ReturnStep, Codes, ObjectResults
<1>3. ASSUME NEW archs \in FatTables, EnterFat(archs)
      PROVE  file' = file /\ stack # << >> /\ ret # Crashed /\ (GoesOnStep \/ ReturnStep)
  BY <1>a, <1>3, EnterFatShape DEF EnterFat, Entered, Running
<1>4. CASE ShowArch
  BY <1>a, <1>4, ShowArchShape DEF ShowArch, Running
<1>5. CASE StartAll
  BY <1>a, <1>5, StartAllShape DEF StartAll, Running
<1>6. CASE EndAll \/ EndArchive
  BY <1>a, <1>6 DEF EndAll, EndArchive, Running, ReturnStep, Codes
<1>7. CASE ArchShown
  BY <1>a, <1>7, ArchShownShape DEF ArchShown, Returned
<1>8. ASSUME NEW h \in Headers, EnterArchive(h)
      PROVE  file' = file /\ stack # << >> /\ ret # Crashed /\ GoesOnStep
  BY <1>a, <1>8, EnterArchiveShape DEF EnterArchive, Entered, Running
<1>9. ASSUME NEW h \in Headers, Member(h)
      PROVE  file' = file /\ stack # << >> /\ ret # Crashed /\ (CallStep \/ ReturnStep)
  BY <1>a, <1>9, MemberShape DEF Member, Running
<1>10. ASSUME NEW w1 \in SymdefWords, NEW w2 \in SymdefWords, SkipIndex(w1, w2)
      PROVE  file' = file /\ stack # << >> /\ ret # Crashed /\ (GoesOnStep \/ ReturnStep)
  BY <1>a, <1>10, SkipIndexShape DEF SkipIndex, Running
<1>11. CASE SingleMember
  BY <1>a, <1>11, SingleMemberShape DEF SingleMember, Running
<1>12. CASE MemberShown
  BY <1>a, <1>12, MemberShownShape DEF MemberShown, Returned
<1>13. CASE UNCHANGED vars
  BY <1>13 DEF vars
<1> QED
  BY <1>0, <1>1, <1>2, <1>3, <1>4, <1>5, <1>6, <1>7, <1>8, <1>9, <1>10, <1>11, <1>12, <1>13
     DEF Next, Finished
-----------------------------------------------------------------------------
(* The stack after each of the three kinds of steps.                       *)
LEMMA GoesOnStack ==
  ASSUME TypeOK, stack # << >>, NEW f \in Calls, Goto(f)
  PROVE  /\ stack' \in Seq(Calls) /\ stack' # << >> /\ Len(stack') = Len(stack)
         /\ Len(stack) \in Nat /\ Len(stack) >= 1 /\ stack'[1] = f
         /\ \A k \in 2 .. Len(stack) : stack'[k] = stack[k]
         /\ ret' = NoResult
BY StackReplace, StackTail DEF TypeOK, Goto, Caller

LEMMA CallStack ==
  ASSUME TypeOK, stack # << >>, NEW caller \in Calls, NEW callee \in Calls, Call(caller, callee)
  PROVE  /\ stack' \in Seq(Calls) /\ stack' # << >> /\ Len(stack') = Len(stack) + 1
         /\ Len(stack) \in Nat /\ Len(stack) >= 1 /\ stack'[1] = callee /\ stack'[2] = caller
         /\ \A k \in 3 .. Len(stack) + 1 : stack'[k] = stack[k - 1]
         /\ ret' = NoResult
BY StackPush, StackTail DEF TypeOK, Call, Caller

LEMMA ReturnStack ==
  ASSUME TypeOK, stack # << >>, ReturnStep
  PROVE  /\ stack' \in Seq(Calls) /\ Len(stack') = Len(stack) - 1
         /\ Len(stack) \in Nat /\ Len(stack) >= 1
         /\ \A k \in 1 .. Len(stack) - 1 : stack'[k] = stack[k + 1]
         /\ ret' \in Codes
BY StackTail DEF TypeOK, ReturnStep, Return, Caller

(* The codes that are noted.                                               *)
LEMMA StepHistory ==
  ASSUME TypeOK, [Next]_vars
  PROVE  failures' \subseteq {ERR_SILENT, ERR_MAGIC, ERR_MEM}
<1> USE DEF TypeOK
<1>1. CASE Crash \/ TooShort \/ Unknown \/ (\E code \in ObjectResults : DispObject(code))
  BY <1>1 DEF Crash, TooShort, Unknown, DispObject, Fail, ObjectResults
<1>2. CASE \E archs \in FatTables : EnterFat(archs)
  <2>1. UNCHANGED failures \/ Fail(ERR_MEM)
    BY <1>2 DEF EnterFat
  <2> QED
    BY <2>1 DEF Fail
<1>3. CASE ShowArch \/ StartAll \/ EndAll \/ ArchShown \/ SingleMember \/ MemberShown \/ EndArchive
  BY <1>3 DEF ShowArch, StartAll, EndAll, ArchShown, SingleMember, MemberShown, EndArchive
<1>4. CASE \E h \in Headers : EnterArchive(h) \/ Member(h)
  BY <1>4 DEF EnterArchive, Member, Fail, check_ranlib_header, OK
<1>5. CASE \E w1, w2 \in SymdefWords : SkipIndex(w1, w2)
  BY <1>5 DEF SkipIndex, Fail
<1>6. CASE UNCHANGED vars
  BY <1>6 DEF vars
<1> QED
  BY <1>1, <1>2, <1>3, <1>4, <1>5, <1>6 DEF Next, Finished

LEMMA InitTypeOK == Init => TypeOK /\ FramesOK
<1> SUFFICES ASSUME Init PROVE TypeOK /\ FramesOK
  OBVIOUS
<1>1. file \in [data : {Base}, size : FileSizes] /\ file \in Window
  BY Constants DEF Init, Window
<1> DEFINE call == DispFile(file, FALSE, FALSE)
<1>2. call \in Calls /\ call.fun = "disp_file" /\ call.mem = file
  BY <1>1 DEF DispFile, Calls
<1>3. stack = <<call>>
  BY DEF Init
<1> HIDE DEF call
<1>5. /\ stack \in Seq(Calls) /\ Len(stack) = 1 /\ stack[1] = call
      /\ \A k \in 1 .. Len(stack) : stack[k] = call
  BY <1>2, <1>3
<1>6. FrameOK(call)
  BY <1>2 DEF FrameOK
<1>7. FramesOK
  BY <1>5, <1>6 DEF FramesOK
<1>8. ret = NoResult /\ failures = {}
  BY DEF Init
<1>9. \A k \in 2 .. Len(stack) : stack[k].fun # "disp_file"
  BY <1>5
<1> QED
  BY <1>1, <1>5, <1>7, <1>8, <1>9 DEF TypeOK

LEMMA StepTypeOK ==
  ASSUME TypeOK, FramesOK, [Next]_vars PROVE TypeOK'
<1>1. file' \in [data : {Base}, size : FileSizes]
  BY StepShape DEF TypeOK
<1>2. failures' \subseteq {ERR_SILENT, ERR_MAGIC, ERR_MEM}
  BY StepHistory
<1>3. CASE stack' = stack /\ (ret' = ret \/ CrashStep)
  <2>1. (Top.fun)' = Top.fun
    BY <1>3 DEF Top
  <2> QED
    BY <1>1, <1>2, <1>3, <2>1 DEF TypeOK, CrashStep
<1>4. ASSUME stack # << >>, NEW f \in Calls, Continues(f), Goto(f) PROVE TypeOK'
  <2>1. /\ stack' \in Seq(Calls) /\ Len(stack') = Len(stack) /\ ret' = NoResult
        /\ \A k \in 2 .. Len(stack) : stack'[k] = stack[k]
    BY <1>4, GoesOnStack
  <2> QED
    BY <1>1, <1>2, <2>1 DEF TypeOK
<1>5. ASSUME stack # << >>, NEW caller \in Calls, NEW callee \in Calls,
             CallsFile(caller, callee), Call(caller, callee)
      PROVE  TypeOK'
  <2>1. /\ stack' \in Seq(Calls) /\ Len(stack') = Len(stack) + 1 /\ ret' = NoResult
        /\ stack'[2] = caller /\ Len(stack) \in Nat
        /\ \A k \in 3 .. Len(stack) + 1 : stack'[k] = stack[k - 1]
    BY <1>5, CallStack
  <2>2. ASSUME NEW k \in 2 .. Len(stack') PROVE stack'[k].fun # "disp_file"
    <3>1. CASE k = 2
      BY <1>5, <2>1, <3>1 DEF CallsFile
    <3>2. CASE k \in 3 .. Len(stack) + 1
      <4>1. stack'[k] = stack[k - 1] /\ k - 1 \in 2 .. Len(stack)
        BY <2>1, <3>2
      <4> QED
        BY <4>1 DEF TypeOK
    <3> QED
      BY <2>1, <3>1, <3>2
  <2> QED
    BY <1>1, <1>2, <2>1, <2>2 DEF TypeOK
<1>6. CASE stack # << >> /\ ReturnStep
  <2>1. /\ stack' \in Seq(Calls) /\ Len(stack') = Len(stack) - 1 /\ ret' \in Codes
        /\ Len(stack) \in Nat
        /\ \A k \in 1 .. Len(stack) - 1 : stack'[k] = stack[k + 1]
    BY <1>6, ReturnStack
  <2>2. ASSUME NEW k \in 1 .. Len(stack') PROVE stack'[k].fun # "disp_file"
    <3>1. stack'[k] = stack[k + 1] /\ k + 1 \in 2 .. Len(stack)
      BY <2>1
    <3> QED
      BY <3>1 DEF TypeOK
  <2>3. stack' # << >> => Top'.fun # "disp_file"
    <3> SUFFICES ASSUME stack' # << >> PROVE Top'.fun # "disp_file"
      OBVIOUS
    <3>1. Top' = stack'[1] /\ 1 \in 1 .. Len(stack')
      BY <2>1, StackTail DEF Top
    <3> QED
      BY <2>2, <3>1
  <2>4. \A k \in 2 .. Len(stack') : k \in 1 .. Len(stack')
    OBVIOUS
  <2> QED
    BY <1>1, <1>2, <2>1, <2>2, <2>3, <2>4 DEF TypeOK, Codes
<1> QED
  BY <1>3, <1>4, <1>5, <1>6, StepShape DEF GoesOnStep, CallStep, CrashStep

LEMMA StepFramesOK ==
  ASSUME TypeOK, FramesOK, [Next]_vars PROVE FramesOK'
<1>0. \A c : FrameOK(c)' <=> FrameOK(c)
  BY StepShape DEF FrameOK, X86
<1>1. CASE stack' = stack
  BY <1>0, <1>1 DEF FramesOK
<1>2. ASSUME stack # << >>, NEW f \in Calls, Continues(f), Goto(f) PROVE FramesOK'
  <2>1. FrameOK(f)
    BY <1>2 DEF Continues
  <2>2. ASSUME NEW k \in 1 .. Len(stack') PROVE FrameOK(stack'[k])
    <3>1. stack'[k] = IF k = 1 THEN f ELSE stack[k]
      BY <1>2, GoesOnStack
    <3>2. k \in 1 .. Len(stack)
      BY <1>2, GoesOnStack
    <3> QED
      BY <2>1, <3>1, <3>2 DEF FramesOK
  <2> QED
    BY <1>0, <2>2 DEF FramesOK
<1>3. ASSUME stack # << >>, NEW caller \in Calls, NEW callee \in Calls,
             CallsFile(caller, callee), Call(caller, callee)
      PROVE  FramesOK'
  <2>1. FrameOK(caller) /\ FrameOK(callee)
    BY <1>3 DEF CallsFile, FrameOK, FileCalls
  <2>2. ASSUME NEW k \in 1 .. Len(stack') PROVE FrameOK(stack'[k])
    <3>1. CASE k \in {1, 2}
      BY <1>3, <2>1, <3>1, CallStack
    <3>2. CASE k \in 3 .. Len(stack) + 1
      <4>1. stack'[k] = stack[k - 1] /\ k - 1 \in 1 .. Len(stack)
        BY <1>3, <3>2, CallStack
      <4> QED
        BY <4>1 DEF FramesOK
    <3> QED
      BY <1>3, <3>1, <3>2, CallStack
  <2> QED
    BY <1>0, <2>2 DEF FramesOK
<1>4. CASE stack # << >> /\ ReturnStep
  <2>1. ASSUME NEW k \in 1 .. Len(stack') PROVE FrameOK(stack'[k])
    <3>1. stack'[k] = stack[k + 1] /\ k + 1 \in 1 .. Len(stack)
      BY <1>4, ReturnStack
    <3> QED
      BY <3>1 DEF FramesOK
  <2> QED
    BY <1>0, <2>1 DEF FramesOK
<1> QED
  BY <1>1, <1>2, <1>3, <1>4, StepShape DEF GoesOnStep, CallStep, CrashStep

LEMMA InitNest == Init => NestInv /\ DepthInv /\ CrashInv /\ CallersWait
<1> SUFFICES ASSUME Init PROVE NestInv /\ DepthInv /\ CrashInv /\ CallersWait
  OBVIOUS
<1>1. file \in [data : {Base}, size : FileSizes] /\ file.data = Base /\ file.size \in Nat /\ Base \in Nat
  BY Constants DEF Init
<1> DEFINE call == DispFile(file, FALSE, FALSE)
<1>2. stack = <<call>> /\ ret = NoResult /\ call.mem = file
  BY DEF Init, DispFile
<1> HIDE DEF call
<1>3. Len(stack) = 1 /\ stack[1] = call /\ \A k \in 1 .. Len(stack) : k = 1
  BY <1>2
<1>4. Inside(file, file)
  BY <1>1 DEF Inside
<1>5. NestInv
  BY <1>2, <1>3, <1>4 DEF NestInv
<1>6. DepthInv
  BY <1>1, <1>2, <1>3 DEF DepthInv
<1> QED
  BY <1>2, <1>3, <1>5, <1>6 DEF CrashInv, CallersWait, NoResult, Crashed

(* What lies below a call depends only on the calls below.                 *)
LEMMA TameMoves ==
  ASSUME NEW s, NEW t, NEW k \in Nat, NEW d \in Int, k + d \in Nat,
         Len(s) \in Nat, Len(t) = Len(s) + d,
         \A j \in k + 1 .. Len(s) : t[j + d] = s[j]
  PROVE  /\ Tame(t, k + d) => Tame(s, k)
         /\ Straight(t, k + d) => Straight(s, k)
<1>1. \A j \in k + 1 .. Len(s) : j + d \in (k + d) + 1 .. Len(t)
  OBVIOUS
<1> QED
  BY <1>1 DEF Tame, Straight

LEMMA TameBelow ==
  ASSUME NEW s, NEW k \in Nat, Len(s) \in Nat, k < Len(s)
  PROVE  /\ Tame(s, k) => ~Wraps(s[k + 1]) /\ Tame(s, k + 1)
         /\ Straight(s, k) => ~Wraps(s[k + 1]) /\ ~NamesItself(s[k + 1]) /\ Straight(s, k + 1)
<1>1. k + 1 \in k + 1 .. Len(s) /\ \A j \in (k + 1) + 1 .. Len(s) : j \in k + 1 .. Len(s)
  OBVIOUS
<1> QED
  BY <1>1 DEF Tame, Straight

LEMMA StepNestInv ==
  ASSUME TypeOK, FramesOK, NestInv, [Next]_vars PROVE NestInv'
<1>0. file' = file
  BY StepShape
<1> DEFINE Nests(s, k) ==
             Tame(s, k) => Inside(s[k].mem, file) /\ (k < Len(s) => Fits(s[k], s[k + 1]))
<1>a. \A k \in 1 .. Len(stack) : Nests(stack, k)
  BY DEF NestInv
<1>1. ASSUME stack' = stack PROVE \A k \in 1 .. Len(stack') : Nests(stack', k)
  BY <1>a, <1>1
<1>2. ASSUME stack # << >>, NEW f \in Calls, Continues(f), Goto(f), NEW k \in 1 .. Len(stack')
      PROVE  Nests(stack', k)
  <2>1. /\ Len(stack') = Len(stack) /\ Len(stack) \in Nat /\ stack'[1] = f
        /\ \A j \in 2 .. Len(stack) : stack'[j] = stack[j]
    BY <1>2, GoesOnStack
  <2>2. f.mem = stack[1].mem
    BY <1>2, TopWindow DEF Continues
  <2>3. Tame(stack', k) => Tame(stack, k)
    <3>1. /\ k \in Nat /\ 0 \in Int /\ k + 0 \in Nat /\ k + 0 = k /\ Len(stack') = Len(stack) + 0
          /\ \A j \in k + 1 .. Len(stack) : stack'[j + 0] = stack[j]
      BY <2>1
    <3>2. Tame(stack', k + 0) => Tame(stack, k)
      BY <2>1, <3>1, TameMoves
    <3> QED
      BY <3>1, <3>2
  <2>4. stack'[k].mem = stack[k].mem /\ (k < Len(stack) => stack'[k + 1] = stack[k + 1])
    BY <2>1, <2>2
  <2>5. Nests(stack, k)
    BY <1>a, <2>1
  <2> QED
    BY <2>1, <2>3, <2>4, <2>5 DEF Fits
<1>3. ASSUME stack # << >>, NEW caller \in Calls, NEW callee \in Calls,
             CallsFile(caller, callee), Call(caller, callee), NEW k \in 1 .. Len(stack')
      PROVE  Nests(stack', k)
  <2>1. /\ stack'[1] = callee /\ stack'[2] = caller /\ Len(stack) \in Nat /\ Len(stack) >= 1
        /\ Len(stack') = Len(stack) + 1
        /\ \A j \in 3 .. Len(stack) + 1 : stack'[j] = stack[j - 1]
    BY <1>3, CallStack
  <2>2. caller.mem = stack[1].mem
    BY <1>3, TopWindow DEF CallsFile
  <2>3. ASSUME NEW n \in 1 .. Len(stack) PROVE Nests(stack', n + 1)
    <3>1. \A j \in n + 1 .. Len(stack) : stack'[j + 1] = stack[j]
      <4> SUFFICES ASSUME NEW j \in n + 1 .. Len(stack) PROVE stack'[j + 1] = stack[j]
        OBVIOUS
      <4>1. j + 1 \in 3 .. Len(stack) + 1 /\ (j + 1) - 1 = j
        BY <2>1
      <4> QED
        BY <2>1, <4>1
    <3>2. Tame(stack', n + 1) => Tame(stack, n)
      <4>1. n \in Nat /\ n + 1 \in Nat /\ 1 \in Int
        OBVIOUS
      <4> QED
        BY <2>1, <3>1, <4>1, TameMoves
    <3>3. stack'[n + 1].mem = stack[n].mem
      <4>1. n = 1 \/ (n + 1 \in 3 .. Len(stack) + 1 /\ (n + 1) - 1 = n)
        BY <2>1
      <4> QED
        BY <2>1, <2>2, <4>1
    <3>4. n < Len(stack) => stack'[(n + 1) + 1] = stack[n + 1]
      BY <2>1, <3>1
    <3>5. Nests(stack, n)
      BY <1>a
    <3>6. n + 1 < Len(stack') => n < Len(stack)
      BY <2>1
    <3> QED
      BY <3>2, <3>3, <3>4, <3>5, <3>6 DEF Fits
  <2>4. CASE k = 1
    <3> SUFFICES ASSUME Tame(stack', 1) PROVE Inside(callee.mem, file) /\ Fits(callee, caller)
      BY <2>1, <2>4
    <3>1. ~Wraps(caller) /\ Tame(stack', 2)
      BY <2>1, TameBelow
    <3>2. Inside(caller.mem, file)
      <4>1. Nests(stack', 2)
        BY <2>1, <2>3
      <4> QED
        BY <2>1, <3>1, <4>1
    <3>3. Fits(callee, caller)
      BY <1>3, <3>1, <3>2 DEF CallsFile
    <3>4. callee.mem \in Window /\ caller.mem \in Window /\ caller.mem.size > 0
      BY <1>3, CallKinds DEF CallsFile, FrameOK
    <3>5. Inside(callee.mem, file)
      <4>1. file.data \in Nat /\ file.size \in Nat
        BY <1>3, TopWindow, Constants
      <4> QED
        BY <3>2, <3>3, <3>4, <4>1, InsideTrans DEF Fits
    <3> QED
      BY <3>3, <3>5
  <2>5. CASE k # 1
    <3>1. k - 1 \in 1 .. Len(stack) /\ (k - 1) + 1 = k
      BY <2>1, <2>5
    <3> HIDE DEF Nests
    <3>2. Nests(stack', (k - 1) + 1)
      BY <2>3, <3>1
    <3> QED
      BY <3>1, <3>2
  <2> QED
    BY <2>4, <2>5
<1>4. ASSUME stack # << >>, ReturnStep, NEW k \in 1 .. Len(stack') PROVE Nests(stack', k)
  <2>1. /\ Len(stack') = Len(stack) - 1 /\ Len(stack) \in Nat /\ Len(stack) >= 1
        /\ \A j \in 1 .. Len(stack) - 1 : stack'[j] = stack[j + 1]
    BY <1>4, ReturnStack
  <2>2. k \in Nat /\ k + 1 \in 1 .. Len(stack) /\ stack'[k] = stack[k + 1]
    BY <2>1
  <2>3. k < Len(stack') => stack'[k + 1] = stack[(k + 1) + 1] /\ k + 1 < Len(stack)
    BY <2>1
  <2>4. Tame(stack', k) => Tame(stack, k + 1)
    <3> DEFINE n == k + 1
               d == -1
    <3>1. n \in Nat /\ d \in Int /\ n + d = k /\ n + d \in Nat /\ Len(stack') = Len(stack) + d
      BY <2>1, <2>2
    <3>2. \A j \in n + 1 .. Len(stack) : stack'[j + d] = stack[j]
      <4> SUFFICES ASSUME NEW j \in n + 1 .. Len(stack) PROVE stack'[j + d] = stack[j]
        OBVIOUS
      <4>1. j - 1 \in 1 .. Len(stack) - 1 /\ (j - 1) + 1 = j /\ j + d = j - 1
        BY <2>1
      <4> QED
        BY <2>1, <4>1
    <3> HIDE DEF n, d
    <3>3. Tame(stack', n + d) => Tame(stack, n)
      BY <2>1, <3>1, <3>2, TameMoves
    <3> QED
      BY <3>1, <3>3 DEF n
  <2>5. Nests(stack, k + 1)
    BY <1>a, <2>2
  <2> QED
    BY <2>2, <2>3, <2>4, <2>5
<1>5. \A k \in 1 .. Len(stack') : Nests(stack', k)
  <2> HIDE DEF Nests
  <2> QED
    BY <1>1, <1>2, <1>3, <1>4, StepShape DEF GoesOnStep, CallStep, CrashStep
<1> QED
  BY <1>0, <1>5 DEF NestInv, Tame

LEMMA StepDepthInv ==
  ASSUME TypeOK, FramesOK, NestInv, DepthInv, [Next]_vars PROVE DepthInv'
<1> DEFINE Far(s, k) == Straight(s, k) => s[k].mem.data + k >= Base + Len(s)
<1>a. \A k \in 1 .. Len(stack) : Far(stack, k)
  BY DEF DepthInv
<1>b. Base \in Nat /\ \A c \in Calls : c.mem.data \in Nat
  BY Constants, CallKinds DEF Window
<1>1. ASSUME stack' = stack PROVE \A k \in 1 .. Len(stack') : Far(stack', k)
  BY <1>a, <1>1
<1>2. ASSUME stack # << >>, NEW f \in Calls, Continues(f), Goto(f), NEW k \in 1 .. Len(stack')
      PROVE  Far(stack', k)
  <2>1. /\ Len(stack') = Len(stack) /\ Len(stack) \in Nat /\ stack'[1] = f
        /\ \A j \in 2 .. Len(stack) : stack'[j] = stack[j]
    BY <1>2, GoesOnStack
  <2>2. f.mem = stack[1].mem
    BY <1>2, TopWindow DEF Continues
  <2>3. Straight(stack', k) => Straight(stack, k)
    <3>1. /\ k \in Nat /\ 0 \in Int /\ k + 0 \in Nat /\ k + 0 = k /\ Len(stack') = Len(stack) + 0
          /\ \A j \in k + 1 .. Len(stack) : stack'[j + 0] = stack[j]
      BY <2>1
    <3>2. Straight(stack', k + 0) => Straight(stack, k)
      BY <2>1, <3>1, TameMoves
    <3> QED
      BY <3>1, <3>2
  <2>4. stack'[k].mem = stack[k].mem
    BY <2>1, <2>2
  <2>5. Far(stack, k)
    BY <1>a, <2>1
  <2> QED
    BY <2>1, <2>3, <2>4, <2>5
<1>3. ASSUME stack # << >>, NEW caller \in Calls, NEW callee \in Calls,
             CallsFile(caller, callee), Call(caller, callee), NEW k \in 1 .. Len(stack')
      PROVE  Far(stack', k)
  <2>1. /\ stack'[1] = callee /\ stack'[2] = caller /\ Len(stack) \in Nat /\ Len(stack) >= 1
        /\ Len(stack') = Len(stack) + 1 /\ stack' \in Seq(Calls)
        /\ \A j \in 3 .. Len(stack) + 1 : stack'[j] = stack[j - 1]
    BY <1>3, CallStack
  <2>2. caller.mem = stack[1].mem
    BY <1>3, TopWindow DEF CallsFile
  <2>3. ASSUME NEW n \in 1 .. Len(stack) PROVE Far(stack', n + 1) /\ (Tame(stack', n + 1) => Tame(stack, n))
    <3>1. \A j \in n + 1 .. Len(stack) : stack'[j + 1] = stack[j]
      <4> SUFFICES ASSUME NEW j \in n + 1 .. Len(stack) PROVE stack'[j + 1] = stack[j]
        OBVIOUS
      <4>1. j + 1 \in 3 .. Len(stack) + 1 /\ (j + 1) - 1 = j
        BY <2>1
      <4> QED
        BY <2>1, <4>1
    <3>2. /\ Straight(stack', n + 1) => Straight(stack, n)
          /\ Tame(stack', n + 1) => Tame(stack, n)
      <4>1. n \in Nat /\ n + 1 \in Nat /\ 1 \in Int
        OBVIOUS
      <4> QED
        BY <2>1, <3>1, <4>1, TameMoves
    <3>3. stack'[n + 1].mem = stack[n].mem
      <4>1. n = 1 \/ (n + 1 \in 3 .. Len(stack) + 1 /\ (n + 1) - 1 = n)
        BY <2>1
      <4> QED
        BY <2>1, <2>2, <4>1
    <3>4. Far(stack, n)
      BY <1>a
    <3>5. stack[n].mem.data \in Nat /\ n \in Nat
      BY <1>b DEF TypeOK
    <3> QED
      BY <1>b, <2>1, <3>2, <3>3, <3>4, <3>5
  <2>4. CASE k = 1
    <3> SUFFICES ASSUME Straight(stack', 1) PROVE callee.mem.data + 1 >= Base + Len(stack')
      BY <2>1, <2>4
    <3>1. ~Wraps(caller) /\ ~NamesItself(caller) /\ Straight(stack', 2)
      BY <2>1, TameBelow
    <3>2. caller.mem.data + 2 >= Base + Len(stack')
      <4>1. Far(stack', 1 + 1)
        BY <2>1, <2>3
      <4> QED
        BY <2>1, <3>1, <4>1
    <3>3. Inside(caller.mem, file)
      <4>1. Tame(stack', 1 + 1) /\ 1 \in 1 .. Len(stack)
        BY <2>1, <3>1 DEF Tame, Straight
      <4>2. Tame(stack, 1)
        BY <2>3, <4>1
      <4> QED
        BY <2>2, <4>1, <4>2 DEF NestInv
    <3>4. callee.mem.data > caller.mem.data
      BY <1>3, <3>1, <3>3 DEF CallsFile, Fits
    <3> QED
      BY <1>b, <2>1, <3>2, <3>4
  <2>5. CASE k # 1
    <3>1. k - 1 \in 1 .. Len(stack) /\ (k - 1) + 1 = k
      BY <2>1, <2>5
    <3> HIDE DEF Far
    <3>2. Far(stack', (k - 1) + 1)
      BY <2>3, <3>1
    <3> QED
      BY <3>1, <3>2
  <2> QED
    BY <2>4, <2>5
<1>4. ASSUME stack # << >>, ReturnStep, NEW k \in 1 .. Len(stack') PROVE Far(stack', k)
  <2>1. /\ Len(stack') = Len(stack) - 1 /\ Len(stack) \in Nat /\ Len(stack) >= 1
        /\ \A j \in 1 .. Len(stack) - 1 : stack'[j] = stack[j + 1]
    BY <1>4, ReturnStack
  <2>2. k \in Nat /\ k + 1 \in 1 .. Len(stack) /\ stack'[k] = stack[k + 1]
    BY <2>1
  <2>3. Straight(stack', k) => Straight(stack, k + 1)
    <3> DEFINE n == k + 1
               d == -1
    <3>1. n \in Nat /\ d \in Int /\ n + d = k /\ n + d \in Nat /\ Len(stack') = Len(stack) + d
      BY <2>1, <2>2
    <3>2. \A j \in n + 1 .. Len(stack) : stack'[j + d] = stack[j]
      <4> SUFFICES ASSUME NEW j \in n + 1 .. Len(stack) PROVE stack'[j + d] = stack[j]
        OBVIOUS
      <4>1. j - 1 \in 1 .. Len(stack) - 1 /\ (j - 1) + 1 = j /\ j + d = j - 1
        BY <2>1
      <4> QED
        BY <2>1, <4>1
    <3> HIDE DEF n, d
    <3>3. Straight(stack', n + d) => Straight(stack, n)
      BY <2>1, <3>1, <3>2, TameMoves
    <3> QED
      BY <3>1, <3>3 DEF n
  <2>4. Far(stack, k + 1)
    BY <1>a, <2>2
  <2>5. stack[k + 1].mem.data \in Nat
    BY <1>b, <2>2 DEF TypeOK
  <2> QED
    BY <1>b, <2>1, <2>2, <2>3, <2>4, <2>5
<1>5. \A k \in 1 .. Len(stack') : Far(stack', k)
  <2> HIDE DEF Far
  <2> QED
    BY <1>1, <1>2, <1>3, <1>4, StepShape DEF GoesOnStep, CallStep, CrashStep
<1> QED
  BY <1>5 DEF DepthInv, Straight

LEMMA StepCrashInv ==
  ASSUME TypeOK, FramesOK, CrashInv, [Next]_vars PROVE CrashInv'
<1>1. file' = file
  BY StepShape
<1>2. CASE stack' = stack /\ (ret' = ret \/ CrashStep)
  <2>1. Top' = Top
    BY <1>2 DEF Top
  <2> QED
    BY <1>1, <1>2, <2>1 DEF CrashInv, CrashStep
<1>3. CASE stack # << >> /\ (GoesOnStep \/ CallStep \/ ReturnStep)
  <2>1. ret' \in Codes \cup {NoResult}
    BY <1>3, GoesOnStack, CallStack, ReturnStack DEF GoesOnStep, CallStep
  <2> QED
    BY <2>1 DEF CrashInv, Codes, OK, ERR_SILENT, ERR_MAGIC, ERR_MEM, NoResult, Crashed
<1> QED
  BY <1>2, <1>3, StepShape DEF CrashStep

LEMMA StepCallersWait ==
  ASSUME TypeOK, FramesOK, CallersWait, [Next]_vars PROVE CallersWait'
<1> DEFINE Waits(c) == c.fun = "disp_fat" /\ ~c.all => c.i \in X86(c)
<1>0. \A k \in 2 .. Len(stack) : Waits(stack[k])
  BY DEF CallersWait
<1>1. CASE stack' = stack
  BY <1>1 DEF CallersWait, X86
<1>2. ASSUME stack # << >>, NEW f \in Calls, Goto(f), NEW k \in 2 .. Len(stack')
      PROVE  Waits(stack'[k])
  <2>1. k \in 2 .. Len(stack) /\ stack'[k] = stack[k]
    BY <1>2, GoesOnStack
  <2> HIDE DEF Waits
  <2> QED
    BY <1>0, <2>1
<1>3. ASSUME stack # << >>, NEW caller \in Calls, NEW callee \in Calls,
             CallsFile(caller, callee), Call(caller, callee), NEW k \in 2 .. Len(stack')
      PROVE  Waits(stack'[k])
  <2>1. /\ stack'[2] = caller /\ Len(stack) \in Nat /\ Len(stack') = Len(stack) + 1
        /\ \A j \in 3 .. Len(stack) + 1 : stack'[j] = stack[j - 1]
    BY <1>3, CallStack
  <2>2. Waits(caller)
    BY <1>3 DEF CallsFile
  <2> HIDE DEF Waits
  <2>3. k = 2 \/ (k - 1 \in 2 .. Len(stack) /\ stack'[k] = stack[k - 1])
    BY <2>1
  <2> QED
    BY <1>0, <2>1, <2>2, <2>3
<1>4. ASSUME stack # << >>, ReturnStep, NEW k \in 2 .. Len(stack') PROVE Waits(stack'[k])
  <2>1. k + 1 \in 2 .. Len(stack) /\ stack'[k] = stack[k + 1]
    BY <1>4, ReturnStack
  <2> HIDE DEF Waits
  <2> QED
    BY <1>0, <2>1
<1>5. CASE stack' # stack
  <2>1. \A k \in 2 .. Len(stack') : Waits(stack'[k])
    <3> HIDE DEF Waits
    <3> QED
      BY <1>2, <1>3, <1>4, <1>5, StepShape DEF GoesOnStep, CallStep, CrashStep
  <2>2. \A c : X86(c)' = X86(c)
    BY DEF X86
  <2> QED
    BY <2>1, <2>2 DEF CallersWait
<1> QED
  BY <1>1, <1>5

(* The windows of the calls, and what the calls of disp_fat have passed,   *)
(* together are kept by every step.                                        *)
LEMMA WalkInvariant == Spec => [](TypeOK /\ WalkInv)
<1>1. Init => TypeOK /\ WalkInv
  BY InitTypeOK, InitNest DEF WalkInv
<1>2. (TypeOK /\ WalkInv) /\ [Next]_vars => (TypeOK /\ WalkInv)'
  BY StepTypeOK, StepFramesOK, StepCallersWait, StepNestInv, StepDepthInv, StepCrashInv DEF WalkInv
<1> QED
  BY <1>1, <1>2, PTL DEF Spec

(* The window of each call of disp_file, disp_fat and disp_ranlib lies in  *)
(* that of its caller and in the mapping and starts after its caller's,    *)
(* for tables and headers of any offsets and sizes, unless an entry on the *)
(* way to the call makes an address wrap in get_sub_mem (tools.c, lines 68 *)
(* and 72); an entry with offset 0 gives the window of the fat file again. *)
THEOREM WindowsInFile == Spec => []WindowsNest
<1>1. TypeOK /\ WalkInv => WindowsNest
  BY DEF WindowsNest, WalkInv, NestInv, Tame, Fits
<1> QED
  BY <1>1, WalkInvariant, PTL

(* disp_file kills the process only through an entry that wraps or names   *)
(* its own fat file (parsing.c, line 116), or on a file that is longer     *)
(* than the C stack has room for calls; on every other file it reads       *)
(* nothing outside the mapping and the recursion is no deeper than the     *)
(* file is long.                                                           *)
THEOREM CrashesExplained == Spec => []CrashesOnlyAstray
<1>1. TypeOK /\ WalkInv => CrashesOnlyAstray
  <2> SUFFICES ASSUME TypeOK, WalkInv, ret = Crashed,
                      \A k \in 2 .. Len(stack) : ~Wraps(stack[k]) /\ ~NamesItself(stack[k])
               PROVE  file.size >= StackLimit
    BY DEF CrashesOnlyAstray
  <2>1. /\ stack # << >> /\ Top = stack[1] /\ Len(stack) \in Nat /\ Len(stack) >= 1
        /\ file.data = Base /\ file.size \in Nat /\ Base \in Nat /\ StackLimit \in Nat \ {0}
    BY TopWindow, StackTail, Constants DEF WalkInv, CrashInv, TypeOK
  <2>2. Tame(stack, 1)
    BY DEF Tame
  <2>3. Inside(Top.mem, file)
    BY <2>1, <2>2 DEF WalkInv, NestInv
  <2>4. Len(stack) > StackLimit
    BY <2>3 DEF WalkInv, CrashInv
  <2>5. 2 \in 1 .. Len(stack) /\ Tame(stack, 2) /\ Straight(stack, 2)
    <3>1. 2 \in 1 .. Len(stack) /\ \A j \in 2 + 1 .. Len(stack) : j \in 2 .. Len(stack)
      BY <2>1, <2>4
    <3> QED
      BY <3>1 DEF Tame, Straight
  <2>6. Inside(stack[2].mem, file) /\ stack[2].mem.data + 2 >= Base + Len(stack)
    BY <2>5 DEF WalkInv, NestInv, DepthInv
  <2>7. stack[2].mem.size > 0 /\ stack[2].mem \in Window
    <3>1. stack[2] \in Calls /\ stack[2].fun # "disp_file" /\ FrameOK(stack[2])
      BY <2>1, <2>5 DEF TypeOK, WalkInv, FramesOK
    <3> QED
      BY <3>1, CallKinds DEF FrameOK
  <2> QED
    BY <2>1, <2>4, <2>6, <2>7 DEF Inside, Window
<1> QED
  BY <1>1, WalkInvariant, PTL

(* disp_fat shows all architectures only when no entry is x86_64, and      *)
(* otherwise the first x86_64 entry alone, whatever the table and wherever *)
(* in the file the fat header is found.                                    *)
THEOREM OneArchitectureOrAll == Spec => []OneOrAll
<1>1. TypeOK /\ WalkInv => OneOrAll
  <2> SUFFICES ASSUME TypeOK, WalkInv, NEW k \in 1 .. Len(stack), stack[k].fun = "disp_fat"
               PROVE  LET call == stack[k]
                          x86  == {j \in DOMAIN call.archs : call.archs[j].x86_64}
                      IN  /\ call.all => x86 = {}
                          /\ k > 1 /\ ~call.all => \A j \in x86 : call.i <= j
                          /\ k > 1 /\ ~call.all => call.i \in x86
    BY DEF OneOrAll
  <2>1. FrameOK(stack[k])
    BY DEF WalkInv, FramesOK
  <2>2. k > 1 /\ ~stack[k].all => stack[k].i \in X86(stack[k])
    <3>1. k > 1 => k \in 2 .. Len(stack)
      BY DEF TypeOK
    <3> QED
      BY <3>1 DEF WalkInv, CallersWait
  <2> QED
    BY <2>1, <2>2 DEF FrameOK, X86
<1> QED
  BY <1>1, WalkInvariant, PTL
-----------------------------------------------------------------------------
(* Which fat file is nearest depends only on the calls below.              *)
LEMMA NamedMoves ==
  ASSUME NEW s, NEW t, NEW k \in Nat, NEW d \in Int, k + d \in Nat,
         Len(s) \in Nat, Len(t) = Len(s) + d,
         \A j \in k + 1 .. Len(s) : t[j + d] = s[j], Named(s, k)
  PROVE  Named(t, k + d)
<1>1. PICK j \in k + 1 .. Len(s) :
        /\ s[j].fun = "disp_fat" /\ \A m \in k + 1 .. j - 1 : s[m].fun # "disp_fat"
        /\ s[j].all /\ Len(s[j].archs) > 1
  BY DEF Named
<1>2. j + d \in (k + d) + 1 .. Len(t) /\ t[j + d] = s[j]
  OBVIOUS
<1>3. ASSUME NEW m \in (k + d) + 1 .. (j + d) - 1 PROVE t[m].fun # "disp_fat"
  <2>1. m - d \in k + 1 .. j - 1 /\ m - d \in k + 1 .. Len(s) /\ (m - d) + d = m
    OBVIOUS
  <2>2. t[m] = s[m - d]
    BY <2>1
  <2> QED
    BY <1>1, <2>1, <2>2
<1> QED
  BY <1>1, <1>2, <1>3 DEF Named

LEMMA NamedSame ==
  ASSUME NEW s, NEW t, NEW k \in Nat, NEW d \in Int, k + d \in Nat,
         Len(s) \in Nat, Len(t) = Len(s) + d,
         \A j \in k + 1 .. Len(s) : t[j + d] = s[j]
  PROVE  Named(s, k) <=> Named(t, k + d)
<1>1. Named(s, k) => Named(t, k + d)
  BY NamedMoves
<1> DEFINE n == k + d
           e == -d
<1>2. n \in Nat /\ e \in Int /\ n + e = k /\ Len(t) \in Nat /\ Len(s) = Len(t) + e
  OBVIOUS
<1>3. \A j \in n + 1 .. Len(t) : s[j + e] = t[j]
  <2> SUFFICES ASSUME NEW j \in n + 1 .. Len(t) PROVE s[j + e] = t[j]
    OBVIOUS
  <2>1. j + e \in k + 1 .. Len(s) /\ (j + e) + d = j
    OBVIOUS
  <2>2. t[(j + e) + d] = s[j + e]
    BY <2>1
  <2> QED
    BY <2>1, <2>2
<1>4. Named(t, n) => Named(s, n + e)
  <2> HIDE DEF n, e
  <2> QED
    BY <1>2, <1>3, NamedMoves
<1> QED
  BY <1>1, <1>2, <1>4

(* The call below is a fat file, or the nearest one is further below.      *)
LEMMA NamedBelow ==
  ASSUME NEW s, NEW k \in Nat, Len(s) \in Nat, k < Len(s)
  PROVE  Named(s, k) <=> IF s[k + 1].fun = "disp_fat"
                         THEN s[k + 1].all /\ Len(s[k + 1].archs) > 1
                         ELSE Named(s, k + 1)
<1>1. CASE s[k + 1].fun = "disp_fat"
  <2>1. ASSUME Named(s, k) PROVE s[k + 1].all /\ Len(s[k + 1].archs) > 1
    <3>1. PICK j \in k + 1 .. Len(s) :
            /\ s[j].fun = "disp_fat" /\ \A m \in k + 1 .. j - 1 : s[m].fun # "disp_fat"
            /\ s[j].all /\ Len(s[j].archs) > 1
      BY <2>1 DEF Named
    <3>2. j = k + 1
      BY <1>1, <3>1
    <3> QED
      BY <3>1, <3>2
  <2>2. ASSUME s[k + 1].all, Len(s[k + 1].archs) > 1 PROVE Named(s, k)
    <3>1. k + 1 \in k + 1 .. Len(s) /\ \A m \in k + 1 .. (k + 1) - 1 : s[m].fun # "disp_fat"
      OBVIOUS
    <3> QED
      BY <1>1, <2>2, <3>1 DEF Named
  <2> QED
    BY <1>1, <2>1, <2>2
<1>2. CASE s[k + 1].fun # "disp_fat"
  <2>1. ASSUME Named(s, k) PROVE Named(s, k + 1)
    <3>1. PICK j \in k + 1 .. Len(s) :
            /\ s[j].fun = "disp_fat" /\ \A m \in k + 1 .. j - 1 : s[m].fun # "disp_fat"
            /\ s[j].all /\ Len(s[j].archs) > 1
      BY <2>1 DEF Named
    <3>2. j # k + 1
      BY <1>2, <3>1
    <3>3. j \in (k + 1) + 1 .. Len(s)
      BY <3>2
    <3>4. \A m \in (k + 1) + 1 .. j - 1 : m \in k + 1 .. j - 1
      OBVIOUS
    <3> QED
      BY <3>1, <3>3, <3>4 DEF Named
  <2>2. ASSUME Named(s, k + 1) PROVE Named(s, k)
    <3>1. PICK j \in (k + 1) + 1 .. Len(s) :
            /\ s[j].fun = "disp_fat" /\ \A m \in (k + 1) + 1 .. j - 1 : s[m].fun # "disp_fat"
            /\ s[j].all /\ Len(s[j].archs) > 1
      BY <2>2 DEF Named
    <3>2. j \in k + 1 .. Len(s)
      OBVIOUS
    <3>3. \A m \in k + 1 .. j - 1 : m = k + 1 \/ m \in (k + 1) + 1 .. j - 1
      OBVIOUS
    <3>4. \A m \in k + 1 .. j - 1 : s[m].fun # "disp_fat"
      BY <1>2, <3>1, <3>3
    <3> QED
      BY <3>1, <3>2, <3>4 DEF Named
  <2> QED
    BY <1>2, <2>1, <2>2
<1> QED
  BY <1>1, <1>2

LEMMA InitLabel == Init => LabelInv
<1> SUFFICES ASSUME Init PROVE LabelInv
  OBVIOUS
<1> DEFINE call == DispFile(file, FALSE, FALSE)
<1>1. stack = <<call>>
  BY DEF Init
<1>2. call.show_cpu = FALSE
  BY DEF DispFile
<1> HIDE DEF call
<1>3. Len(stack) = 1 /\ stack[1] = call
  BY <1>1
<1> QED
  BY <1>2, <1>3 DEF LabelInv, Named

LEMMA StepLabelInv ==
  ASSUME TypeOK, FramesOK, LabelInv, [Next]_vars PROVE LabelInv'
<1> DEFINE Labelled(s, k) == s[k].fun # "disp_fat" => (s[k].show_cpu <=> Named(s, k))
<1>0. \A k \in 1 .. Len(stack) : Labelled(stack, k)
  BY DEF LabelInv
<1>1. ASSUME stack' = stack PROVE \A k \in 1 .. Len(stack') : Labelled(stack', k)
  BY <1>0, <1>1
<1>2. ASSUME stack # << >>, NEW f \in Calls, Continues(f), Goto(f), NEW k \in 1 .. Len(stack')
      PROVE  Labelled(stack', k)
  <2>1. /\ Len(stack') = Len(stack) /\ Len(stack) \in Nat /\ stack'[1] = f
        /\ \A j \in 2 .. Len(stack) : stack'[j] = stack[j]
    BY <1>2, GoesOnStack
  <2>2. k \in Nat /\ k \in 1 .. Len(stack) /\ \A j \in k + 1 .. Len(stack) : j \in 2 .. Len(stack)
    BY <2>1
  <2>3. \A j \in k + 1 .. Len(stack) : stack'[j + 0] = stack[j]
    BY <2>1, <2>2
  <2>4. Named(stack, k) <=> Named(stack', k)
    <3>1. Named(stack, k) <=> Named(stack', k + 0)
      <4>1. k + 0 \in Nat /\ 0 \in Int /\ Len(stack') = Len(stack) + 0
        BY <2>1, <2>2
      <4> QED
        BY <2>1, <2>2, <2>3, <4>1, NamedSame
    <3>2. k + 0 = k
      BY <2>2
    <3> QED
      BY <3>1, <3>2
  <2>5. f.fun # "disp_fat" => stack[1].fun # "disp_fat" /\ f.show_cpu = stack[1].show_cpu
    BY <1>2, TopWindow DEF Continues, Calls
  <2>6. Labelled(stack, k)
    BY <1>0, <2>2
  <2> QED
    BY <2>1, <2>2, <2>4, <2>5, <2>6
<1>3. ASSUME stack # << >>, NEW caller \in Calls, NEW callee \in Calls,
             CallsFile(caller, callee), Call(caller, callee), NEW k \in 1 .. Len(stack')
      PROVE  Labelled(stack', k)
  <2>1. /\ stack'[1] = callee /\ stack'[2] = caller /\ Len(stack) \in Nat /\ Len(stack) >= 1
        /\ Len(stack') = Len(stack) + 1
        /\ \A j \in 3 .. Len(stack) + 1 : stack'[j] = stack[j - 1]
    BY <1>3, CallStack
  <2>2. ASSUME NEW n \in 1 .. Len(stack) PROVE Named(stack, n) <=> Named(stack', n + 1)
    <3>1. n \in Nat /\ n + 1 \in Nat /\ 1 \in Int /\ Len(stack') = Len(stack) + 1
      BY <2>1
    <3>2. \A j \in n + 1 .. Len(stack) : stack'[j + 1] = stack[j]
      <4> SUFFICES ASSUME NEW j \in n + 1 .. Len(stack) PROVE stack'[j + 1] = stack[j]
        OBVIOUS
      <4>1. j + 1 \in 3 .. Len(stack) + 1 /\ (j + 1) - 1 = j
        BY <2>1
      <4> QED
        BY <2>1, <4>1
    <3> QED
      BY <2>1, <3>1, <3>2, NamedSame
  <2>3. Labelled(stack', 2)
    <3>1. caller.fun # "disp_fat" => stack[1].fun # "disp_fat" /\ caller.show_cpu = stack[1].show_cpu
      BY <1>3, TopWindow DEF CallsFile, Calls
    <3>2. Labelled(stack, 1)
      BY <1>0, <2>1
    <3>3. Named(stack, 1) <=> Named(stack', 2)
      BY <2>1, <2>2
    <3> QED
      BY <2>1, <3>1, <3>2, <3>3
  <2>4. CASE k = 1
    <3>1. Named(stack', 1) <=> IF caller.fun = "disp_fat"
                               THEN caller.all /\ Len(caller.archs) > 1
                               ELSE Named(stack', 2)
      <4>1. 1 \in Nat /\ Len(stack') \in Nat /\ 1 < Len(stack') /\ 1 + 1 = 2
        BY <2>1
      <4> QED
        BY <2>1, <4>1, NamedBelow
    <3>2. CASE caller.fun = "disp_fat"
      BY <1>3, <2>1, <2>4, <3>1, <3>2 DEF CallsFile, ShowCpu
    <3>3. CASE caller.fun # "disp_fat"
      <4>1. callee.show_cpu = caller.show_cpu
        BY <1>3, <3>3 DEF CallsFile, Calls
      <4> QED
        BY <2>1, <2>3, <2>4, <3>1, <3>3, <4>1
    <3> QED
      BY <3>2, <3>3
  <2>5. CASE k = 2
    BY <2>3, <2>5
  <2>6. CASE k \in 3 .. Len(stack) + 1
    <3>1. k - 1 \in 1 .. Len(stack) /\ (k - 1) + 1 = k /\ stack'[k] = stack[k - 1]
      BY <2>1, <2>6
    <3>2. Labelled(stack, k - 1)
      BY <1>0, <3>1
    <3>3. Named(stack, k - 1) <=> Named(stack', k)
      BY <2>2, <3>1
    <3> QED
      BY <3>1, <3>2, <3>3
  <2> QED
    BY <2>1, <2>4, <2>5, <2>6
<1>4. ASSUME stack # << >>, ReturnStep, NEW k \in 1 .. Len(stack') PROVE Labelled(stack', k)
  <2>1. /\ Len(stack') = Len(stack) - 1 /\ Len(stack) \in Nat /\ Len(stack) >= 1
        /\ \A j \in 1 .. Len(stack) - 1 : stack'[j] = stack[j + 1]
    BY <1>4, ReturnStack
  <2>2. k \in Nat /\ k + 1 \in Nat /\ k + 1 \in 1 .. Len(stack) /\ Len(stack') \in Nat
        /\ stack'[k] = stack[k + 1] /\ 1 \in Int /\ Len(stack) = Len(stack') + 1
    BY <2>1
  <2>3. \A j \in k + 1 .. Len(stack') : stack[j + 1] = stack'[j]
    BY <2>1, <2>2
  <2>4. Named(stack', k) <=> Named(stack, k + 1)
    BY <2>2, <2>3, NamedSame
  <2>5. Labelled(stack, k + 1)
    BY <1>0, <2>2
  <2> QED
    BY <2>2, <2>4, <2>5
<1>5. \A k \in 1 .. Len(stack') : Labelled(stack', k)
  <2> HIDE DEF Labelled
  <2> QED
    BY <1>1, <1>2, <1>3, <1>4, StepShape DEF GoesOnStep, CallStep, CrashStep
<1> QED
  BY <1>5 DEF LabelInv, Named

(* An object is named with its architecture exactly when the nearest fat   *)
(* file around it is shown whole and has several: vm.target.show_cpu goes  *)
(* down by value through members and their archives (disp_filename).       *)
THEOREM NamedByArchitecture == Spec => []ArchitectureNamed
<1>1. Init => LabelInv
  BY InitLabel
<1>2. (TypeOK /\ WalkInv) /\ LabelInv /\ [Next]_vars => LabelInv'
  BY StepLabelInv DEF WalkInv
<1>3. TypeOK /\ WalkInv /\ LabelInv => ArchitectureNamed
  <2> SUFFICES ASSUME TypeOK, WalkInv, LabelInv, Running("disp_file") PROVE ArchitectureNamed
    BY DEF ArchitectureNamed
  <2>1. /\ stack # << >> /\ Top.fun = "disp_file" /\ Top = stack[1] /\ Top \in FileCalls
        /\ Len(stack) \in Nat /\ 1 \in 1 .. Len(stack)
    BY TopWindow, CallKinds, StackTail DEF Running, WalkInv, TypeOK
  <2>2. Label(Top) = "architecture" <=> Top.show_cpu
    BY <2>1 DEF Label
  <2>3. Top.show_cpu <=> Named(stack, 1)
    BY <2>1 DEF LabelInv
  <2> DEFINE fats == {k \in 1 .. Len(stack) : stack[k].fun = "disp_fat"}
             Nearest == \E k \in fats : /\ \A j \in fats : k <= j
                                        /\ stack[k].all /\ Len(stack[k].archs) > 1
  <2>4. Named(stack, 1) => Nearest
    <3> SUFFICES ASSUME Named(stack, 1) PROVE Nearest
      OBVIOUS
    <3>1. PICK k \in 1 + 1 .. Len(stack) :
            /\ stack[k].fun = "disp_fat" /\ \A m \in 1 + 1 .. k - 1 : stack[m].fun # "disp_fat"
            /\ stack[k].all /\ Len(stack[k].archs) > 1
      BY DEF Named
    <3>2. k \in fats
      BY <2>1, <3>1
    <3>3. ASSUME NEW j \in fats PROVE k <= j
      <4>1. j \in 1 .. Len(stack) /\ j # 1 /\ ~(j \in 1 + 1 .. k - 1)
        BY <2>1, <3>1
      <4> QED
        BY <2>1, <4>1
    <3> QED
      BY <3>1, <3>2, <3>3
  <2>5. Nearest => Named(stack, 1)
    <3> SUFFICES ASSUME NEW k \in fats, \A j \in fats : k <= j,
                        stack[k].all, Len(stack[k].archs) > 1
                 PROVE  Named(stack, 1)
      OBVIOUS
    <3>1. k \in 1 + 1 .. Len(stack) /\ stack[k].fun = "disp_fat"
      BY <2>1
    <3>2. ASSUME NEW m \in 1 + 1 .. k - 1 PROVE stack[m].fun # "disp_fat"
      <4>1. m \in 1 .. Len(stack) /\ ~(k <= m)
        BY <2>1, <3>1
      <4> QED
        BY <4>1
    <3> QED
      BY <3>1, <3>2 DEF Named
  <2> QED
    BY <2>2, <2>3, <2>4, <2>5 DEF ArchitectureNamed
<1> QED
  BY <1>1, <1>2, <1>3, WalkInvariant, PTL DEF Spec
-----------------------------------------------------------------------------
(* The first call leaves, and it is no second pass over a fat file.        *)
Passed == stack # << >> /\ stack' = Caller /\ ~(Top.fun = "disp_fat" /\ Top.all)

(* What a step does to the result on its way up: a call fails, or passes   *)
(* the error of the one above on; only a second pass turns it to OK.       *)
LEMMA StepResults ==
  ASSUME TypeOK, [Next]_vars
  PROVE  \/ stack' = stack /\ ret' = ret /\ failures' = failures
         \/ ret \in {NoResult, OK} /\ ret' \in {NoResult, OK, Crashed} /\ failures' = failures
         \/ /\ ret = NoResult /\ ret' \in Codes \ {OK} /\ Passed
            /\ failures' = IF SecondPass THEN failures ELSE failures \cup {ret'}
         \/ ret \in Codes \ {OK} /\ ret' = ret /\ failures' = failures /\ Passed
         \/ /\ ret \in Codes \ {OK} /\ ret' = OK /\ failures' = failures
            /\ stack # << >> /\ Top.fun = "disp_fat" /\ Top.all
<1> USE DEF OK, ERR_SILENT, ERR_MAGIC, ERR_MEM, NoResult, Crashed, Codes
<1>0. CASE Crash
  BY <1>0 DEF Crash
<1>1. CASE TooShort \/ Unknown
  BY <1>1 DEF TooShort, Unknown, Entered, Running, Fail, Return, Passed
<1>2. ASSUME NEW code \in ObjectResults, DispObject(code)
      PROVE  /\ ret = NoResult
             /\ \/ ret' = OK /\ failures' = failures
                \/ /\ ret' \in Codes \ {OK} /\ Passed
                   /\ failures' = IF SecondPass THEN failures ELSE failures \cup {ret'}
  BY <1>2 DEF DispObject, Entered, Running, Fail, Return, ObjectResults, Passed
<1>3. CASE \E archs \in FatTables : EnterFat(archs)
  BY <1>3 DEF EnterFat, Entered, Running, Fail, Goto, Return, Passed
<1>4. CASE ShowArch \/ StartAll \/ EndAll \/ SingleMember \/ EndArchive
  BY <1>4 DEF ShowArch, StartAll, EndAll, SingleMember, EndArchive, Running, Goto, Call, Return
<1>5. CASE ArchShown
  <2>1. ret \in Codes
    BY <1>5 DEF ArchShown, Returned, TypeOK
  <2> QED
    BY <1>5, <2>1 DEF ArchShown, Returned, Goto, Return, Passed
<1>6. CASE \E h \in Headers : EnterArchive(h)
  BY <1>6 DEF EnterArchive, Entered, Running, Goto
<1>7. ASSUME NEW h \in Headers, Member(h)
      PROVE  /\ ret = NoResult
             /\ \/ ret' = NoResult /\ failures' = failures
                \/ /\ ret' \in Codes \ {OK} /\ Passed
                   /\ failures' = IF SecondPass THEN failures ELSE failures \cup {ret'}
  <2> DEFINE code == check_ranlib_header(Top.mem, Top.offset, h)
  <2>1. code \in Codes
    BY DEF check_ranlib_header
  <2>2. ret = NoResult /\ stack # << >> /\ Top.fun = "disp_ranlib"
    BY <1>7 DEF Member, Running
  <2>3. CASE code = OK
    BY <1>7, <2>2, <2>3 DEF Member, Call
  <2>4. CASE code # OK
    <3>1. /\ ret' = code /\ stack' = Caller
          /\ failures' = IF SecondPass THEN failures ELSE failures \cup {code}
      BY <1>7, <2>4 DEF Member, Fail, Return
    <3> HIDE DEF code
    <3> QED
      BY <2>1, <2>2, <2>4, <3>1 DEF Passed
  <2> QED
    BY <2>3, <2>4
<1>8. CASE \E w1, w2 \in SymdefWords : SkipIndex(w1, w2)
  BY <1>8 DEF SkipIndex, Running, Fail, Goto, Return, Passed
<1>9. CASE MemberShown
  <2>1. ret \in Codes
    BY <1>9 DEF MemberShown, Returned, TypeOK
  <2> QED
    BY <1>9, <2>1 DEF MemberShown, Returned, Goto, Return, GoesOn, Passed
<1>10. CASE UNCHANGED vars
  BY <1>10 DEF vars
<1> QED
  BY <1>0, <1>1, <1>2, <1>3, <1>4, <1>5, <1>6, <1>7, <1>8, <1>9, <1>10 DEF Next, Finished

(* When a call leaves that is no second pass, there is one below as before. *)
LEMMA PassedSecond ==
  ASSUME TypeOK, Passed PROVE SecondPass' <=> SecondPass
<1> DEFINE Second(c) == c.fun = "disp_fat" /\ c.all
<1>1. /\ Len(stack') = Len(stack) - 1 /\ Len(stack) \in Nat /\ Len(stack) >= 1
      /\ \A k \in 1 .. Len(stack) - 1 : stack'[k] = stack[k + 1]
      /\ ~Second(stack[1])
  BY StackTail DEF TypeOK, Passed, Caller, Top
<1> HIDE DEF Second
<1>2. ASSUME NEW k \in 1 .. Len(stack'), Second(stack'[k])
      PROVE  \E j \in 1 .. Len(stack) : Second(stack[j])
  <2>1. k + 1 \in 1 .. Len(stack) /\ stack'[k] = stack[k + 1]
    BY <1>1
  <2> QED
    BY <1>2, <2>1
<1>3. ASSUME NEW k \in 1 .. Len(stack), Second(stack[k])
      PROVE  \E j \in 1 .. Len(stack') : Second(stack'[j])
  <2>1. k # 1
    BY <1>1, <1>3
  <2>2. k - 1 \in 1 .. Len(stack') /\ stack'[k - 1] = stack[k]
    <3>1. k - 1 \in 1 .. Len(stack) - 1 /\ (k - 1) + 1 = k
      BY <1>1, <2>1
    <3> QED
      BY <1>1, <3>1
  <2> QED
    BY <1>3, <2>2
<1> QED
  BY <1>2, <1>3 DEF SecondPass, Second

LEMMA InitError == Init => ErrorInv
<1> SUFFICES ASSUME Init PROVE ErrorInv
  OBVIOUS
<1> DEFINE call == DispFile(file, FALSE, FALSE)
<1>1. stack = <<call>> /\ ret = NoResult /\ failures = {}
  BY DEF Init
<1> HIDE DEF call
<1>2. stack # << >>
  BY <1>1
<1> QED
  BY <1>1, <1>2 DEF ErrorInv, Codes, OK, ERR_SILENT, ERR_MAGIC, ERR_MEM, NoResult

LEMMA StepErrorInv ==
  ASSUME TypeOK, FramesOK, ErrorInv, [Next]_vars PROVE ErrorInv'
<1> USE DEF OK, ERR_SILENT, ERR_MAGIC, ERR_MEM, NoResult, Crashed, Codes
<1>1. stack' = << >> => ret' \in Codes
  <2>1. CASE stack' = stack /\ ret' = ret
    BY <2>1 DEF ErrorInv
  <2>2. CASE CrashStep
    BY <2>2 DEF CrashStep
  <2>3. ASSUME stack # << >>, NEW f \in Calls, Goto(f) PROVE stack' # << >>
    BY <2>3, GoesOnStack
  <2>4. ASSUME stack # << >>, NEW caller \in Calls, NEW callee \in Calls, Call(caller, callee)
        PROVE  stack' # << >>
    BY <2>4, CallStack
  <2>5. CASE stack # << >> /\ ReturnStep
    BY <2>5, ReturnStack
  <2> QED
    BY <2>1, <2>2, <2>3, <2>4, <2>5, StepShape DEF GoesOnStep, CallStep
<1>2. /\ ret' \in Codes \ {OK} /\ ~SecondPass' => failures' = {ret'}
      /\ failures' # {} => ret' \in Codes \ {OK} /\ ~SecondPass' /\ failures' = {ret'}
  <2>1. /\ ret \in Codes \ {OK} /\ ~SecondPass => failures = {ret}
        /\ failures # {} => ret \in Codes \ {OK} /\ ~SecondPass /\ failures = {ret}
    BY DEF ErrorInv
  <2>2. CASE stack' = stack /\ ret' = ret /\ failures' = failures
    <3>1. SecondPass' <=> SecondPass
      BY <2>2 DEF SecondPass
    <3> QED
      BY <2>1, <2>2, <3>1
  <2>3. CASE ret \in {NoResult, OK} /\ ret' \in {NoResult, OK, Crashed} /\ failures' = failures
    BY <2>1, <2>3
  <2>4. CASE /\ ret = NoResult /\ ret' \in Codes \ {OK} /\ Passed
             /\ failures' = IF SecondPass THEN failures ELSE failures \cup {ret'}
    <3>1. failures = {} /\ (SecondPass' <=> SecondPass)
      BY <2>1, <2>4, PassedSecond
    <3> QED
      BY <2>4, <3>1
  <2>5. CASE ret \in Codes \ {OK} /\ ret' = ret /\ failures' = failures /\ Passed
    <3>1. SecondPass' <=> SecondPass
      BY <2>5, PassedSecond
    <3> QED
      BY <2>1, <2>5, <3>1
  <2>6. CASE /\ ret \in Codes \ {OK} /\ ret' = OK /\ failures' = failures
             /\ stack # << >> /\ Top.fun = "disp_fat" /\ Top.all
    <3>1. SecondPass
      <4>1. Top = stack[1] /\ 1 \in 1 .. Len(stack)
        BY <2>6, StackTail DEF TypeOK, Top
      <4> QED
        BY <2>6, <4>1 DEF SecondPass
    <3> QED
      BY <2>1, <2>6, <3>1
  <2> QED
    BY <2>2, <2>3, <2>4, <2>5, <2>6, StepResults
<1> QED
  BY <1>1, <1>2 DEF ErrorInv

(* An error found outside every second pass over a fat file, at any depth  *)
(* of members and architectures and whatever second passes came before it, *)
(* is the result of disp_file, and disp_file has no other; the errors of a *)
(* second pass are dropped (parsing.c, line 123).                          *)
THEOREM ErrorsReachMain == Spec => []ErrorsSurface
<1>1. Init => ErrorInv
  BY InitError
<1>2. (TypeOK /\ WalkInv) /\ ErrorInv /\ [Next]_vars => ErrorInv'
  BY StepErrorInv DEF WalkInv
<1>3. ErrorInv => ErrorsSurface
  <2> SUFFICES ASSUME ErrorInv, stack = << >>, stack \in Seq({}) PROVE failures = IF ret = OK THEN {} ELSE {ret}
    BY DEF ErrorsSurface
  <2>1. ~SecondPass
    BY DEF SecondPass
  <2> QED
    BY <2>1 DEF ErrorInv
<1> QED
  BY <1>1, <1>2, <1>3, WalkInvariant, PTL DEF Spec
-----------------------------------------------------------------------------
(* What main sees of the call.                                             *)
RetOfMain == IF stack = << >> \/ ret = Crashed THEN ret ELSE NoResult

(* Main calls disp_file and is given one of the four codes, once, or the   *)
(* process dies: the walk implements Returns, but for the promise that one *)
(* of the two happens.                                                     *)
THEOREM MainSeesOneReturn == Spec => CallOfMain!Init /\ [][CallOfMain!Return]_RetOfMain
<1>1. Init => CallOfMain!Init
  <2> SUFFICES ASSUME Init PROVE RetOfMain = NoResult
    BY DEF CallOfMain!Init, RetOfMain
  <2> QED
    BY DEF Init, RetOfMain, NoResult, Crashed
<1>2. TypeOK /\ WalkInv /\ [Next]_vars => [CallOfMain!Return]_RetOfMain
  <2> SUFFICES ASSUME TypeOK, FramesOK, [Next]_vars
               PROVE  \/ RetOfMain' = RetOfMain
                      \/ RetOfMain = NoResult /\ RetOfMain' \in Outcomes
    BY DEF CallOfMain!Return, RetOfMain, WalkInv
  <2> USE DEF OK, ERR_SILENT, ERR_MAGIC, ERR_MEM, NoResult, Crashed, Codes, Outcomes
  <2>1. CASE stack' = stack /\ ret' = ret
    BY <2>1 DEF RetOfMain
  <2>2. CASE CrashStep
    BY <2>2 DEF RetOfMain, CrashStep
  <2>3. ASSUME stack # << >>, ret # Crashed, NEW f \in Calls, Goto(f) PROVE RetOfMain' = RetOfMain
    BY <2>3, GoesOnStack DEF RetOfMain
  <2>4. ASSUME stack # << >>, ret # Crashed,
               NEW caller \in Calls, NEW callee \in Calls, Call(caller, callee)
        PROVE  RetOfMain' = RetOfMain
    BY <2>4, CallStack DEF RetOfMain
  <2>5. ASSUME stack # << >>, ret # Crashed, ReturnStep
        PROVE  RetOfMain = NoResult /\ RetOfMain' \in Codes \cup {NoResult}
    BY <2>5, ReturnStack DEF RetOfMain
  <2> QED
    BY <2>1, <2>2, <2>3, <2>4, <2>5, StepShape DEF GoesOnStep, CallStep
<1> QED
  BY <1>1, <1>2, WalkInvariant, PTL DEF Spec
=============================================================================
