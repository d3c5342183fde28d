---------------------------- MODULE OutBufProofs -----------------------------
(* What OutBuf promises for buffers of every size, any number of           *)
(* descriptors and any number of characters.                               *)
EXTENDS OutBuf, SequenceTheorems, FiniteSetTheorems, TLAPS

Outs == Chars \cup {ErrorText}

(* Appending to the second part of a sequence.                             *)
LEMMA AppendToSecond ==
  ASSUME NEW S, NEW s \in Seq(S), NEW t \in Seq(S), NEW c \in S
  PROVE  Append(s \o t, c) = s \o Append(t, c)
<1>1. <<c>> \in Seq(S) /\ s \o t \in Seq(S)
  BY ConcatProperties
<1>2. Append(s \o t, c) = (s \o t) \o <<c>> /\ Append(t, c) = t \o <<c>>
  BY <1>1, AppendIsConcat
<1> QED
  BY <1>1, <1>2, ConcatAssociative

(* What a write sends are characters of the descriptor it goes to; when    *)
(* the buffer already held only such characters, it sends what it is given.*)
LEMMA SentType ==
  ASSUME NEW f \in Fds, NEW chars \in Seq(Chars)
  PROVE  /\ Sent(f, chars) \in Seq(Outs) /\ Len(Sent(f, chars)) = Len(chars)
         /\ (\A k \in 1 .. Len(chars) : chars[k][1] = f) => Sent(f, chars) = chars
<1>1. Len(chars) \in Nat /\ \A k \in 1 .. Len(chars) : chars[k] \in Chars
  OBVIOUS
<1>2. \A k \in 1 .. Len(chars) : <<f, chars[k][2]>> \in Outs
  BY <1>1 DEF Chars, Outs
<1>3. Sent(f, chars) \in Seq(Outs) /\ Len(Sent(f, chars)) = Len(chars)
  BY <1>1, <1>2 DEF Sent
<1>4. ASSUME \A k \in 1 .. Len(chars) : chars[k][1] = f
      PROVE  Sent(f, chars) = chars
  <2>1. chars \in Seq(Outs)
    BY SeqMonotonic DEF Outs
  <2>2. \A k \in 1 .. Len(chars) : Sent(f, chars)[k] = chars[k]
    BY <1>1, <1>4 DEF Sent, Chars
  <2> QED
    BY <1>3, <2>1, <2>2, SeqEqual
<1> QED
  BY <1>3, <1>4

(* The effect of a write: what the system had been given stays a prefix of *)
(* what it has, and when nothing fails everything arrives.                 *)
LEMMA WriteEffect ==
  ASSUME NEW f \in Fds, NEW chars \in Seq(Chars), Write(f, chars),
         out \in Seq(Outs), owed \in Nat, failed \in Nat, nested \in Nat
  PROVE  /\ \E sent \in Seq(Outs) : out' = out \o sent
         /\ owed' \in Nat /\ failed' \in Nat /\ nested' \in Nat
         /\ MayFail = {} /\ ~MayCut => out' = out \o Sent(f, chars) /\ owed' = owed
<1>1. CASE out' = out \o Sent(f, chars) /\ UNCHANGED <<owed, failed, nested>>
  BY <1>1, SentType
<1>2. CASE /\ MayCut
           /\ \E k \in 1 .. Len(chars) - 1 : out' = out \o Sent(f, SubSeq(chars, 1, k))
           /\ UNCHANGED <<owed, failed, nested>>
  <2>1. PICK k \in 1 .. Len(chars) - 1 : out' = out \o Sent(f, SubSeq(chars, 1, k))
    BY <1>2
  <2>2. SubSeq(chars, 1, k) \in Seq(Chars)
    BY SubSeqProperties, LenProperties
  <2>3. Sent(f, SubSeq(chars, 1, k)) \in Seq(Outs)
    BY <2>2, SentType
  <2>4. \E sent \in Seq(Outs) : out' = out \o sent
    BY <2>1, <2>3
  <2> QED
    BY <1>2, <2>4
<1>3. CASE /\ f \in MayFail /\ failed + nested < MaxFailed
           /\ owed' = PerrorWrites /\ failed' = failed + 1
           /\ UNCHANGED <<out, nested>>
  <2>1. out' = out \o << >> /\ << >> \in Seq(Outs)
    BY <1>3, ConcatEmptySeq, EmptySeq
  <2>2. \E sent \in Seq(Outs) : out' = out \o sent
    BY <2>1
  <2>3. owed' \in Nat /\ failed' \in Nat /\ nested' \in Nat
    BY <1>3 DEF PerrorWrites
  <2>4. MayFail # {}
    BY <1>3
  <2> QED
    BY <2>2, <2>3, <2>4
<1> QED
  BY <1>1, <1>2, <1>3 DEF Write
-----------------------------------------------------------------------------
(* The counters are bounded by what has been printed.                      *)
Bounded == total <= Len(issued) /\ mine <= Len(issued) /\ Len(issued) <= MaxChars

(* The buffer only holds characters of its descriptor, which is that of    *)
(* the call in progress and 1 between calls.                               *)
Directed ==
  /\ \A k \in 1 .. Len(buffer) : buffer[k][1] = fd
  /\ call # "none" => target = fd
  /\ call \in {"none", "print"} => fd = 1
  /\ call = "printerr" => fd = 2
  /\ call = "printfd" => old_fd = 1
  /\ call = "none" /\ buffer # << >> => ended = "printfd" /\ target = 1

(* The total is that of the call in progress, and zero between calls.      *)
Counted ==
  IF call = "none" THEN total = 0 /\ result = mine ELSE total = mine

(* While nothing fails, no error is owed and nothing is lost.              *)
Complete == MayFail = {} /\ ~MayCut => owed = 0 /\ issued = out \o buffer

Inv == TypeOK /\ Bounded /\ Directed /\ Counted /\ Complete

LEMMA InitInv == Init => Inv
<1> SUFFICES ASSUME Init PROVE Inv
  OBVIOUS
<1>1. TypeOK /\ Bounded
  BY OutBufAssumption, EmptySeq DEF Init, TypeOK, Bounded, Fds
<1>2. Directed /\ Counted
  BY DEF Init, Directed, Counted
<1>3. Complete
  BY ConcatEmptySeq, EmptySeq DEF Init, Complete
<1> QED
  BY <1>1, <1>2, <1>3 DEF Inv

(* A write of the whole buffer, which is then empty: every call but        *)
(* ft_putchar_buf writes this way.                                         *)
LEMMA Flushed ==
  ASSUME Inv, Write(fd, buffer), buffer' = << >>, issued' = issued
  PROVE  /\ buffer' \in Seq(Chars) /\ Len(buffer') < Size
         /\ out' \in Seq(Outs) /\ owed' \in Nat /\ failed' \in Nat /\ nested' \in Nat
         /\ Complete'
<1>1. /\ fd \in Fds /\ buffer \in Seq(Chars) /\ out \in Seq(Outs)
      /\ owed \in Nat /\ failed \in Nat /\ nested \in Nat
  BY DEF Inv, TypeOK, Outs
<1>2. /\ \E sent \in Seq(Outs) : out' = out \o sent
      /\ owed' \in Nat /\ failed' \in Nat /\ nested' \in Nat
      /\ MayFail = {} /\ ~MayCut => out' = out \o Sent(fd, buffer) /\ owed' = owed
  BY <1>1, WriteEffect
<1>3. out' \in Seq(Outs)
  BY <1>1, <1>2, ConcatProperties
<1>4. Sent(fd, buffer) = buffer
  BY <1>1, SentType DEF Inv, Directed
<1>5. Complete'
  BY <1>2, <1>3, <1>4, ConcatEmptySeq DEF Inv, Complete
<1>6. << >> \in Seq(Chars) /\ Len(<< >>) < Size
  BY OutBufAssumption, EmptySeq
<1> QED
  BY <1>2, <1>3, <1>5, <1>6

(* A character is put: the buffer may be written out with it.              *)
LEMMA PutInv ==
  ASSUME Inv, ft_putchar_buf PROVE Inv'
<1> DEFINE c     == <<target, Len(issued) + 1>>
           chars == Append(buffer, c)
<1>1. /\ fd \in Fds /\ buffer \in Seq(Chars) /\ out \in Seq(Outs) /\ issued \in Seq(Chars)
      /\ owed \in Nat /\ failed \in Nat /\ nested \in Nat /\ Len(buffer) < Size
      /\ call # "none" /\ owed = 0 /\ Len(issued) < MaxChars /\ target = fd
      /\ Size \in Nat /\ MaxChars \in Nat
  BY OutBufAssumption DEF Inv, TypeOK, Outs, Directed, ft_putchar_buf
<1>2. c \in Chars /\ c[1] = fd
  BY <1>1 DEF Chars
<1>3. chars = Append(buffer, c) /\ chars \in Seq(Chars) /\ Len(chars) = Len(buffer) + 1
      /\ \A k \in 1 .. Len(chars) : chars[k][1] = fd
  BY <1>1, <1>2 DEF Inv, Directed
<1>4. issued' = Append(issued, c) /\ issued' \in Seq(Chars) /\ Len(issued') = Len(issued) + 1
  BY <1>1, <1>2 DEF ft_putchar_buf
<1> HIDE DEF c, chars
<1>5. Complete => (MayFail = {} /\ ~MayCut => issued' = out \o chars)
  <2> SUFFICES ASSUME issued = out \o buffer PROVE issued' = out \o chars
    BY DEF Complete
  <2>1. out \in Seq(Outs) /\ buffer \in Seq(Outs) /\ c \in Outs
    BY <1>1, <1>2, SeqMonotonic DEF Outs
  <2>2. Append(out \o buffer, c) = out \o Append(buffer, c)
    BY <2>1, AppendToSecond, SMTT(30)
  <2> QED
    BY <1>3, <1>4, <2>2, Zenon
<1>6. CASE Full(chars)
  <2>1. Write(fd, chars) /\ buffer' = << >>
    BY <1>6 DEF ft_putchar_buf, c, chars
  <2>2. /\ \E sent \in Seq(Outs) : out' = out \o sent
        /\ owed' \in Nat /\ failed' \in Nat /\ nested' \in Nat
        /\ MayFail = {} /\ ~MayCut => out' = out \o Sent(fd, chars) /\ owed' = owed
    BY <1>1, <1>3, <2>1, WriteEffect
  <2>3. out' \in Seq(Outs)
    BY <1>1, <2>2, ConcatProperties
  <2>4. Sent(fd, chars) = chars
    BY <1>1, <1>3, SentType
  <2>5. out' \o << >> = out'
    BY <2>3, ConcatEmptySeq
  <2>6. Complete'
    BY <1>1, <1>5, <2>1, <2>2, <2>4, <2>5 DEF Inv, Complete
  <2>7. << >> \in Seq(Chars) /\ Len(<< >>) = 0
    BY EmptySeq
  <2>8. TypeOK' /\ Bounded'
    BY <1>1, <1>4, <2>1, <2>2, <2>3, <2>7, SMTT(30) DEF Inv, TypeOK, Bounded, ft_putchar_buf, Outs
  <2>9. Directed' /\ Counted'
    BY <1>1, <2>1, <2>7 DEF Inv, TypeOK, Directed, Counted, ft_putchar_buf
  <2> QED
    BY <2>6, <2>8, <2>9 DEF Inv
<1>7. CASE ~Full(chars)
  <2>1. buffer' = chars /\ NoWrite
    BY <1>7 DEF ft_putchar_buf, c, chars
  <2>2. Complete'
    BY <1>1, <1>5, <2>1 DEF Inv, Complete, NoWrite
  <2>3. TypeOK' /\ Bounded'
    BY <1>1, <1>3, <1>4, <1>7, <2>1
       DEF Inv, TypeOK, Bounded, ft_putchar_buf, Outs, NoWrite, Full
  <2>4. Directed' /\ Counted'
    BY <1>1, <1>3, <2>1 DEF Inv, TypeOK, Directed, Counted, ft_putchar_buf
  <2> QED
    BY <2>2, <2>3, <2>4 DEF Inv
<1> QED
  BY <1>6, <1>7

(* A call that does not write leaves nothing owed and nothing lost.        *)
LEMMA Unwritten ==
  ASSUME Inv, NoWrite, UNCHANGED <<buffer, issued>>
  PROVE  /\ buffer' \in Seq(Chars) /\ Len(buffer') < Size
         /\ out' \in Seq(Outs) /\ owed' \in Nat /\ failed' \in Nat /\ nested' \in Nat
         /\ Complete'
BY DEF Inv, TypeOK, Outs, NoWrite, Complete

(* The descriptor is set: what the buffer holds afterwards is its own.     *)
LEMMA SetFd ==
  ASSUME Inv, NEW f \in Fds, ft_setfd_buf(f), issued' = issued
  PROVE  /\ buffer' \in Seq(Chars) /\ Len(buffer') < Size
         /\ out' \in Seq(Outs) /\ owed' \in Nat /\ failed' \in Nat /\ nested' \in Nat
         /\ Complete'
         /\ fd' = f /\ total' \in {0, total}
         /\ \A k \in 1 .. Len(buffer') : buffer'[k][1] = f
<1>1. CASE fd # f
  <2>1. Write(fd, buffer) /\ buffer' = << >> /\ total' = 0 /\ fd' = f
    BY <1>1 DEF ft_setfd_buf
  <2>2. \A k \in 1 .. Len(buffer') : buffer'[k][1] = f
    BY <2>1, EmptySeq
  <2> QED
    BY <2>1, <2>2, Flushed
<1>2. CASE fd = f
  <2>1. UNCHANGED <<buffer, total, fd>> /\ NoWrite
    BY <1>2 DEF ft_setfd_buf
  <2> QED
    BY <1>2, <2>1, Unwritten DEF Inv, Directed
<1> QED
  BY <1>1, <1>2

LEMMA BeginInv ==
  ASSUME Inv,
         BeginPrint \/ BeginPrinterr \/ \E f \in Fds : BeginPrintfd(f)
  PROVE  Inv'
<1>1. /\ 1 \in Fds /\ 2 \in Fds /\ fd = 1 /\ total = 0 /\ call = "none"
      /\ Len(issued) \in Nat /\ MaxChars \in Nat
  BY OutBufAssumption DEF Inv, TypeOK, Directed, Counted, Ready, BeginPrint, BeginPrinterr,
     BeginPrintfd, Fds
<1>2. CASE BeginPrint
  <2>1. /\ UNCHANGED <<buffer, fd, old_fd, result, issued, ended>> /\ NoWrite
        /\ total' = 0 /\ mine' = 0 /\ call' = "print" /\ target' = fd
    BY <1>2 DEF BeginPrint, Begin
  <2>2. TypeOK' /\ Bounded'
    BY <1>1, <2>1, Unwritten DEF Inv, TypeOK, Bounded, Calls, Outs
  <2>3. Directed' /\ Counted' /\ Complete'
    BY <1>1, <2>1, Unwritten DEF Inv, Directed, Counted
  <2> QED
    BY <2>2, <2>3 DEF Inv
<1>3. CASE BeginPrinterr
  <2>1. /\ UNCHANGED <<old_fd, result, issued, ended>> /\ ft_setfd_buf(2)
        /\ mine' = 0 /\ call' = "printerr" /\ target' = 2
    BY <1>3 DEF BeginPrinterr, Begin
  <2>2. TypeOK' /\ Bounded'
    BY <1>1, <2>1, SetFd DEF Inv, TypeOK, Bounded, Calls, Outs
  <2>3. Directed' /\ Counted' /\ Complete'
    BY <1>1, <2>1, SetFd DEF Inv, Directed, Counted
  <2> QED
    BY <2>2, <2>3 DEF Inv
<1>4. ASSUME NEW f \in Fds, BeginPrintfd(f) PROVE Inv'
  <2>1. /\ UNCHANGED <<result, issued, ended>> /\ ft_setfd_buf(f) /\ old_fd' = fd
        /\ mine' = 0 /\ call' = "printfd" /\ target' = f
    BY <1>4 DEF BeginPrintfd, Begin
  <2>2. TypeOK' /\ Bounded'
    BY <1>1, <2>1, SetFd DEF Inv, TypeOK, Bounded, Calls, Outs
  <2>3. Directed' /\ Counted' /\ Complete'
    BY <1>1, <2>1, SetFd DEF Inv, Directed, Counted
  <2> QED
    BY <2>2, <2>3 DEF Inv
<1> QED
  BY <1>2, <1>3, <1>4

LEMMA EndInv ==
  ASSUME Inv, EndPrint \/ EndPrinterr \/ EndPrintfd PROVE Inv'
<1>1. /\ 1 \in Fds /\ call # "none" /\ total = mine /\ target = fd
      /\ Len(issued) \in Nat /\ MaxChars \in Nat
  BY OutBufAssumption DEF Inv, TypeOK, Directed, Counted, EndPrint, EndPrinterr, EndPrintfd, Fds
<1>2. UNCHANGED <<target, old_fd, issued, mine>> /\ call' = "none" /\ result' = total /\ total' = 0 /\ ended' = call
  BY DEF EndPrint, EndPrinterr, EndPrintfd, End
<1>3. fd' = 1
  BY DEF EndPrint, EndPrinterr, EndPrintfd, Inv, Directed
<1>4. \/ Write(fd, buffer) /\ buffer' = << >>
      \/ NoWrite /\ buffer' = buffer /\ fd' = fd /\ call = "printfd"
  <2>1. CASE EndPrint
    BY <2>1 DEF EndPrint
  <2>2. CASE EndPrinterr
    BY <2>2 DEF EndPrinterr, Inv, Directed
  <2>3. CASE EndPrintfd
    BY <2>3 DEF EndPrintfd
  <2> QED
    BY <2>1, <2>2, <2>3
<1>5. /\ buffer' \in Seq(Chars) /\ Len(buffer') < Size
      /\ out' \in Seq(Outs) /\ owed' \in Nat /\ failed' \in Nat /\ nested' \in Nat
      /\ Complete'
  BY <1>2, <1>4, Flushed, Unwritten
<1>6. TypeOK' /\ Bounded'
  BY <1>1, <1>2, <1>3, <1>5 DEF Inv, TypeOK, Bounded, Calls, Outs
<1>7. Directed'
  <2>1. CASE buffer' = << >>
    BY <1>2, <1>3, <2>1, EmptySeq DEF Directed
  <2>2. CASE buffer' = buffer /\ fd' = fd /\ call = "printfd"
    BY <1>1, <1>2, <1>3, <2>2 DEF Directed, Inv
  <2> QED
    BY <1>4, <2>1, <2>2
<1>8. Counted'
  BY <1>1, <1>2 DEF Counted
<1> QED
  BY <1>5, <1>6, <1>7, <1>8 DEF Inv

LEMMA PerrorInv == ASSUME Inv, Perror PROVE Inv'
<1>1. ErrorText \in Outs /\ out \in Seq(Outs) /\ owed \in Nat \ {0} /\ nested \in Nat
  BY DEF Inv, TypeOK, Perror, Outs
<1>2. out' \in Seq(Outs) /\ owed' \in Nat /\ nested' \in Nat
  BY <1>1, SMTT(30) DEF Perror, PerrorWrites
<1>3. TypeOK' /\ Bounded'
  BY <1>2 DEF Inv, TypeOK, Bounded, Perror, Outs
<1>4. Directed' /\ Counted' /\ Complete'
  BY <1>1 DEF Inv, Directed, Counted, Complete, Perror
<1> QED
  BY <1>3, <1>4 DEF Inv

LEMMA StepInv == ASSUME Inv, [Next]_vars PROVE Inv'
<1>1. CASE UNCHANGED vars
  BY <1>1 DEF Inv, TypeOK, Bounded, Directed, Counted, Complete, vars
<1>2. CASE Idle
  BY <1>1, <1>2 DEF Idle
<1> QED
  BY <1>1, <1>2, BeginInv, PutInv, EndInv, PerrorInv DEF Next

LEMMA Invariance == Spec => []Inv
BY InitInv, StepInv, PTL DEF Spec
-----------------------------------------------------------------------------
(* The buffer always has room for one more character, so that none is      *)
(* stored beyond its end, whatever its size and whatever fails.            *)
THEOREM RoomForOne == Spec => []TypeOK
<1>1. Inv => TypeOK
  BY DEF Inv
<1> QED
  BY <1>1, Invariance, PTL

(* Nothing is lost, doubled or overtaken while no write fails or is cut.   *)
THEOREM NoLoss == Spec => []NothingLost
<1>1. Inv => NothingLost
  BY DEF Inv, Complete, NothingLost
<1> QED
  BY <1>1, Invariance, PTL

(* Between calls the buffer belongs to descriptor 1, and it is empty but   *)
(* for what printfd left there.                                            *)
THEOREM EmptyBetweenCalls == Spec => []IdleEmpty
<1>1. Inv => IdleEmpty
  BY DEF Inv, Directed, IdleEmpty
<1> QED
  BY <1>1, Invariance, PTL

(* Each call returns the number of its own characters.                     *)
THEOREM OwnCount == Spec => []CountsOwn
<1>1. Inv => CountsOwn
  BY DEF Inv, Counted, CountsOwn
<1> QED
  BY <1>1, Invariance, PTL
-----------------------------------------------------------------------------
(* What has been written is never taken back.                              *)
LEMMA Grows ==
  ASSUME Inv, [Next]_vars PROVE \E sent \in Seq(Outs) : out' = out \o sent
<1>1. /\ fd \in Fds /\ buffer \in Seq(Chars) /\ out \in Seq(Outs)
      /\ owed \in Nat /\ failed \in Nat /\ nested \in Nat
  BY DEF Inv, TypeOK, Outs
<1>2. CASE out' = out
  BY <1>1, <1>2, ConcatEmptySeq, EmptySeq
<1>3. CASE Write(fd, buffer)
  BY <1>1, <1>3, WriteEffect
<1>4. CASE ft_putchar_buf
  <2>1. Append(buffer, <<target, Len(issued) + 1>>) \in Seq(Chars)
    <3>1. /\ target \in Fds /\ Len(issued) + 1 \in 1 .. MaxChars
      BY <1>4, OutBufAssumption DEF Inv, TypeOK, ft_putchar_buf
    <3> QED
      BY <1>1, <3>1 DEF Chars
  <2>2. \/ Write(fd, Append(buffer, <<target, Len(issued) + 1>>))
        \/ out' = out
    BY <1>4 DEF ft_putchar_buf, NoWrite
  <2> QED
    BY <1>1, <1>2, <2>1, <2>2, WriteEffect
<1>5. CASE Perror
  <2>1. <<ErrorText>> \in Seq(Outs) /\ ErrorText \in Outs
    BY DEF Outs
  <2>2. out' = out \/ out' = out \o <<ErrorText>>
    BY <1>1, <1>5, <2>1, AppendIsConcat DEF Perror
  <2> QED
    BY <1>2, <2>1, <2>2
<1>6. Next => Write(fd, buffer) \/ out' = out \/ ft_putchar_buf \/ Perror
  BY DEF Next, BeginPrint, BeginPrinterr, BeginPrintfd, ft_setfd_buf, EndPrint, EndPrinterr,
     EndPrintfd, NoWrite, Idle, vars, Inv, Directed
<1> QED
  BY <1>2, <1>3, <1>4, <1>5, <1>6 DEF vars

(* The first part of a sequence is a prefix of it.                         *)
LEMMA FirstPart ==
  ASSUME NEW S, NEW s \in Seq(S), NEW t \in Seq(S)
  PROVE  AbstractStreams!PrefixOf(s, s \o t)
BY ConcatProperties DEF AbstractStreams!PrefixOf

LEMMA InitRefines == Init => AbstractStreams!Init
BY DEF Init, AbstractStreams!Init

LEMMA StepRefines ==
  ASSUME MayFail = {}, ~MayCut, Inv, Inv', [Next]_vars
  PROVE  [AbstractStreams!Next]_<<issued, out, call # "none" \/ buffer # << >>>>
<1>1. /\ out \in Seq(Outs) /\ buffer \in Seq(Outs) /\ issued = out \o buffer /\ owed = 0
  BY SeqMonotonic DEF Inv, TypeOK, Complete, Outs
<1>2. /\ out' \in Seq(Outs) /\ buffer' \in Seq(Outs) /\ issued' = out' \o buffer'
  BY SeqMonotonic DEF Inv, TypeOK, Complete, Outs
<1>3. CASE UNCHANGED vars
  BY <1>3 DEF vars
<1>4. CASE Next /\ call = "none" /\ buffer = << >>
  <2>1. CASE Idle
    BY <1>3, <2>1 DEF Idle
  <2>2. CASE BeginPrint \/ BeginPrinterr \/ \E f \in Fds : BeginPrintfd(f)
    <3>1. call' # "none" /\ UNCHANGED issued /\ (buffer' = << >> \/ buffer' = buffer)
      BY <2>2 DEF BeginPrint, BeginPrinterr, BeginPrintfd, Begin, ft_setfd_buf
    <3>2. out = issued /\ out' = issued'
      BY <1>1, <1>2, <1>4, <3>1, ConcatEmptySeq
    <3>3. AbstractStreams!Call
      BY <1>4, <3>1, <3>2 DEF AbstractStreams!Call
    <3> QED
      BY <3>3 DEF AbstractStreams!Next
  <2> QED
    BY <1>1, <1>4, <2>1, <2>2
       DEF Next, ft_putchar_buf, EndPrint, EndPrinterr, EndPrintfd, Perror
<1>5. CASE Next /\ (call # "none" \/ buffer # << >>)
  <2>1. AbstractStreams!PrefixOf(out, out')
    <3>1. PICK sent \in Seq(Outs) : out' = out \o sent
      BY Grows
    <3> QED
      BY <1>1, <3>1, FirstPart
  <2>2. AbstractStreams!PrefixOf(out', issued')
    BY <1>2, FirstPart
  <2>3. buffer' = << >> => out' = issued'
    BY <1>2, ConcatEmptySeq
  <2>4. \/ UNCHANGED issued
        \/ \E f \in Fds : issued' = Append(issued, <<f, Len(issued) + 1>>)
    <3>1. target \in Fds
      BY DEF Inv, TypeOK
    <3>2. CASE ft_putchar_buf
      BY <3>1, <3>2 DEF ft_putchar_buf
    <3> QED
      BY <1>5, <3>2 DEF Next, BeginPrint, BeginPrinterr, BeginPrintfd, Begin, EndPrint,
         EndPrinterr, EndPrintfd, End, Perror, Idle, vars
  <2>5. AbstractStreams!Step
    BY <1>5, <2>1, <2>2, <2>3, <2>4 DEF AbstractStreams!Step
  <2> QED
    BY <2>5 DEF AbstractStreams!Next
<1> QED
  BY <1>3, <1>4, <1>5

(* While no write fails or is cut, the buffered output implements the      *)
(* streams, for a buffer of any size.                                      *)
THEOREM BufferImplementsStreams ==
  ASSUME MayFail = {}, ~MayCut
  PROVE  Spec => ImplementsStreams
<1>1. Inv /\ Inv' /\ [Next]_vars
        => [AbstractStreams!Next]_<<issued, out, call # "none" \/ buffer # << >>>>
  BY StepRefines
<1> QED
  BY <1>1, InitRefines, Invariance, PTL DEF Spec, ImplementsStreams, AbstractStreams!Spec
-----------------------------------------------------------------------------
(* What holds of a write whether it fails or is cut or not: the first      *)
(* characters it is given, some or none of them, follow what was written,  *)
(* and one that fails owes its report.                                     *)
WritesFirst(chars) ==
  /\ out' \in Seq(Outs)
  /\ Len(out) <= Len(out') /\ Len(out') - Len(out) <= Len(chars)
  /\ \A k \in 1 .. Len(out) : out'[k] = out[k]
  /\ \A k \in Len(out) + 1 .. Len(out') : out'[k] = chars[k - Len(out)]

Owes == owed' + 2 * failed + nested = owed + 2 * failed' + nested'

LEMMA NothingWritten ==
  ASSUME out \in Seq(Outs), NEW chars \in Seq(Chars), out' = out
  PROVE  WritesFirst(chars)
BY DEF WritesFirst

LEMMA SomeWritten ==
  ASSUME out \in Seq(Outs), NEW chars \in Seq(Chars), NEW n \in 0 .. Len(chars),
         NEW sent \in Seq(Outs), Len(sent) = n, \A k \in 1 .. n : sent[k] = chars[k],
         out' = out \o sent
  PROVE  WritesFirst(chars)
<1>0. Len(out) \in Nat /\ Len(sent) \in Nat
  BY LenProperties
<1>3. /\ out' \in Seq(Outs) /\ Len(out') = Len(out) + Len(sent)
      /\ \A k \in 1 .. Len(out) + Len(sent) :
           out'[k] = IF k <= Len(out) THEN out[k] ELSE sent[k - Len(out)]
  BY ConcatProperties
<1>1. /\ Len(out') = Len(out) + n
      /\ \A k \in 1 .. Len(out) : out'[k] = out[k]
      /\ \A k \in 1 .. n : out'[Len(out) + k] = sent[k]
  BY <1>0, <1>3
<1>2. ASSUME NEW k \in Len(out) + 1 .. Len(out') PROVE out'[k] = chars[k - Len(out)]
  <2>1. k - Len(out) \in 1 .. n /\ Len(out) + (k - Len(out)) = k
    BY <1>0, <1>1
  <2> QED
    BY <1>1, <2>1
<1> QED
  BY <1>0, <1>1, <1>2, <1>3 DEF WritesFirst

LEMMA WriteWritesFirst ==
  ASSUME NEW f \in Fds, NEW chars \in Seq(Chars), Write(f, chars),
         \A k \in 1 .. Len(chars) : chars[k][1] = f,
         out \in Seq(Outs), owed = 0, failed \in Nat, nested \in Nat
  PROVE  WritesFirst(chars) /\ Owes
<1>0. Len(chars) \in Nat /\ \A k \in 1 .. Len(chars) : chars[k] \in Chars
  OBVIOUS
<1>1. CASE out' = out \o Sent(f, chars) /\ UNCHANGED <<owed, failed, nested>>
  <2>1. Sent(f, chars) = chars /\ chars \in Seq(Outs)
    BY SentType, SeqMonotonic DEF Outs
  <2>2. WritesFirst(chars)
    BY <1>0, <1>1, <2>1, SomeWritten
  <2> QED
    BY <1>1, <2>2 DEF Owes
<1>2. CASE /\ MayCut
           /\ \E k \in 1 .. Len(chars) - 1 : out' = out \o Sent(f, SubSeq(chars, 1, k))
           /\ UNCHANGED <<owed, failed, nested>>
  <2>1. PICK n \in 1 .. Len(chars) - 1 : out' = out \o Sent(f, SubSeq(chars, 1, n))
    BY <1>2
  <2> DEFINE part == SubSeq(chars, 1, n)
  <2>2. /\ part \in Seq(Chars) /\ Len(part) = n
        /\ \A k \in 1 .. n : part[k] = chars[k]
    BY <1>0, SubSeqProperties
  <2>3. \A k \in 1 .. Len(part) : part[k][1] = f
    BY <1>0, <2>2
  <2> HIDE DEF part
  <2>4. Sent(f, part) = part /\ part \in Seq(Outs)
    BY <2>2, <2>3, SentType, SeqMonotonic DEF Outs
  <2>5. n \in 0 .. Len(chars)
    BY <1>0
  <2>6. WritesFirst(chars)
    BY <2>1, <2>2, <2>4, <2>5, SomeWritten DEF part
  <2> QED
    BY <1>2, <2>6 DEF Owes
<1>3. CASE /\ f \in MayFail /\ failed + nested < MaxFailed
           /\ owed' = PerrorWrites /\ failed' = failed + 1
           /\ UNCHANGED <<out, nested>>
  BY <1>3, NothingWritten DEF Owes, PerrorWrites
<1> QED
  BY <1>1, <1>2, <1>3 DEF Write
-----------------------------------------------------------------------------
(* What has been written and what waits are characters of the program,     *)
(* each once and in the order in which they were printed.                  *)
FromProgram(c) == c[2] \in 1 .. Len(issued) /\ c = issued[c[2]]

WrittenInOrder ==
  /\ \A k \in Written : FromProgram(out[k])
  /\ \A j, k \in Written : j < k => out[j][2] < out[k][2]

InOrder ==
  /\ WrittenInOrder
  /\ \A k \in 1 .. Len(buffer) : FromProgram(buffer[k])
  /\ \A k \in 1 .. Len(buffer) : \A j \in 1 .. k - 1 : buffer[j][2] < buffer[k][2]
  /\ \A j \in Written : \A k \in 1 .. Len(buffer) : out[j][2] < buffer[k][2]


(* The kinds of steps: nothing is written; the buffer is written out; a    *)
(* character is put; an error is reported.                                 *)
LEMMA StepKinds ==
  ASSUME Inv, [Next]_vars
  PROVE  \/ NoWrite /\ UNCHANGED <<buffer, issued>>
         \/ owed = 0 /\ Write(fd, buffer) /\ buffer' = << >> /\ UNCHANGED issued
         \/ ft_putchar_buf
         \/ Perror
<1>1. CASE BeginPrint \/ BeginPrinterr \/ \E f \in Fds : BeginPrintfd(f)
  BY <1>1 DEF BeginPrint, BeginPrinterr, BeginPrintfd, Begin, ft_setfd_buf, Ready
<1>2. CASE EndPrint
  BY <1>2 DEF EndPrint, End
<1>3. CASE EndPrinterr
  BY <1>3 DEF EndPrinterr, End, Inv, Directed
<1>4. CASE EndPrintfd
  BY <1>4 DEF EndPrintfd, End
<1>5. CASE UNCHANGED vars
  BY <1>5 DEF vars, NoWrite
<1> QED
  BY <1>1, <1>2, <1>3, <1>4, <1>5 DEF Next, Idle

(* Characters that are printed in order and after what was written stay so *)
(* when the first ones are written, also while one more is printed.        *)
LEMMA WrittenStaysInOrder ==
  ASSUME out \in Seq(Outs), issued \in Seq(Chars), issued' \in Seq(Chars), WrittenInOrder,
         NEW chars \in Seq(Chars), WritesFirst(chars), buffer' = << >>,
         Len(issued) <= Len(issued'), \A k \in 1 .. Len(issued) : issued'[k] = issued[k],
         \A k \in 1 .. Len(chars) : FromProgram(chars[k])',
         \A k \in 1 .. Len(chars) : \A j \in 1 .. k - 1 : chars[j][2] < chars[k][2],
         \A j \in Written : \A k \in 1 .. Len(chars) : out[j][2] < chars[k][2]
  PROVE  InOrder'
<1>1. Len(out) \in Nat /\ Len(out') \in Nat /\ Len(chars) \in Nat
      /\ Len(issued) \in Nat /\ Len(issued') \in Nat /\ out' \in Seq(Outs)
  BY LenProperties DEF WritesFirst
<1>2. \A k \in Written' :
         \/ k \in Written /\ out'[k] = out[k]
         \/ k > Len(out) /\ k - Len(out) \in 1 .. Len(chars) /\ out'[k] = chars[k - Len(out)]
  BY <1>1 DEF Written, WritesFirst
<1>3. ASSUME NEW k \in Written' PROVE FromProgram(out[k])'
  <2>1. CASE k \in Written /\ out'[k] = out[k]
    BY <1>1, <2>1, SMTT(30) DEF WrittenInOrder, FromProgram
  <2>2. CASE k - Len(out) \in 1 .. Len(chars) /\ out'[k] = chars[k - Len(out)]
    BY <1>1, <2>2 DEF FromProgram
  <2> QED
    BY <1>2, <2>1, <2>2
<1>4. ASSUME NEW j \in Written', NEW k \in Written', j < k PROVE out'[j][2] < out'[k][2]
  <2>0. j \in Nat /\ k \in Nat
    BY <1>1 DEF Written
  <2>1. CASE k \in Written /\ out'[k] = out[k]
    <3>1. j \in Written /\ out'[j] = out[j]
      BY <1>1, <1>2, <1>4, <2>0, <2>1 DEF Written
    <3> QED
      BY <1>4, <2>1, <3>1 DEF WrittenInOrder
  <2>2. CASE k - Len(out) \in 1 .. Len(chars) /\ out'[k] = chars[k - Len(out)]
    <3>1. CASE j \in Written /\ out'[j] = out[j]
      BY <2>2, <3>1
    <3>2. CASE j - Len(out) \in 1 .. Len(chars) /\ out'[j] = chars[j - Len(out)]
      <4>1. j - Len(out) \in 1 .. (k - Len(out)) - 1
        BY <1>1, <1>4, <2>0, <3>2
      <4> QED
        BY <2>2, <3>2, <4>1
    <3> QED
      BY <1>2, <3>1, <3>2
  <2> QED
    BY <1>2, <2>1, <2>2
<1>5. 1 .. Len(buffer') = {}
  BY EmptySeq
<1> QED
  BY <1>3, <1>4, <1>5 DEF InOrder, WrittenInOrder

LEMMA PutInOrder == ASSUME Inv, InOrder, ft_putchar_buf PROVE InOrder'
<1>0. PICK c : c = <<target, Len(issued) + 1>>
  OBVIOUS
<1>13. PICK chars : chars = Append(buffer, c)
  OBVIOUS
<1>1. /\ fd \in Fds /\ buffer \in Seq(Chars) /\ out \in Seq(Outs) /\ issued \in Seq(Chars)
      /\ owed = 0 /\ failed \in Nat /\ nested \in Nat /\ target = fd
      /\ Len(issued) < MaxChars /\ MaxChars \in Nat /\ Len(issued) \in Nat /\ Len(buffer) \in Nat
  BY OutBufAssumption, LenProperties DEF Inv, TypeOK, Outs, Directed, ft_putchar_buf
<1>2. c \in Chars /\ c[1] = fd /\ c[2] = Len(issued) + 1
  BY <1>0, <1>1 DEF Chars
<1>3. /\ chars \in Seq(Chars) /\ Len(chars) = Len(buffer) + 1
      /\ \A k \in 1 .. Len(buffer) : chars[k] = buffer[k]
      /\ chars[Len(buffer) + 1] = c
  BY <1>1, <1>2, <1>13, AppendProperties
<1>4. /\ issued' \in Seq(Chars) /\ Len(issued') = Len(issued) + 1
      /\ \A k \in 1 .. Len(issued) : issued'[k] = issued[k]
      /\ issued'[Len(issued) + 1] = c
  BY <1>0, <1>1, <1>2, AppendProperties DEF ft_putchar_buf
<1>5. /\ Full(chars) => Write(fd, chars) /\ buffer' = << >>
      /\ ~Full(chars) => NoWrite /\ buffer' = chars
  BY <1>0, <1>13 DEF ft_putchar_buf
<1>6. \A k \in 1 .. Len(chars) : \/ k \in 1 .. Len(buffer) /\ chars[k] = buffer[k]
                                 \/ k = Len(buffer) + 1 /\ chars[k] = c
  BY <1>1, <1>3
<1>7. \A k \in 1 .. Len(chars) : chars[k][1] = fd
  BY <1>2, <1>6 DEF Inv, Directed
<1>8. \A k \in 1 .. Len(chars) : FromProgram(chars[k])'
  <2>1. \A k \in 1 .. Len(buffer) :
           buffer[k][2] \in 1 .. Len(issued') /\ buffer[k] = issued'[buffer[k][2]]
    BY <1>1, <1>4 DEF InOrder, FromProgram
  <2>2. c[2] \in 1 .. Len(issued') /\ c = issued'[c[2]]
    BY <1>1, <1>2, <1>4
  <2>4. \A k \in 1 .. Len(chars) :
           chars[k][2] \in 1 .. Len(issued') /\ chars[k] = issued'[chars[k][2]]
    BY <1>6, <2>1, <2>2, Zenon
  <2> QED
    BY <2>4 DEF FromProgram
<1>9. \A k \in 1 .. Len(chars) : \A j \in 1 .. k - 1 : chars[j][2] < chars[k][2]
  <2> SUFFICES ASSUME NEW k \in 1 .. Len(chars), NEW j \in 1 .. k - 1
               PROVE  chars[j][2] < chars[k][2]
    OBVIOUS
  <2>1. j \in 1 .. Len(buffer) /\ chars[j] = buffer[j]
    BY <1>1, <1>3
  <2>2. buffer[j][2] \in 1 .. Len(issued)
    BY <2>1 DEF InOrder, FromProgram
  <2>3. CASE k \in 1 .. Len(buffer) /\ chars[k] = buffer[k]
    BY <2>1, <2>3 DEF InOrder
  <2>4. CASE chars[k] = c
    BY <1>1, <1>2, <2>1, <2>2, <2>4
  <2> QED
    BY <1>6, <2>3, <2>4
<1>10. \A j \in Written : \A k \in 1 .. Len(chars) : out[j][2] < chars[k][2]
  BY <1>1, <1>2, <1>6, SMTT(30) DEF InOrder, WrittenInOrder, FromProgram
<1>11. CASE Full(chars)
  <2>1. WritesFirst(chars)
    BY <1>1, <1>3, <1>5, <1>7, <1>11, WriteWritesFirst
  <2>2. WrittenInOrder
    BY DEF InOrder
  <2>3. /\ issued' \in Seq(Chars) /\ Len(issued) <= Len(issued')
        /\ \A k \in 1 .. Len(issued) : issued'[k] = issued[k]
    BY <1>1, <1>4
  <2>4. buffer' = << >>
    BY <1>5, <1>11
  <2> QED
    BY <1>1, <1>3, <1>8, <1>9, <1>10, <2>1, <2>2, <2>3, <2>4, WrittenStaysInOrder
<1>12. CASE ~Full(chars)
  <2>1. out' = out /\ buffer' = chars /\ Written' = Written
    BY <1>5, <1>12 DEF NoWrite, Written
  <2>2. WrittenInOrder'
    BY <1>1, <1>4, <2>1, SMTT(30) DEF InOrder, WrittenInOrder, FromProgram
  <2> QED
    BY <1>8, <1>9, <1>10, <2>1, <2>2 DEF InOrder
<1> QED
  BY <1>11, <1>12

LEMMA ReportInOrder == ASSUME Inv, InOrder, Perror PROVE InOrder'
<1>1. /\ ErrorText \in Outs /\ out \in Seq(Outs) /\ Len(out) \in Nat
      /\ UNCHANGED <<buffer, issued>> /\ (out' = Append(out, ErrorText) \/ out' = out)
  BY LenProperties DEF Inv, TypeOK, Perror, Outs
<1>2. Written' = Written /\ \A k \in Written : out'[k] = out[k]
  BY <1>1, AppendProperties DEF Written
<1> QED
  BY <1>1, <1>2 DEF InOrder, WrittenInOrder, FromProgram

LEMMA StepInOrder == ASSUME Inv, InOrder, [Next]_vars PROVE InOrder'
<1>1. CASE NoWrite /\ UNCHANGED <<buffer, issued>>
  BY <1>1 DEF InOrder, WrittenInOrder, FromProgram, NoWrite, Written
<1>2. CASE owed = 0 /\ Write(fd, buffer) /\ buffer' = << >> /\ UNCHANGED issued
  <2>1. /\ fd \in Fds /\ buffer \in Seq(Chars) /\ issued \in Seq(Chars) /\ out \in Seq(Outs)
        /\ failed \in Nat /\ nested \in Nat /\ Len(issued) \in Nat
        /\ \A k \in 1 .. Len(buffer) : buffer[k][1] = fd
    BY LenProperties DEF Inv, TypeOK, Directed, Outs
  <2>2. PICK chars : chars = buffer
    OBVIOUS
  <2>3. WritesFirst(chars)
    BY <1>2, <2>1, <2>2, WriteWritesFirst
  <2>4. \A k \in 1 .. Len(chars) : FromProgram(chars[k])'
    BY <1>2, <2>2 DEF InOrder, FromProgram
  <2>5. /\ \A k \in 1 .. Len(chars) : \A j \in 1 .. k - 1 : chars[j][2] < chars[k][2]
        /\ \A j \in Written : \A k \in 1 .. Len(chars) : out[j][2] < chars[k][2]
    BY <2>2 DEF InOrder
  <2> QED
    BY <1>2, <2>1, <2>2, <2>3, <2>4, <2>5, WrittenStaysInOrder DEF InOrder
<1> QED
  BY <1>1, <1>2, StepKinds, PutInOrder, ReportInOrder

(* Whatever fails or is cut, a character is written at most once, in order *)
(* and to the descriptor of its call.                                      *)
THEOREM NothingMixed == Spec => []NeverMixed
<1>1. Init => InOrder
  BY EmptySeq DEF Init, InOrder, WrittenInOrder, Written
<1>2. InOrder => NeverMixed
  BY DEF InOrder, WrittenInOrder, FromProgram, NeverMixed
<1> QED
  BY <1>1, <1>2, StepInOrder, Invariance, PTL DEF Spec
-----------------------------------------------------------------------------
(* The errors written are finitely many, and a write of characters of the  *)
(* program adds none.                                                      *)
LEMMA ReportsFinite ==
  ASSUME out \in Seq(Outs)
  PROVE  /\ IsFiniteSet(Reports) /\ Cardinality(Reports) \in Nat
         /\ Reports \subseteq 1 .. Len(out)
<1>1. IsFiniteSet(1 .. Len(out))
  BY LenProperties, FS_Interval
<1>2. Reports \subseteq 1 .. Len(out)
  BY DEF Reports
<1>3. IsFiniteSet(Reports)
  BY <1>1, <1>2, FS_Subset
<1> QED
  BY <1>2, <1>3, FS_CardinalityType

LEMMA WriteOwes ==
  ASSUME NEW f \in Fds, NEW chars \in Seq(Chars), Write(f, chars),
         \A k \in 1 .. Len(chars) : chars[k][1] = f,
         out \in Seq(Outs), owed = 0, failed \in Nat, nested \in Nat
  PROVE  Reports' = Reports /\ Owes
<1>1. WritesFirst(chars) /\ Owes
  BY WriteWritesFirst
<1>2. \A k \in 1 .. Len(chars) : chars[k] # ErrorText
  BY OutBufAssumption DEF Chars, ErrorText
<1>3. Len(out) \in Nat /\ Len(out') \in Nat /\ Len(chars) \in Nat
  BY <1>1, LenProperties DEF WritesFirst
<1>4. \A k \in 1 .. Len(out') : \/ k \in 1 .. Len(out)
                                \/ k \in Len(out) + 1 .. Len(out') /\ k - Len(out) \in 1 .. Len(chars)
  BY <1>1, <1>3 DEF WritesFirst
<1>5. \A k \in 1 .. Len(out) : k \in 1 .. Len(out') /\ out'[k] = out[k]
  BY <1>1, <1>3 DEF WritesFirst
<1>6. \A k \in Len(out) + 1 .. Len(out') : out'[k] = chars[k - Len(out)]
  BY <1>1 DEF WritesFirst
<1>7. Reports' = Reports
  BY <1>2, <1>4, <1>5, <1>6 DEF Reports
<1> QED
  BY <1>1, <1>7

LEMMA StepReported == ASSUME Inv, EveryFailureReported, [Next]_vars PROVE EveryFailureReported'
<1>1. /\ fd \in Fds /\ buffer \in Seq(Chars) /\ out \in Seq(Outs) /\ Len(out) \in Nat
      /\ owed \in Nat /\ failed \in Nat /\ nested \in Nat /\ target \in Fds
      /\ Cardinality(Reports) \in Nat /\ IsFiniteSet(Reports) /\ Reports \subseteq 1 .. Len(out)
      /\ owed' \in Nat /\ failed' \in Nat /\ nested' \in Nat
  BY StepInv, ReportsFinite, LenProperties DEF Inv, TypeOK, Outs
<1>2. CASE NoWrite
  BY <1>2 DEF NoWrite, EveryFailureReported, Reports
<1>3. ASSUME Reports' = Reports, Owes PROVE EveryFailureReported'
  <2>1. PICK n \in Nat : n = Cardinality(Reports)
    BY <1>1
  <2>2. n = Cardinality(Reports')
    BY <1>3, <2>1
  <2>3. owed + n = 2 * failed + nested
    BY <2>1 DEF EveryFailureReported
  <2>4. owed' + 2 * failed + nested = owed + 2 * failed' + nested'
    BY <1>3 DEF Owes
  <2>5. owed' + n = 2 * failed' + nested'
    <3>1. /\ owed \in Nat /\ failed \in Nat /\ nested \in Nat
          /\ owed' \in Nat /\ failed' \in Nat /\ nested' \in Nat
      BY <1>1
    <3> QED
      BY <2>1, <2>3, <2>4, <3>1
  <2> QED
    BY <2>2, <2>5 DEF EveryFailureReported
<1>4. CASE owed = 0 /\ Write(fd, buffer)
  <2>1. \A k \in 1 .. Len(buffer) : buffer[k][1] = fd
    BY DEF Inv, Directed
  <2>2. Reports' = Reports /\ Owes
    BY <1>1, <1>4, <2>1, WriteOwes
  <2> QED
    BY <1>3, <2>2
<1>5. CASE ft_putchar_buf
  <2>1. PICK c, chars : c = <<target, Len(issued) + 1>> /\ chars = Append(buffer, c)
    OBVIOUS
  <2>2. c \in Chars /\ c[1] = fd
    BY <1>1, <1>5, <2>1, OutBufAssumption DEF Chars, Inv, TypeOK, Directed, ft_putchar_buf
  <2>3. chars \in Seq(Chars) /\ \A k \in 1 .. Len(chars) : chars[k][1] = fd
    BY <1>1, <2>1, <2>2, AppendProperties DEF Inv, Directed
  <2>4. owed = 0 /\ (NoWrite \/ Write(fd, chars))
    BY <1>5, <2>1 DEF ft_putchar_buf
  <2>5. CASE Write(fd, chars)
    <3>1. Reports' = Reports /\ Owes
      BY <1>1, <2>3, <2>4, <2>5, WriteOwes
    <3> QED
      BY <1>3, <3>1
  <2> QED
    BY <1>2, <2>4, <2>5
<1>6. CASE Perror
  <2>1. CASE out' = Append(out, ErrorText) /\ owed' = owed - 1 /\ UNCHANGED nested
    <3>1. /\ Len(out') = Len(out) + 1 /\ out'[Len(out) + 1] = ErrorText
          /\ \A k \in 1 .. Len(out) : out'[k] = out[k]
      BY <1>1, <2>1, AppendProperties DEF Outs
    <3>2. Reports' = Reports \cup {Len(out) + 1} /\ Len(out) + 1 \notin Reports
      BY <1>1, <3>1 DEF Reports
    <3>3. Cardinality(Reports') = Cardinality(Reports) + 1
      BY <1>1, <3>2, FS_AddElement
    <3> QED
      BY <1>1, <1>6, <2>1, <3>3 DEF EveryFailureReported, Perror
  <2>2. CASE out' = out /\ owed' = owed - 1 + PerrorWrites /\ nested' = nested + 1
    <3>1. Reports' = Reports
      BY <2>2 DEF Reports
    <3> QED
      BY <1>1, <1>6, <2>2, <3>1, SMTT(30) DEF EveryFailureReported, Perror, PerrorWrites
  <2> QED
    BY <1>6, <2>1, <2>2 DEF Perror
<1> QED
  BY <1>2, <1>4, <1>5, <1>6, StepKinds

(* Every failing write is reported on descriptor 2, those of the reports   *)
(* themselves included, or its report is still owed.                       *)
THEOREM FailuresReported == Spec => []EveryFailureReported
<1>1. Init => EveryFailureReported
  <2> SUFFICES ASSUME Init PROVE EveryFailureReported
    OBVIOUS
  <2>1. Reports = {}
    BY EmptySeq DEF Init, Reports
  <2> QED
    BY <2>1, FS_EmptySet DEF Init, EveryFailureReported
<1> QED
  BY <1>1, StepReported, Invariance, PTL DEF Spec
=============================================================================
