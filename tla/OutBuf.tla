------------------------------- MODULE OutBuf --------------------------------
(***************************************************************************)
(* The output buffer of libft and the three calls of printf/wrappers.c     *)
(* that use it.  One buffer serves all descriptors: ft_setfd_buf flushes   *)
(* it before it changes the descriptor.  A write that fails is reported on *)
(* descriptor 2 by ft_perror, unbuffered, and the characters are lost.     *)
(*                                                                         *)
(* A character is the descriptor of the call that printed it and its       *)
(* number, counted over the whole run.  Formatting is left out: between    *)
(* its begin and its end a call puts any number of characters.             *)
(***************************************************************************)
EXTENDS Naturals, Sequences, FiniteSets

CONSTANTS
  Size,       \* size of the buffer
  OtherFds,   \* descriptors printfd may be called with
  MayFail,    \* descriptors on which write may return -1
  MayCut,     \* write may write less than it was given
  MaxChars,   \* bound on the characters printed
  MaxFailed   \* bound on the number of failing writes

ASSUME OutBufAssumption ==
  /\ Size \in Nat \ {0} /\ MaxChars \in Nat /\ MaxFailed \in Nat
  /\ OtherFds \subseteq Nat
  /\ MayFail \subseteq OtherFds \cup {1, 2}
  /\ MayCut \in BOOLEAN

VARIABLES
  buffer,   \* the characters in the buffer
  fd,       \* buf.fd
  total,    \* buf.total
  call,     \* the call in progress, or "none"
  target,   \* the descriptor the call prints to
  old_fd,   \* printfd's local
  owed,     \* writes that ft_perror, and ft_perror inside it, still have to do
  result,   \* what the last call returned
  issued,   \* history: every character printed
  out,      \* history: every character written, and ErrorText
  failed,   \* history: the writes of the buffer that failed
  nested,   \* history: the writes of ft_perror that failed
  mine,     \* history: the characters printed by the call in progress
  ended     \* history: the call that ended last

vars == <<buffer, fd, total, call, target, old_fd, owed, result, issued, out, failed,
          nested, mine, ended>>

Fds == {1, 2} \cup OtherFds
Calls == {"print", "printerr", "printfd"}

ErrorText == <<2, 0>>

Init ==
  /\ buffer = << >> /\ fd = 1 /\ total = 0
  /\ call = "none" /\ target = 1 /\ old_fd = 1 /\ owed = 0 /\ result = 0
  /\ issued = << >> /\ out = << >> /\ failed = 0 /\ nested = 0 /\ mine = 0
  /\ ended = "none"

Sent(f, chars) == [k \in 1 .. Len(chars) |-> <<f, chars[k][2]>>]

(* A wrong report: ft_perror is not called.                                *)
PerrorWritesNothing == 0

(* ft_perror(NULL) writes the message and a newline.                       *)
PerrorWrites == 2

(* write(f, chars): all of them, the first ones only, or an error, which   *)
(* is reported by ft_perror.                                               *)
Write(f, chars) ==
  \/ /\ out' = out \o Sent(f, chars)
     /\ UNCHANGED <<owed, failed, nested>>
  \/ /\ MayCut
     /\ \E k \in 1 .. Len(chars) - 1 : out' = out \o Sent(f, SubSeq(chars, 1, k))
     /\ UNCHANGED <<owed, failed, nested>>
  \/ /\ f \in MayFail /\ failed + nested < MaxFailed
     /\ owed' = PerrorWrites /\ failed' = failed + 1
     /\ UNCHANGED <<out, nested>>

NoWrite == UNCHANGED <<out, owed, failed, nested>>

(* A wrong switch: the buffer is kept when the descriptor changes.         *)
ft_setfd_buf_keeping(f) ==
  fd' = f /\ UNCHANGED <<buffer, total>> /\ NoWrite

(* ft_setfd_buf: flush, which also clears the total, if the descriptor     *)
(* changes.                                                                *)
ft_setfd_buf(f) ==
  IF fd # f
  THEN Write(fd, buffer) /\ buffer' = << >> /\ total' = 0 /\ fd' = f
  ELSE UNCHANGED <<buffer, total, fd>> /\ NoWrite

Ready == owed = 0 /\ call = "none"

Begin(c, f) ==
  /\ call' = c /\ target' = f /\ mine' = 0
  /\ UNCHANGED <<result, issued, ended>>

(* print: the total is cleared, the descriptor taken as it is.             *)
BeginPrint ==
  /\ Ready /\ Len(issued) < MaxChars
  /\ Begin("print", fd)
  /\ total' = 0
  /\ UNCHANGED <<buffer, fd, old_fd>> /\ NoWrite

BeginPrinterr ==
  /\ Ready /\ Len(issued) < MaxChars
  /\ Begin("printerr", 2)
  /\ ft_setfd_buf(2)
  /\ UNCHANGED old_fd

BeginPrintfd(f) ==
  /\ Ready /\ Len(issued) < MaxChars
  /\ Begin("printfd", f)
  /\ old_fd' = fd
  /\ ft_setfd_buf(f)

(* A wrong test: the buffer is flushed one character too late.             *)
FullLate(chars) == Len(chars) > Size

(* buffer->pos >= buffer->size                                             *)
Full(chars) == Len(chars) >= Size

(* ft_putchar_buf: store, count, and write the buffer out when it is full. *)
ft_putchar_buf ==
  /\ call # "none" /\ owed = 0 /\ Len(issued) < MaxChars
  /\ LET c     == <<target, Len(issued) + 1>>
         chars == Append(buffer, c)
     IN  /\ issued' = Append(issued, c)
         /\ IF Full(chars)
            THEN Write(fd, chars) /\ buffer' = << >>
            ELSE buffer' = chars /\ NoWrite
  /\ total' = total + 1 /\ mine' = mine + 1
  /\ UNCHANGED <<fd, call, target, old_fd, result, ended>>

End(r) ==
  /\ call' = "none" /\ ended' = call /\ result' = r
  /\ UNCHANGED <<target, old_fd, issued, mine>>

(* A wrong end: the characters stay in the buffer.                         *)
EndPrintUnflushed ==
  /\ call = "print" /\ owed = 0
  /\ End(total) /\ total' = 0
  /\ UNCHANGED <<fd, buffer>> /\ NoWrite

(* ft_flush_buf: write, and return and clear the total.                    *)
EndPrint ==
  /\ call = "print" /\ owed = 0
  /\ Write(fd, buffer) /\ buffer' = << >>
  /\ End(total) /\ total' = 0
  /\ UNCHANGED fd

(* ft_flush_total, then back to descriptor 1.                              *)
EndPrinterr ==
  /\ call = "printerr" /\ owed = 0
  /\ End(total)
  /\ Write(2, buffer) /\ buffer' = << >> /\ total' = 0 /\ fd' = 1

(* A wrong end: the total is read and not cleared.                         *)
EndPrintfdKeepsTotal ==
  /\ call = "printfd" /\ owed = 0
  /\ End(total)
  /\ IF fd # old_fd
     THEN Write(fd, buffer) /\ buffer' = << >> /\ fd' = old_fd /\ total' = 0
     ELSE UNCHANGED <<buffer, fd, total>> /\ NoWrite

(* ft_flush_total, then back to the old descriptor: if it is the same one, *)
(* the characters stay in the buffer.                                      *)
EndPrintfd ==
  /\ call = "printfd" /\ owed = 0
  /\ End(total)
  /\ IF fd # old_fd
     THEN Write(fd, buffer) /\ buffer' = << >> /\ fd' = old_fd
     ELSE UNCHANGED <<buffer, fd>> /\ NoWrite
  /\ total' = 0

(* One write of ft_perror.  If it fails, ft_perror is called again, inside *)
(* ft_putstr_fd or ft_putchar_fd, for two more.                            *)
Perror ==
  /\ owed > 0
  /\ \/ out' = Append(out, ErrorText) /\ owed' = owed - 1
        /\ UNCHANGED nested
     \/ 2 \in MayFail /\ failed + nested < MaxFailed
        /\ owed' = owed - 1 + PerrorWrites /\ nested' = nested + 1 /\ UNCHANGED out
  /\ UNCHANGED <<buffer, fd, total, call, target, old_fd, result, issued,
                 failed, mine, ended>>

Idle == Ready /\ UNCHANGED vars

Next ==
  \/ BeginPrint \/ BeginPrinterr \/ \E f \in Fds : BeginPrintfd(f)
  \/ ft_putchar_buf
  \/ EndPrint \/ EndPrinterr \/ EndPrintfd
  \/ Perror
  \/ Idle

Spec == Init /\ [][Next]_vars
-----------------------------------------------------------------------------
Chars == Fds \X (1 .. MaxChars)

(* The buffer never holds as many characters as it has room for between    *)
(* two calls of ft_putchar_buf, so that none is stored beyond its end.     *)
TypeOK ==
  /\ buffer \in Seq(Chars) /\ Len(buffer) < Size
  /\ fd \in Fds /\ target \in Fds /\ old_fd \in Fds
  /\ total \in 0 .. MaxChars /\ result \in 0 .. MaxChars /\ mine \in 0 .. MaxChars
  /\ call \in Calls \cup {"none"} /\ ended \in Calls \cup {"none"}
  /\ owed \in Nat /\ failed \in Nat /\ nested \in Nat
  /\ issued \in Seq(Chars) /\ out \in Seq(Chars \cup {ErrorText})

(* While no write fails or is cut, what was written followed by what waits *)
(* is what was printed: nothing is lost, doubled, or overtaken by output   *)
(* to the other descriptor.                                                *)
NothingLost ==
  MayFail = {} /\ ~MayCut => issued = out \o buffer

(* When the program is between two calls, the buffer writes to descriptor  *)
(* 1, and it is empty unless the last call was printfd with that same      *)
(* descriptor: a program that ends with print or printerr may leave        *)
(* without a flush.                                                        *)
IdleEmpty ==
  call = "none" => fd = 1 /\ (buffer # << >> => ended = "printfd" /\ target = 1)

(* A call returns the number of characters it has printed, whatever was    *)
(* flushed meanwhile and whatever was printed before.                      *)
CountsOwn == call = "none" => result = mine

Written == {k \in 1 .. Len(out) : out[k] # ErrorText}

Reports == {k \in 1 .. Len(out) : out[k] = ErrorText}

(* Whatever fails: a character is written at most once, after those        *)
(* printed before it, and to the descriptor of its call.                   *)
NeverMixed ==
  /\ \A k \in Written : out[k] = issued[out[k][2]]
  /\ \A j, k \in Written : j < k => out[j][2] < out[k][2]
  /\ \A j \in Written : \A k \in 1 .. Len(buffer) : out[j][2] < buffer[k][2]

(* Every write that fails is reported by two pieces of text on descriptor  *)
(* 2, the failures of ft_perror itself included: none is forgotten, and    *)
(* what is still owed is known to the calls in progress.                   *)
EveryFailureReported == owed + Cardinality(Reports) = 2 * failed + nested

(* The calls as their users see them.                                      *)
AbstractStreams == INSTANCE Streams WITH busy <- call # "none" \/ buffer # << >>

(* The buffered output implements the streams.                             *)
ImplementsStreams == AbstractStreams!Spec
=============================================================================
