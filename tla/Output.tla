------------------------------- MODULE Output --------------------------------
(***************************************************************************)
(* The rest of libft's output: the ft_put* functions, which write at once, *)
(* beside the ft_put*_buf functions, which go through the buffer; the four *)
(* reports of errors; ft_reset_buf; and print_ind, which brings a buffer   *)
(* of its own.  OutBuf has the three calls the tools print with, step by   *)
(* step and with writes that fail; here writes succeed.                    *)
(*                                                                         *)
(* st is the state of the buffer and of what was written; every function   *)
(* of libft is an operator from st to st.  A character is its number and   *)
(* the descriptor it is for.                                               *)
(***************************************************************************)
EXTENDS Naturals, SequencesExt

CONSTANTS
  Size,      \* the size of the buffer main installs
  IndSize,   \* 2048, the size of the buffer of print_ind
  Fds,       \* the descriptors
  MaxChars   \* bound on the characters printed

VARIABLES
  st,       \* store, size, buffer, fd of the t_buffer; out: what was written
  printed,  \* history: how many characters have been printed
  direct,   \* history: those that did not go through the buffer
  dropped,  \* history: those in the buffer when print_ind put its own there
  excuse    \* history: malloc has failed, or print_ind has returned

vars == <<st, printed, direct, dropped, excuse>>

(* Where the buffer's bytes are: nowhere, in a block of the heap, in the   *)
(* frame of print_ind; "stray" when a character has been stored elsewhere. *)
Stores == {"NULL", "heap", "frame", "gone", "stray"}

write(s, fd, text) == [s EXCEPT !.out = @ \o [k \in DOMAIN text |-> [fd |-> fd, char |-> text[k]]]]

(* A wrong flush: the position is set back before the write.               *)
ft_flush_buf_empty(s) == [s EXCEPT !.buffer = << >>]

ft_flush_buf(s) == [write(s, s.fd, s.buffer) EXCEPT !.buffer = << >>]

(* A wrong switch: the characters stay in the buffer.                      *)
ft_setfd_buf_keeping(s, fd) == [s EXCEPT !.fd = fd]

ft_setfd_buf(s, fd) == IF s.fd # fd THEN [ft_flush_buf(s) EXCEPT !.fd = fd] ELSE s

ft_reset_buf(s, fd) == ft_setfd_buf(ft_flush_buf(s), fd)

ft_buf(s, store, size, fd) ==
  [s EXCEPT !.store = store, !.size = size, !.buffer = << >>, !.fd = fd]

ft_putchar_buf(s, c) ==
  LET stored == [s EXCEPT !.buffer = Append(@, c)]
  IN  IF s.store \notin {"heap", "frame"} THEN [s EXCEPT !.store = "stray"]
      ELSE IF Len(stored.buffer) >= s.size THEN ft_flush_buf(stored) ELSE stored

(* The loops of ft_putstr_buf, ft_putnstr_buf, ft_putmstr_buf,             *)
(* ft_putnchar_buf, ft_putspace_buf, ft_putendl_buf, ft_putnendl_buf.      *)
ft_putstr_buf(s, text) ==
  LET put[k \in 0 .. Len(text)] == IF k = 0 THEN s ELSE ft_putchar_buf(put[k - 1], text[k])
  IN  put[Len(text)]

(* A wrong order: from the first character on.                             *)
ft_putrstr_buf_forward(s, text) == ft_putstr_buf(s, text)

(* From the last character to the first.                                   *)
ft_putrstr_buf(s, text) == ft_putstr_buf(s, Reverse(text))

(* ft_putstr_fd and the functions like it: one write each.                 *)
ft_putstr_fd(s, text, fd) == write(s, fd, text)

(* ft_perror_buf and ft_perror_file_buf: the pieces of the message through *)
(* the buffer, with a flush before and after; the descriptor ends as 1.    *)
Report_buf(s, text) ==
  ft_setfd_buf(ft_flush_buf(ft_putstr_buf(ft_setfd_buf(ft_flush_buf(s), 2), text)), 1)

(* ft_perror and ft_perror_file: the pieces, one write each.               *)
Report(s, text) ==
  LET put[k \in 0 .. Len(text)] == IF k = 0 THEN s ELSE ft_putstr_fd(put[k - 1], <<text[k]>>, 2)
  IN  put[Len(text)]

(* print_ind, up to its return; the buffer in its frame stays installed.   *)
print_ind(s, text) ==
  [ft_flush_buf(ft_putstr_buf(ft_buf(s, "frame", IndSize, 1), text)) EXCEPT !.store = "gone"]

Message(str, file) == (IF str THEN 2 ELSE 0) + (IF file THEN 2 ELSE 0) + 2
-----------------------------------------------------------------------------
(* main before ft_buf: the static t_buffer is all zero.                    *)
Start == [store |-> "NULL", size |-> 0, buffer |-> << >>, fd |-> 0, out |-> << >>]

(* A wrong main: the buffer is not installed.                              *)
Installed_not(malloc_works) == Start

(* ft_buf(malloc(4096), 4096, 1): given NULL it installs nothing.          *)
Installed(malloc_works) == IF malloc_works THEN ft_buf(Start, "heap", Size, 1) ELSE Start

Init ==
  /\ \E malloc_works \in BOOLEAN : st = Installed(malloc_works) /\ excuse = ~malloc_works
  /\ printed = 0 /\ direct = {} /\ dropped = {}

(* The next n characters, for descriptor fd.                               *)
Text(n, fd) == [k \in 1 .. n |-> [number |-> printed + k, fd |-> fd]]

Prints(n) ==
  /\ st.store # "stray" /\ printed + n <= MaxChars
  /\ printed' = printed + n

Put(n) ==
  /\ Prints(n)
  /\ st' = ft_putstr_buf(st, Text(n, st.fd))
  /\ UNCHANGED <<direct, dropped, excuse>>

(* The text is given from its end.                                         *)
PutReversed(n) ==
  /\ Prints(n)
  /\ st' = ft_putrstr_buf(st, Reverse(Text(n, st.fd)))
  /\ UNCHANGED <<direct, dropped, excuse>>

PutDirect(n, fd) ==
  /\ Prints(n)
  /\ st' = ft_putstr_fd(st, Text(n, fd), fd)
  /\ direct' = direct \cup {printed + k : k \in 1 .. n}
  /\ UNCHANGED <<dropped, excuse>>

PerrorBuf(str, file) ==
  /\ Prints(Message(str, file))
  /\ st' = Report_buf(st, Text(Message(str, file), 2))
  /\ UNCHANGED <<direct, dropped, excuse>>

Perror(str, file) ==
  /\ Prints(Message(str, file))
  /\ st' = Report(st, Text(Message(str, file), 2))
  /\ direct' = direct \cup {printed + k : k \in 1 .. Message(str, file)}
  /\ UNCHANGED <<dropped, excuse>>

(* The descriptor is changed, with a flush in any case or when it differs. *)
Reset(fd) ==
  /\ st.store # "stray"
  /\ st' = ft_reset_buf(st, fd) \/ st' = ft_setfd_buf(st, fd)
  /\ UNCHANGED <<printed, direct, dropped, excuse>>

PrintInd(n) ==
  /\ Prints(n)
  /\ st' = print_ind(st, Text(n, 1))
  /\ dropped' = dropped \cup {c.number : c \in ToSet(st.buffer)} /\ excuse' = TRUE
  /\ UNCHANGED direct

Next ==
  \/ \E n \in 1 .. 3 :
       Put(n) \/ PutReversed(n) \/ PrintInd(n) \/ \E fd \in Fds : PutDirect(n, fd)
  \/ \E str, file \in BOOLEAN : PerrorBuf(str, file) \/ Perror(str, file)
  \/ \E fd \in Fds : Reset(fd)

Spec == Init /\ [][Next]_vars
-----------------------------------------------------------------------------
(* Every character is stored in a block the program owns, as long as main  *)
(* had its buffer and print_ind, whose frame is gone when it returns, was  *)
(* not called; and the block always has room for one more.                 *)
StoredInOwnBlock ==
  /\ st.store \in Stores
  /\ st.store \in {"NULL", "gone", "stray"} => excuse
  /\ st.store = "heap" => Len(st.buffer) < Size

Written == [k \in DOMAIN st.out |-> st.out[k].char.number]

(* A character comes before one that was printed earlier only when it was  *)
(* written at once and the other was waiting in the buffer; a report       *)
(* through the buffer never overtakes and is never overtaken.              *)
OnlyDirectOvertakes ==
  \A j, k \in DOMAIN Written :
    j < k /\ Written[j] > Written[k] => Written[j] \in direct /\ Written[k] \notin direct

(* Every character printed has been written once, or waits in the buffer,  *)
(* or was in it when print_ind put another in its place.                   *)
AllWritten ==
  st.store # "stray" =>
    LET waiting == {c.number : c \in ToSet(st.buffer)}
    IN  /\ 1 .. printed = ToSet(Written) \cup waiting \cup dropped
        /\ Len(Written) + Len(st.buffer) + Cardinality(dropped) = printed

(* What is for the error descriptor, or for any other, arrives there,      *)
(* whichever descriptor the buffer has in between.                         *)
NeverMisdirected == \A k \in DOMAIN st.out : st.out[k].fd = st.out[k].char.fd

(* Every character reaches its descriptor, once and in its turn, through   *)
(* storage the program owns.                                               *)
OutputInOrder == StoredInOwnBlock /\ OnlyDirectOvertakes /\ AllWritten /\ NeverMisdirected
=============================================================================
