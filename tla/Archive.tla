------------------------------- MODULE Archive -------------------------------
(***************************************************************************)
(* The header of an archive member, character by character                 *)
(* (check_ranlib_header in ranlib.c, ft_strdupwhile.c, ft_strdup.c).  The  *)
(* module FileWalk has the walk over the members, and takes a header as    *)
(* the numbers it states.                                                  *)
(*                                                                         *)
(* The mapping begins with the header; the window, which the checks know,  *)
(* ends somewhere in it.  What follows the header is the long name, if     *)
(* there is one, and the member.                                           *)
(***************************************************************************)
EXTENDS Atoi, SequencesExt, FiniteSetsExt

CONSTANTS
  Archives,  \* the mappings: name, size, end as written, what follows; window
  MaxLong    \* 256, the longest long name

VARIABLES
  ar,   \* the archive
  out   \* what check_ranlib_header made of it; << >> before

vars == <<ar, out>>

ArHeader == 60           \* sizeof(t_ar_header)
U32 == 4                 \* sizeof(u32)
Blank == 32
LongMark == <<35, 49, 47>>                                \* "#1/"
Symdef == <<95, 95, 46, 83, 89, 77, 68, 69, 70>>          \* "__.SYMDEF"
ArEnd == <<32, 32, 96, 10>>                               \* AR_END

(* The mapping: name 16, date to mode 32, size 8, end 4, and the rest.     *)
Bytes(a) == a.name \o [i \in 1 .. 32 |-> Blank] \o a.size \o a.end \o a.rest

(* The field at offset at, counted from 0.                                 *)
NameAt == 1
SizeAt == 49
EndAt == 57
LongAt == 61

CHECK_LEN(l) == l <= ar.window

(* ft_strncmp(s, mem + at, Len(s)) = 0: the first byte that differs is     *)
(* looked at, and the one after the last.                                  *)
Starts(m, at, s) == \A i \in DOMAIN s : m[at + i - 1] = s[i]

(* c > ' ' || c <= '~', which every character is.                          *)
isvalid(c) == c > 32 \/ c <= 126

(* A wrong copy: n characters, also when a NUL comes before.               *)
ft_strndup_n(m, at, n) == SubSeq(m, at, at + n - 1)

ft_strlen(m, at) == Min({k \in 0 .. Len(m) - at : m[at + k] = 0})

(* static_strdup of MIN(ft_strlen(s), n) characters.                       *)
ft_strndup(m, at, n) == SubSeq(m, at, at + Min({n, ft_strlen(m, at)}) - 1)

ft_strndupwhile(m, at, n) ==
  ft_strndup(m, at, Min({k \in 0 .. n : ~isvalid(m[at + k]) \/ k >= n}))

(* offset > 256, for a word.                                               *)
TooLong(w) == w[1] > 0 \/ w[2] > MaxLong

(* Sums of a word and a small number; no length of a member is beyond 2^31 *)
(* here, as a size has eight digits.                                       *)
Value(w) == w[1] * Half + w[2]

(* A wrong sum: the size of the member is taken without its header.        *)
ResultBare(code, name, long, size) ==
  [code |-> code, name |-> name, header_len |-> long + ArHeader, full_len |-> size]

Result(code, name, long, size) ==
  [code |-> code, name |-> name, header_len |-> long + ArHeader, full_len |-> size + ArHeader]

Failed(code) == [code |-> code]

(* A wrong bound: the length of the name is checked, not that it fits.     *)
LongNameFitsAlways(long) == TRUE

LongNameFits(long) == CHECK_LEN(ArHeader + long + U32)

check_ranlib_header ==
  LET m    == Bytes(ar)
      w    == ft_pure_atoi(m, NameAt + 3)
      size == Value(ft_pure_atoi(m, SizeAt))
  IN  IF ~CHECK_LEN(ArHeader + U32) THEN Failed("ERR_MEM")
      ELSE IF ~Starts(m, EndAt, ArEnd) THEN Failed("ERR_SILENT")
      ELSE IF ~Starts(m, NameAt, LongMark)
           THEN Result("OK", ft_strndupwhile(m, NameAt, 16), 0, size)
      ELSE IF TooLong(w) THEN Failed("ERR_SILENT")
      ELSE IF ~LongNameFits(Value(w)) THEN Failed("ERR_MEM")
      ELSE Result("OK", ft_strndupwhile(m, LongAt, Value(w)), Value(w), size)

(* ft_strncmp(vm.ar_info.name, "__.SYMDEF", 9) == 0                        *)
IsSymdef(name) == IsPrefix(Symdef, name)

Init == ar \in Archives /\ out = << >>

Check ==
  /\ out = << >>
  /\ out' = check_ranlib_header
  /\ UNCHANGED ar

Next == Check

Spec == Init /\ [][Next]_vars
-----------------------------------------------------------------------------
(* What the header says, read as a person would: the digits at the start   *)
(* of a field, and nothing when they are too many for an int.              *)
LeadingDigits(text) ==
  SubSeq(text, 1, Min({k - 1 : k \in {k \in DOMAIN text : ~ft_isdigit(text[k])}} \cup {Len(text)}))
Decimal(ds) ==
  LET f[k \in 0 .. Len(ds)] == IF k = 0 THEN 0 ELSE 10 * f[k - 1] + ds[k] - 48
  IN  f[Len(ds)]
Long == IsPrefix(LongMark, ar.name)
LongDigits == LeadingDigits(SubSeq(ar.name, 4, 16))

(* An accepted header and its name lie in the window, with a word to spare *)
(* for the first bytes of the member.                                      *)
AcceptedFits ==
  /\ ar.window >= ArHeader + U32 /\ ar.end = ArEnd
  /\ ar.window >= out.header_len + U32
  /\ out.header_len <= ArHeader + MaxLong

(* The lengths are those the header states, in decimal, with no digit      *)
(* taken from the field that follows; a length of ten digits or more, which *)
(* may wrap to a small one, is left out.                                   *)
LengthsAsStated ==
  /\ out.full_len = ArHeader + Decimal(LeadingDigits(ar.size))
  /\ Long /\ Len(LongDigits) <= 9 => out.header_len = ArHeader + Decimal(LongDigits)
  /\ ~Long => out.header_len = ArHeader

BeforeNul(s) == LET nuls == {k \in DOMAIN s : s[k] = 0}
                IN  IF nuls = {} THEN s ELSE SubSeq(s, 1, Min(nuls) - 1)

(* The name is the one in the header, or the long name after it, up to a   *)
(* NUL, and no byte of the member is taken into it; the symbol index is    *)
(* known by it in both forms.                                              *)
NameAsWritten ==
  LET field == IF Long THEN SubSeq(ar.rest, 1, out.header_len - ArHeader) ELSE ar.name
  IN  /\ out.name = BeforeNul(field)
      /\ IsSymdef(out.name) <=> IsPrefix(Symdef, field)

(* A member that is accepted has its header and its name in the window,    *)
(* and the name and the lengths its header states, in each of the two      *)
(* forms a name can have.                                                  *)
MemberAsStated ==
  out # << >> /\ out.code = "OK" => AcceptedFits /\ LengthsAsStated /\ NameAsWritten
=============================================================================
