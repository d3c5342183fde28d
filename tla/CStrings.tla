------------------------------ MODULE CStrings -------------------------------
(***************************************************************************)
(* The libft functions that read strings: comparing, searching, cutting,   *)
(* splitting and classifying.  A string is the sequence of its characters  *)
(* before the NUL; Ch reads it as the code does, NUL included, and has no  *)
(* value beyond: a loop that looks further than the code may stops TLC.    *)
(* Only ft_strlen_fast does look further, to the end of a word.            *)
(*                                                                         *)
(* A pointer into a string is the offset of its place, -1 for NULL.        *)
(***************************************************************************)
EXTENDS Integers, Sequences, SequencesExt, TLC

CONSTANTS
  Inputs,    \* the arguments: [s1, s2 : strings or NULL, n : length, c : character]
  NULL,      \* the null pointer, as a string
  WordSize   \* sizeof(size_t), and what ft_strlen_fast reads at once

VARIABLES
  in,   \* the arguments of this call
  out   \* the results of all functions for them; << >> before

vars == <<in, out>>

NUL == 0
Rubbish == 1   \* what follows a string in memory

Until(Stop(_), i) ==
  LET f[j \in Nat] == IF Stop(j) THEN j ELSE f[j + 1] IN f[i]

Ch(s, i) == Append(s, NUL)[i + 1]
Same(s1, s2, i) == Ch(s1, i) = Ch(s2, i)
BothEnd(s1, s2, i) == Ch(s1, i) = NUL /\ Ch(s2, i) = NUL
-----------------------------------------------------------------------------
(* Comparing.                                                              *)
ft_strlen(s) == Until(LAMBDA i : Ch(s, i) = NUL, 0)

(* A word at a time, and then the first byte of it that is NUL.            *)
ft_strlen_fast(s) ==
  LET Held(i) == IF i <= Len(s) THEN Ch(s, i) ELSE Rubbish
      word == Until(LAMBDA w : \E b \in 0 .. WordSize - 1 : Held(WordSize * w + b) = NUL, 0)
  IN  Until(LAMBDA i : Held(i) = NUL, WordSize * word)

(* A wrong loop: it ends with the first string.                            *)
ft_strcmp_first(s1, s2) ==
  IF s1 = NULL THEN IF s2 = NULL THEN 0 ELSE -Ch(s2, 0)
  ELSE IF s2 = NULL THEN Ch(s1, 0)
  ELSE LET k == Until(LAMBDA i : Ch(s1, i) = NUL \/ ~Same(s1, s2, i), 0)
       IN  IF Ch(s1, k) = NUL THEN 0 ELSE Ch(s1, k) - Ch(s2, k)

ft_strcmp(s1, s2) ==
  IF s1 = NULL THEN IF s2 = NULL THEN 0 ELSE -Ch(s2, 0)
  ELSE IF s2 = NULL THEN Ch(s1, 0)
  ELSE LET k == Until(LAMBDA i : BothEnd(s1, s2, i) \/ ~Same(s1, s2, i), 0)
       IN  Ch(s1, k) - Ch(s2, k)

(* The characters at n are looked at before n is.                          *)
ft_strncmp(s1, s2, n) ==
  IF n = 0 THEN 0
  ELSE IF s1 = NULL THEN IF s2 = NULL THEN 0 ELSE -Ch(s2, 0)
  ELSE IF s2 = NULL THEN Ch(s1, 0)
  ELSE LET k == Until(LAMBDA i : BothEnd(s1, s2, i) \/ i = n \/ ~Same(s1, s2, i), 0)
       IN  IF k = n THEN 0 ELSE Ch(s1, k) - Ch(s2, k)

ft_strequ(s1, s2) ==
  Same(s1, s2, Until(LAMBDA i : BothEnd(s1, s2, i) \/ ~Same(s1, s2, i), 0))

ft_strnequ(s1, s2, n) ==
  LET k == Until(LAMBDA i : BothEnd(s1, s2, i) \/ i >= n \/ ~Same(s1, s2, i), 0)
  IN  k >= n \/ Same(s1, s2, k)

ft_memcmp(s1, s2, n) ==
  LET k == Until(LAMBDA i : i >= n \/ ~Same(s1, s2, i), 0)
  IN  IF k >= n THEN 0 ELSE Ch(s1, k) - Ch(s2, k)

(* Wrong: the char of a compiler without -funsigned-char.                  *)
ft_strcmp_fast_signed(s1, s2, len) ==
  LET k == Until(LAMBDA i : i >= len \/ ~Same(s1, s2, i), 0)
      Signed(c) == IF c < 128 THEN c ELSE c - 256
  IN  Signed(Ch(s1, k)) - Signed(Ch(s2, k))

(* Words of equal bytes are skipped, then bytes, up to and with len.  The  *)
(* characters are plain chars, which the build makes unsigned              *)
(* (-funsigned-char in all three Makefiles).                               *)
ft_strcmp_fast(s1, s2, len) ==
  LET words == Until(LAMBDA w : \/ w = len \div WordSize
                                \/ \E b \in 0 .. WordSize - 1 : ~Same(s1, s2, w * WordSize + b), 0)
      k == Until(LAMBDA i : i >= len \/ ~Same(s1, s2, i), words * WordSize)
  IN  Ch(s1, k) - Ch(s2, k)
-----------------------------------------------------------------------------
(* Searching.                                                              *)
ft_strchr(s, c) ==
  IF Ch(s, 0) = c THEN 0
  ELSE LET i == Until(LAMBDA j : Ch(s, j) = NUL \/ Ch(s, j + 1) = c, 0)
       IN  IF Ch(s, i) = NUL THEN -1 ELSE i + 1

ft_strrchr(s, c) ==
  LET len  == ft_strlen(s)
      back == Until(LAMBDA j : j > len \/ Ch(s, len - j) = c, 0)
  IN  len - back

ft_memchr(s, c, n) ==
  LET i == Until(LAMBDA j : j >= n \/ Ch(s, j) = c, 0)
  IN  IF i >= n THEN -1 ELSE i

(* A wrong window: it does not shrink as the search moves on.              *)
ft_strnstr_far(s1, s2, n) ==
  LET At(a) == a + Len(s2) <= Len(s1) /\ \A i \in DOMAIN s2 : s1[a + i] = s2[i]
      a == Until(LAMBDA j : At(j) \/ j > Len(s1), 0)
  IN  IF Len(s2) <= n /\ At(a) THEN a ELSE -1

(* The function calls itself one place further, with one character less.   *)
ft_strnstr(s1, s2, n) ==
  LET f[a \in Nat] ==
        LET m == n - a
            k == Until(LAMBDA i : \/ Ch(s1, a + i) = NUL /\ Ch(s2, i) # NUL
                                  \/ i > m \/ Ch(s2, i) = NUL
                                  \/ Ch(s1, a + i) # Ch(s2, i), 0)
        IN  IF Ch(s2, 0) = NUL THEN a
            ELSE IF Ch(s1, a) = NUL \/ m = 0 THEN -1
            ELSE IF k <= m /\ Ch(s2, k) = NUL THEN a ELSE f[a + 1]
  IN  IF s1 = NULL \/ s2 = NULL THEN -1 ELSE f[0]

(* The length -1, as a size_t, is more than any string has.                *)
ft_strstr(s1, s2) == ft_strnstr(s1, s2, 1000)
-----------------------------------------------------------------------------
(* Characters.                                                             *)
ft_isdigit(c)  == c \in 48 .. 57
ft_isalpha_open(c) == c \in 65 .. 89 \/ c \in 97 .. 122  \* wrong: < 'Z'
ft_isalpha(c)  == c \in 65 .. 90 \/ c \in 97 .. 122
ft_isalnum(c)  == c \in 48 .. 57 \/ c \in 65 .. 90 \/ c \in 97 .. 122
ft_isascii(c)  == c \in 0 .. 127
ft_isprint(c)  == c \in 32 .. 126
ft_isempty(c)  == c \in {32, 10, 9}
ft_isspace(c)  == c \in {32, 10, 9, 12, 11, 13}
ft_tolower(c)  == IF c \in 65 .. 90 THEN c - 65 + 97 ELSE c
ft_toupper(c)  == IF c \in 97 .. 122 THEN c - 97 + 65 ELSE c
-----------------------------------------------------------------------------
(* Cutting: a new string, malloc having succeeded.                         *)
static_strdup(s, len) == [i \in 1 .. len |-> Ch(s, i - 1)]

ft_strdup(s) == static_strdup(s, ft_strlen(s))

ft_strndup(s, n) == static_strdup(s, IF ft_strlen(s) < n THEN ft_strlen(s) ELSE n)

(* `kept` are the characters the predicate given holds of.                 *)
ft_strndupwhile(m, n, kept) ==
  ft_strndup(m, Until(LAMBDA i : Ch(m, i) \notin kept \/ i >= n, 0))

ft_strdupwhile(m, kept) == ft_strndup(m, Until(LAMBDA i : Ch(m, i) \notin kept, 0))

ft_strsub(s, start, len) == [i \in 1 .. len |-> Ch(s, start + i - 1)]

(* The two loops over blanks; the second one stops at the first character. *)
FirstKept(s) == Until(LAMBDA i : Ch(s, i) = NUL \/ ~ft_isempty(Ch(s, i)), 0)

LastKept(s) ==
  LET len == ft_strlen(s)
  IN  len - Until(LAMBDA k : len - k <= 0 \/ ~ft_isempty(Ch(s, len - k)), 1)

(* A wrong length: the last character is not counted.                      *)
ft_strtrim_short(s) ==
  IF LastKept(s) <= FirstKept(s) THEN << >>
  ELSE ft_strsub(s, FirstKept(s), LastKept(s) - FirstKept(s))

(* Of a string that is all blank nothing is left.                          *)
ft_strtrim(s) ==
  LET len == LastKept(s) - FirstKept(s) + 1
  IN  IF s = NULL THEN NULL
      ELSE IF len <= 0 THEN << >> ELSE ft_strsub(s, FirstKept(s), len)

ft_strmap(s, f) == [i \in 1 .. ft_strlen(s) |-> f[Ch(s, i - 1)]]
ft_strmapi(s, f) == [i \in 1 .. ft_strlen(s) |-> f[i - 1][Ch(s, i - 1)]]

(* A wrong start: the first character is left out.                         *)
ft_striteri_late(s, f) ==
  [i \in 1 .. Len(s) |-> IF i = 1 THEN s[1] ELSE f[i - 1][s[i]]]

(* In place: the function may put a NUL where it is called, which the loop *)
(* has passed when it looks for the next.                                  *)
ft_striteri(s, f) ==
  LET g[i \in Nat] == IF Ch(s, i) = NUL THEN << >> ELSE <<f[i][Ch(s, i)]>> \o g[i + 1]
  IN  g[0]
ft_striter(s, f) == ft_striteri(s, [i \in 0 .. Len(s) |-> f])

(* The next place, from i on, that does, or does not, hold a separator.    *)
SkipSeparators(s, c, i) == Until(LAMBDA j : Ch(s, j) # c, i)
SkipWord(s, c, i) == Until(LAMBDA j : Ch(s, j) = NUL \/ Ch(s, j) = c, i)

word_num(s, c) ==
  LET f[i \in Nat] ==
        IF Ch(s, i) = NUL THEN 0
        ELSE LET start == SkipSeparators(s, c, i)
             IN  (IF Ch(s, start) # NUL THEN 1 ELSE 0) + f[SkipWord(s, c, start)]
  IN  f[0]

(* A wrong start: the separators before a word are left in it.             *)
ft_strsplit_raw(s, c) ==
  LET f[i \in Nat, pos \in Nat] ==
        IF i = word_num(s, c) THEN << >>
        ELSE LET end == SkipWord(s, c, SkipSeparators(s, c, pos))
             IN  <<ft_strsub(s, pos, end - pos)>> \o f[i + 1, end]
  IN  f[0, 0]

ft_strsplit(s, c) ==
  LET f[i \in Nat, pos \in Nat] ==
        IF i = word_num(s, c) THEN << >>
        ELSE LET start == SkipSeparators(s, c, pos)
                 end   == SkipWord(s, c, start)
             IN  <<ft_strsub(s, start, end - start)>> \o f[i + 1, end]
  IN  IF s = NULL THEN NULL ELSE f[0, 0]
-----------------------------------------------------------------------------
(* The calls that C allows for these arguments.                            *)
Compared(s1, s2, n) ==
  [strcmp  |-> ft_strcmp(s1, s2), strncmp |-> ft_strncmp(s1, s2, n),
   back    |-> ft_strcmp(s2, s1)]

Char == 0 .. 255
Alnum == {c \in Char : ft_isalnum(c)}
Printable == {c \in Char : ft_isprint(c)}
ToUpper == [c \in Char |-> ft_toupper(c)]
Erase == [c \in Char |-> IF ft_isempty(c) THEN NUL ELSE c]
Capital(s) == [i \in 0 .. Len(s) |-> IF i = 0 THEN ToUpper ELSE Erase]

Evaluated(s1, s2, n, c) ==
  LET short == n <= Len(s1) /\ n <= Len(s2)
  IN  [strlen |-> ft_strlen(s1), strlen_fast |-> ft_strlen_fast(s1),
       strequ |-> ft_strequ(s1, s2), strnequ |-> ft_strnequ(s1, s2, n),
       memcmp |-> IF short THEN ft_memcmp(s1, s2, n + 1) ELSE 0,
       strcmp_fast |-> IF short THEN ft_strcmp_fast(s1, s2, n) ELSE 0,
       strchr |-> ft_strchr(s1, c), strrchr |-> ft_strrchr(s1, c),
       memchr |-> IF n <= Len(s1) THEN ft_memchr(s1, c, n + 1) ELSE -1,
       strstr |-> ft_strstr(s1, s2), strnstr |-> ft_strnstr(s1, s2, n),
       strdup |-> ft_strdup(s1), strndup |-> ft_strndup(s1, n),
       strndupwhile |-> ft_strndupwhile(s1, IF short THEN n ELSE 0, Alnum),
       strdupwhile |-> ft_strdupwhile(s1, Printable),
       strsub |-> IF n <= Len(s1) THEN ft_strsub(s1, n, Len(s1) - n) ELSE << >>,
       strtrim |-> ft_strtrim(s1), strmap |-> ft_strmap(s1, ToUpper),
       strmapi |-> ft_strmapi(s1, Capital(s1)),
       striteri |-> ft_striteri(s1, Capital(s1)), striter |-> ft_striter(s1, Erase),
       strsplit |-> ft_strsplit(s1, c)]

Init == in \in Inputs /\ out = << >>

Evaluate ==
  /\ out = << >>
  /\ out' = IF NULL \in {in.s1, in.s2} THEN Compared(in.s1, in.s2, in.n)
            ELSE Compared(in.s1, in.s2, in.n) @@ Evaluated(in.s1, in.s2, in.n, in.c)
  /\ UNCHANGED in

Next == Evaluate

Spec == Init /\ [][Next]_vars
-----------------------------------------------------------------------------
Value(s) == IF s = NULL THEN << >> ELSE s
Cut(s, n) == SubSeq(s, 1, IF n < Len(s) THEN n ELSE Len(s))
Sign(x) == IF x > 0 THEN 1 ELSE IF x < 0 THEN -1 ELSE 0

(* The order of the C standard: by the first character that differs.       *)
Before(a, b) ==
  \/ a # b /\ IsPrefix(a, b)
  \/ \E k \in DOMAIN a \cap DOMAIN b : Cut(a, k - 1) = Cut(b, k - 1) /\ a[k] < b[k]
Order(a, b) == IF Before(a, b) THEN -1 ELSE IF Before(b, a) THEN 1 ELSE 0

Done == out # << >>
Both == Done /\ NULL \notin {in.s1, in.s2}

(* The comparisons that the sort, the filter of sections and the tests for *)
(* file types rest on give the order of the C standard, NULL being the     *)
(* empty string; they are antisymmetric, and never look past a NUL.        *)
(* That order is of unsigned characters, those of ft_strcmp_fast included. *)
ComparesInOrder ==
  Done =>
    LET a == Value(in.s1)
        b == Value(in.s2)
    IN  /\ Sign(out.strcmp) = Order(a, b) /\ Sign(out.back) = -Order(a, b)
        /\ Sign(out.strncmp) = Order(Cut(a, in.n), Cut(b, in.n))
        /\ Both => /\ out.strequ = (a = b)
                   /\ out.strnequ = (Cut(a, in.n) = Cut(b, in.n))
                   /\ in.n <= Len(a) /\ in.n <= Len(b) =>
                        LET o == Order(Cut(Append(a, NUL), in.n + 1), Cut(Append(b, NUL), in.n + 1))
                        IN  Sign(out.memcmp) = o /\ Sign(out.strcmp_fast) = o

Least(S) == IF S = {} THEN -1 ELSE CHOOSE i \in S : \A j \in S : i <= j
Greatest(S) == IF S = {} THEN -1 ELSE CHOOSE i \in S : \A j \in S : i >= j
Places(c) == {i \in 0 .. Len(in.s1) : Ch(in.s1, i) = c}
Matches(n) == {i \in 0 .. Len(in.s1) : i + Len(in.s2) <= n /\ i + Len(in.s2) <= Len(in.s1)
                                       /\ SubSeq(in.s1, i + 1, i + Len(in.s2)) = in.s2}

(* A search finds the first, or the last, place there is, the NUL being    *)
(* part of the string, and nothing that reaches beyond the given length.   *)
FindsThePlace ==
  Both =>
    /\ out.strlen = Len(in.s1) /\ out.strlen_fast = Len(in.s1)
    /\ out.strchr = Least(Places(in.c)) /\ out.strrchr = Greatest(Places(in.c))
    /\ in.n <= Len(in.s1) => out.memchr = Least({i \in Places(in.c) : i <= in.n})
    /\ out.strstr = Least(Matches(Len(in.s1)))
    /\ out.strnstr = IF in.s2 = << >> THEN 0 ELSE Least(Matches(in.n))

Blank(s) == \A i \in DOMAIN s : ft_isempty(s[i])

(* A new string holds the part of the old one it should: all of it, its    *)
(* first n characters, those before the first that fails a test, what is   *)
(* left without the blanks around it; or the image of every character, by  *)
(* its place, also when a function puts NULs in the string it goes over.   *)
CutsWhatIsAsked ==
  Both =>
    /\ out.strdup = in.s1 /\ out.strndup = Cut(in.s1, in.n)
    /\ out.strsub = SubSeq(in.s1, in.n + 1, Len(in.s1))
    /\ IsPrefix(out.strndupwhile, in.s1) /\ IsPrefix(out.strdupwhile, in.s1)
    /\ \A i \in DOMAIN out.strdupwhile : ft_isprint(in.s1[i])
    /\ out.strdupwhile = in.s1 \/ ~ft_isprint(in.s1[Len(out.strdupwhile) + 1])
    /\ \E i, j \in 0 .. Len(in.s1) :
         /\ Blank(Cut(in.s1, i)) /\ Blank(SubSeq(in.s1, j + 1, Len(in.s1)))
         /\ out.strtrim = SubSeq(in.s1, i + 1, j)
    /\ out.strtrim # << >> => ~Blank(Cut(out.strtrim, 1)) /\ ~ft_isempty(Last(out.strtrim))
    /\ out.striter = [i \in DOMAIN in.s1 |-> Erase[in.s1[i]]]
    /\ out.strmapi = out.striteri /\ Cut(out.strmapi, 1) = Cut(out.strmap, 1)
    /\ \A i \in DOMAIN in.s1 : /\ ft_tolower(out.strmap[i]) = ft_tolower(in.s1[i])
                               /\ i > 1 => out.strmapi[i] = out.striter[i]

(* The words are the longest stretches without a separator, in their order *)
(* in the string, and none is missing.                                     *)
SplitsInWords ==
  Both =>
    LET s == in.s1
        starts == {i \in DOMAIN s : s[i] # in.c /\ (i = 1 \/ s[i - 1] = in.c)}
        Word(i) == SubSeq(s, i, Until(LAMBDA j : j = Len(s) \/ s[j + 1] = in.c, i))
        order == SetToSortSeq(starts, LAMBDA i, j : i < j)
    IN  out.strsplit = [k \in 1 .. Len(order) |-> Word(order[k])]

(* The classes of characters fit together: the letters and the digits are  *)
(* what ft_isalnum says, the case conversions are inverse to each other on *)
(* the letters and leave all else alone, no blank is a letter.             *)
ClassesAgree ==
  LET c == in.c IN
    /\ ft_isalnum(c) <=> ft_isalpha(c) \/ ft_isdigit(c)
    /\ ft_isprint(c) \/ ft_isspace(c) => ft_isascii(c)
    /\ ft_isempty(c) => ft_isspace(c) /\ ~ft_isalnum(c)
    /\ ft_isalpha(c) <=> ft_tolower(c) # ft_toupper(c)
    /\ ft_toupper(ft_tolower(c)) = ft_toupper(c) /\ ft_tolower(ft_toupper(c)) = ft_tolower(c)
    /\ ft_isalpha(c) => ft_isalpha(ft_toupper(c)) /\ ft_isalpha(ft_tolower(c))

(* Reading functions agree with their definitions over whole strings.      *)
StringsAsInC ==
  ComparesInOrder /\ FindsThePlace /\ CutsWhatIsAsked /\ SplitsInWords /\ ClassesAgree
=============================================================================
