# nm-otool: models and proofs

`ft_nm` and `ft_otool` list the symbols and dump the sections of Mach-O files,
fat files and `ar` archives. The repository holds the two tools (`src/src`),
their formatter (`src/printf`) and the C library they are written with
(`src/libft`). This directory holds TLA+ models of that code, TLC
configurations that check them on small instances, and proofs, checked by
TLAPS, of what holds for every file and every size.

Run a configuration with `tlc -config nm_object.cfg MCObjectWalk`, the proofs with
`tlapm ObjectWalkProofs.tla`, and likewise `ListingProofs`, `FileWalkProofs`, `DriverProofs`, `FileBytesProofs`,
`OutBufProofs`, `DynArrayProofs` and `LibftProofs`.

## 1. Inventory

Both tools are single processes with one thread and no signal handler.
What makes them hard is not scheduling: it is that every size, count and offset
comes from the file, that errors have to come out of deep nests of calls, that
state (the output buffer, `errno`, the option record) is shared or copied
between calls, and that `malloc`, `open`, `mmap` and `write` may fail at any call.

| component | code | state | operations |
|---|---|---|---|
| drivers | `src/src/nm.c`, `otool.c`, `headers.c:map`, `tools.c:gen_filter` | `argv`, `t_target`, open descriptors, mappings, `errno` | `check_args`, `filter_args`, `map`, the file loop, `munmap`, exit status |
| file walk | `src/src/parsing.c:disp_file, disp_fat`, `ranlib.c`, `headers.c:get_vm`, `tools.c:get_sub_mem` | the C stack: a window (`t_mem`) and a `t_target` by value in each call | look at a window, show an architecture, show a member, return |
| object walk | `src/src/parsing.c:disp_object …`, `nm_disp.c` | the two arrays of `t_vm`, offsets, loop cursors | read a command, a section, a symbol; sort; print; release |
| classification | `src/src/types.c`, `nm_disp.c` | none | letters, section filter, comparison |
| growable arrays | `src/src/tools.c:array_push, free_arrays`, `libft/src/ft_realloc.c` | block, bytes used, bytes owned | push, double, free |
| output buffer | `libft/src/ft_*_buf.c`, `printf/src/wrappers.c`, `ft_perror.c` | characters, descriptor, total | `print`, `printerr`, `printfd`, put, flush, report |
| formatter | `printf/src` | position in the format, arguments taken | directives, numbers, text |
| decoding | `src/src/swap.c`, `read.c`, `types.c:get_type` | none | byte order, 32 and 64 bits, magic numbers |
| hex dump, header line | `src/src/display.c` | the place in the row | rows of `disp_data`, headings |
| strings and memory | `libft/src/ft_str*.c`, `ft_mem*.c`, `ft_is*.c` | the memory they are given | copy, append, compare, search, cut, classify |
| numbers | `libft/src/ft_putnbr*.c`, `ft_itoa.c`, `ft_intlen.c`, `ft_atoi.c` | the static digits | print and parse an `int` |
| lists | `libft/src/ft_lst*.c` | nodes, pointers to them | new, add, delete, iterate, map |
| unbuffered output | `libft/src/ft_put*.c`, `ft_perror.c` | none | one `write` per piece |

How they interact. `main` blanks the flags out of `argv` and then, for each
argument that is left, calls `map`, `disp_file` and `munmap`. `disp_file` looks
at the window it is given and calls `disp_object`, `disp_fat` or `disp_ranlib`; the
last two call `disp_file` on parts of the window. `disp_object` reads the load
commands, collects section letters and symbols with `array_push`, and prints
through `print`, which formats into the one buffer of the process; messages go
through `printerr`, the same buffer with another descriptor.

What makes each part correct, and is not evident from any one function:

* drivers: flags end where files begin, each file is opened, shown or named in a
  message; the exit status tells what happened; descriptors and mappings return.
* file walk: a window lies in the window of its caller; the recursion ends; both but for entries
  that wrap or name their own fat file; errors reach `main`; one architecture or all of them, labelled accordingly.
* object walk: no read outside the window; stored names stay readable; the
  letters are those of the sections of the whole file; the listing is sorted and complete; the arrays
  are released on every way out.
* growable arrays: the size noted is never more than the block, whatever `malloc`
  does; pushed elements survive growth; nothing leaks.
* output buffer: the characters of two descriptors keep their order; a call
  counts its own; failures are reported.
* formatter: what is printed reads back, in its width and type; wide characters are UTF-8.
* decoding: every field has the value it was written with, in both orders and both widths.
* hex dump: it reads back; words of the other byte order are not cut.
* strings and memory: what the C standard says of the function of that name, and no byte beside it.
* numbers: text and `int` agree at the limits of an `int`, whatever the static buffer held.
* lists: no dangling pointer, nothing lost but by a call that failed.

## 2. Modules

| module | models | built on |
|---|---|---|
| `Symbols` | `get_sym_type`, `get_sect_type`, `filter_disp`, `should_swap`, swap | |
| `ObjectWalk` | `disp_object` and everything it calls | `Symbols` |
| `ObjectWalkProofs` | theorems about `ObjectWalk`: reads, names, arrays | `ObjectWalk`, `TLAPS` |
| `ListingProofs` | theorems about `ObjectWalk`: letters, order, completeness, dump | `ObjectWalkProofs` |
| `FileWalk` | `disp_file`, `disp_fat`, `disp_ranlib`, `get_vm` | `disp_object` is one step with any result |
| `FileWalkProofs` | theorems about `FileWalk` | `FileWalk`, `TLAPS` |
| `Driver` | the two `main` functions, `map`, `gen_filter` | `disp_file` is one step with any result |
| `DriverProofs` | theorems about `Driver` | `Driver`, `TLAPS` |
| `DynArray` | `array_push`, `ft_realloc`, `ft_realloc_array`, `free_arrays` | |
| `DynArrayProofs` | theorems about `DynArray` | `DynArray`, `TLAPS` |
| `Streams` | what a caller of `print` and `printerr` relies on (abstract) | |
| `OutBuf` | the buffer, the three calls, `ft_perror` | refines `Streams` |
| `OutBufProofs` | theorems about `OutBuf`, the refinement of `Streams` | `OutBuf`, `TLAPS` |
| `Format` | `ft_printf` and its converters | |
| `Returns` | what the caller of `disp_object`, `disp_file` and `main` relies on (abstract) | refined by `ObjectWalk`, `FileWalk`, `Driver` |
| `Decode` | `s`, `sl`, the readers, `get_type`, `disp_header` on bytes | |
| `Atoi` | `ft_pure_atoi` | |
| `Archive` | `check_ranlib_header` on characters | `Atoi` |
| `HexDump` | `disp_data`, `get_cpu` | |
| `Wide` | `%C`, `%S` and the UTF-8 encoder | |
| `Output` | the other functions of the buffer, direct writes, reports, `print_ind` | |
| `Numbers` | `int` to text and back | `Atoi` |
| `MemMove` | `ft_memmove`, byte by byte | |
| `CMemory` | the functions that write strings and blocks | |
| `CStrings` | the functions that compare, search, cut, classify | |
| `Lists` | the list functions | |
| `FileBytes` | the three readers of bytes, side by side | `Decode`, `Archive`, `HexDump` |
| `FileBytesProofs` | theorems about `Decode`, `HexDump` and `Archive`, as `FileBytes` uses them | `FileBytes`, `TLAPS` |
| `Libft` | the rest of libft, side by side | `MemMove`, `CMemory`, `CStrings`, `Numbers`, `Wide`, `Lists`, `Output` |
| `LibftProofs` | theorems about `MemMove`, `Output` and `Lists`, as `Libft` uses them | `Libft`, `TLAPS` |
| `MC…` | small constants for the module of that name | |

Each module cuts the program at a call. `ObjectWalk`'s results (`OK`, `ERR_SILENT`,
`ERR_MEM`) are the results of `DispObject` in `FileWalk`, whose results (with
`ERR_MAGIC`) are those of `disp_file` in `Driver`. `WindowsNest` in
`FileWalk` gives `ObjectWalk` its window: it lies in the mapping, and `get_vm`
has checked that it holds `MachHeaderMin` bytes (the assumption on `Sizes`).
The three are also tied by one abstract specification: `Returns` says that a call
returns once, with one of the codes its caller knows, and each of the three
implements it (`ImplementsCall`), which is what allows the next one to make the
call a single step.
`FileBytes` and `Libft` put parts that share no state next to each other, so that one run
checks them all: a variable `part` says which one a behaviour follows, and the variables of the
others keep fixed values. A property of theirs is the conjunction of those of the part of that name.
`Decode` gives `ObjectWalk` its fields, `Archive` gives `FileWalk` its headers,
`HexDump` what one dumped section looks like.
`array_push` in `ObjectWalk` appends or fails, which is what `DynArray`
establishes about it.

### ObjectWalk

The loops of `disp_object`, `disp_sections`, `store_symtab`, `sort_symtab` and
`disp_symtab` are flattened into one machine: `pc` says which loop is being
executed, `i`, `n`, `row`, `col` are the loop counters, `cmd` is the command whose table is being
read. Offsets are relative to the window. The contents of the file are revealed
when read: a step that decodes a command, a section header or a symbol takes any
record of `LoadCmds`, `Sects` or `Syms`. Two reads of the same bytes would be
allowed to differ; `CommandsAdvance` says that no command is read twice, but tables may
overlap each other in the file, and there the model allows more than a file can hold. The
other differences between file and model are:
decoding (byte order, 32 and 64 bits) is in `Decode`, the layout of the
dump in `HexDump`. `sections`, `symbols` and `reach` are history variables: what
has been read, and the highest byte read.

`CHECK_CLEAN`, a failing check, is `Fail`: the arrays are
released in the same step, as they are before `disp_object` returns. The
result of the push in `disp_sections` is ignored by the code and therefore by
the model; the one in `store_symtab` is not.

### FileWalk

`stack` is the C stack, innermost call first, with room for `StackLimit` calls; `ret` is the result just given to
the innermost call, or `Crashed`. A `disp_file` call is replaced in place by the `disp_fat` or
`disp_ranlib` call it ends in. The second pass of `disp_fat` is a call of
`disp_fat` whose result its caller drops; the model restarts the frame with `all` set and
returns `OK` whatever the second pass gave. `get_type` is a nondeterministic
choice: any window that is long enough may be an object, a fat file, an archive or nothing
known; but a window that starts where a call in progress stands holds what that call found there (`Holds`).

Offsets and sizes of a fat table are words of the file, and `get_sub_mem` adds them to addresses modulo
`Word64` without a look at the carry, as the code does. Two kinds of entries lead astray: one that makes an
address wrap (`Wraps`), whose window may lie outside the mapping, and one with offset 0
(`NamesItself`), whose window starts where its fat file does, so that `disp_file` and `disp_fat` call each other on
it until the C stack is full. `Crash` is the death of the process: on a full stack, or on reading a
window outside the mapping, where memory may also be readable and hold anything. `failures` is a history
variable: the codes that `disp_object`, `get_vm` or a check gave outside every second pass.

### OutBuf and Streams

A character is the descriptor of the call that printed it and a number, so that
order and direction can be told. A write takes all of its characters, the first ones
only (`MayCut`), or none (`MayFail`): `ft_perror` then writes two pieces
of text to descriptor 2, each of which may fail and be reported in turn (`owed`).
`Streams` is the abstract specification: characters come out in the order in which
they were printed, over all descriptors, and all of them are out when a call
returns. `busy` is refined by "a call is in progress or the buffer is not empty":
`printfd` called with the descriptor that is already set returns with its
characters still in the buffer (`wrappers.c:65`), and only the next call
completes it.

### DynArray

The heap is a function from the allocated addresses to their bytes. `ft_realloc` is an
operator that yields the set of its outcomes, one for each way `malloc` may
answer, the double allocation for a null pointer included.

### Driver

`pc` follows `main`: flags, their letters, files, `map`, `disp_file`, `munmap`.
Arguments are sequences of characters; blanked arguments are `NULL`. `errno` is a
variable of its own, because `nm` returns it: a failing `stat`, `open` or `mmap` sets it, a failing `write` may set it
wherever something is printed or flushed (`AfterWrites`), and `disp_file` may leave `ENOMEM` in it whatever it
returns, because a failed `malloc` is not always passed on (`parsing.c:30`, `parsing.c:123`). No step clears it.

### Format

One step per literal character or directive. `%` takes the directive apart as
`get_flags`, `get_width`, `get_precision` and `get_input` do, and prints the
field with the converter of its letter. Integers have the widths `Bits`; the build makes
`char` unsigned, so that `%hhd` is.

### Decode

A word is the sequence of its bytes; shifts and masks move and clear whole bytes, as those
of `swap.c` do. A file is a structure somebody wrote, in one of two byte orders and
widths; `get_type` sees its first bytes, then the reader of that structure sees
the rest with the order and width `get_type` found. The offsets of the fields are
those of the headers of the system. The name fields are `NameLen` bytes long.

### Archive and Atoi

The mapping is a sequence of bytes that begins with a member's header; `check_ranlib_header`
is one step, with its checks and results in their order. An `int` that
overflows is kept as two halves (`Word`), so that the wrapped value is exact without numbers
TLC cannot hold. `FileWalk` goes on taking a header as any numbers.

### HexDump and Wide

One byte, or one character, per step. Output is a sequence of pieces (`HexDump`)
or of bytes (`Wide`), read back by a decoder written from the definition of the
format and not from the code.

### Output

Every function of libft is an operator on the state of the buffer and of what was
written, and the actions call them in any order, with any descriptor. Where the
buffer's bytes are is part of the state: nowhere when `malloc` failed, in a frame
that is gone after `print_ind`. Writes succeed here; `OutBuf` has those that fail.

### Numbers, MemMove, CMemory, CStrings

`Numbers` keeps the static buffers between calls. `MemMove` is the loop of
`ft_memmove`; `CMemory` is one memory in which all strings and blocks lie, and one call of one function on it:
each action states what C asks of the arguments, what the C standard wants
at the destination (`expected`) and as the result (`wanted`), and what the code does. Nothing is asked of
what the destination holds: `ft_strcpy` clears up to the first NUL, behind the block if there is none in it, and runs off
the memory if there is none at all (`Fault`); so does the copy `ft_strjoin` makes into its fresh block. `CStrings` evaluates all the
pure functions on one pair of strings; a string is its characters without the
NUL, and what lies after the NUL is `Rubbish`. Characters are unsigned, also where the code says plain
`char` (`ft_strcmp_fast`): all three Makefiles compile with `-funsigned-char`.

### Lists

The heap is a function from nodes to contents and `next`; iteration, copying and
the recursive deletion are taken node by node. The function given to `ft_lstmap` may fail
and may leave any `next` in the node it makes.

## 3. Runs

| run | question | distinct states |
|---|---|---|
| `nm_object` | does `nm` classify by the whole file, keep names readable, sort and print everything? | 1.6 million |
| `otool_object` | does the walk read inside the window, dump what was asked for, release its arrays when any `malloc` may fail, and return? | 0.7 million |
| `file_walk` | do windows nest, when does the process die, does the call end, do errors and labels come out? | 238 000 |
| `outbuf` | does the buffer implement the streams when writes succeed? | 30 000 |
| `outbuf_errors` | what remains when writes fail or are cut? | 127 000 |
| `dyn_array` | do contents, capacity and the one block survive every failure of `malloc`? | 0.5 million |
| `mains` | flags, messages, mappings, descriptors, status and end of both tools, for every short command line, with `malloc` and `write` failing too | 188 000 |
| `format` | numbers, widths, the column of letters, over 11 000 calls | 23 000 |
| `file_bytes` | are types, fields, names and lengths those of the file that was written, and does its dump read back? | 16 000 |
| `libft` | does the rest of libft do what the C standard says of its namesakes, and keep text, lists and output whole? | 0.7 million |
| `dyn_double_comment` | what the comment of `ft_realloc_double` says; violated | |
| `nm_names_test` | what `test_nm.sh` expects of `nm -n f`; violated | |

Properties, by what they guard against:

* `ReadsInWindow` (`otool_object`, reads): counts are multiplied by entry sizes and added to
  offsets in several places; `reach` catches a wrong product, a check of the start
  only, or a table at the wrong place. The one sum that may wrap is the end of a
  section, `sec.offset + sec.size`: the model wraps it as the code does, and the property promises
  nothing once a section whose end wraps has been dumped.
* `NamesTerminated`: names are checked when stored and read when sorted and printed.
* `LettersFromFile`: letters are looked up after the walk, by number, in an array filled
  during the walk. It is stated for walks in which no push of a letter was
  lost; when one is lost, letters are those of a neighbouring section, which is
  what the code does (hazard at `parsing.c:30`).
* `ListingSorted`, `ListingComplete`: the exchange sort with the comparison
  that answers `!c` when reversed.
* `DumpedAsAsked`, `NothingLeftBehind`: the three options that select a section; both arrays on every
  way out.
* `CommandsAdvance` and `ImplementsCall` (of `ObjectWalk`, `FileWalk` and
  `Driver`): the loops and the recursion are driven by sizes the file states, and have to end;
  so has the exchange sort, whose comparison holds both ways for equal symbols when reversed.
* `WindowsNest`: a window lies in the file and in that of its caller, and begins after it, so that the recursion advances and
  its depth is bounded by the length of the file. It is stated with the code's own exceptions: nothing is promised of calls
  made for an entry that wraps, and an entry that names its own fat file has a window that does not begin later.
* `CrashesOnlyAstray`: the other side of these exceptions. The process dies only while a call made for such an
  entry is in progress, or over a file as long as the C stack has room for calls.
* `OneOrAll`, `ErrorsSurface`, `ArchitectureNamed`: nested fat files and archives. `ErrorsSurface` compares the
  result of the walk with the codes found outside every second pass, at any time: an earlier second pass, which ended
  with or without an error, changes nothing.
* `ImplementsStreams`, `CountsOwn`, `IdleEmpty`, `NeverMixed`, `EveryFailureReported`:
  one buffer, several descriptors.
* `CapacityHonest`, `ContentsKept`, `OneBlock`, `FailureHarmless`: growth and failure.
* `FlagsThenFiles`: flags and operands are blanked, nothing else is, and the options are those given.
  `EveryFileAnswered`: a file is shown, named in a message, or (by `otool`) not reached after the first
  that could not be shown; and `nm`, whose status is an `errno` that later calls may overwrite, does not return 0
  if any of its files could not be opened or mapped. (It may return another number although all were shown, and 0
  although one was malformed: nothing is promised there.) `ResourcesReturned`: mappings and descriptors, but those an empty file
  and a failing `mmap` leave open.
* `ValueReadsBack`, `ColumnsAlign`: the formatter and the two
  directives `nm` prints its lines with.
* `FieldsAsWritten`: byte order and width, decided on different forms of the
  magic number; fields at different places in each structure; the subtype, which is
  printed in two columns; names in fields without room for a NUL.
* `MemberAsStated`: headers made of text fields without separators. Lengths of
  ten digits or more, which may wrap, are run but promised nothing.
* `DumpReadsBack`: the rows of the dump, words of the other byte order, the heading.
* `WritesAsInC`, `ReadsAsInC`: overlap, old contents, limits, strings that end early, against the
  definitions in the C standard. `ft_strcpy` writes no NUL but clears the old contents up to their first one: in a
  block without one it clears what follows the block, up to the next NUL. `WritesAsInC` says which bytes those
  are, that no other byte changes, and that `ft_strjoin` loses its second string if the clearing comes upon it.
  `ReadsAsInC` takes bytes on both sides of 128. `ft_strlen_fast` reads on to the end of the word of the NUL; no other
  function reads past the end of a string.
* `TextReadsBack`: the least `int`, old digits in the static buffers, signs; UTF-8 where the number of
  bytes changes, widths in characters.
* `OutputInOrder`: direct and buffered output mixed. It admits a buffer `malloc` did not give and the
  return of `print_ind`.
* `ListsKept`: an action property; no dangling pointer, no node lost but by a failed call, each
  element once and in order.

### Bounds and why they are enough

* Object walk: structures are one or two units long and windows 1, 6 and 8, so that
  every check passes, fails by one and fails by much; up to three commands allow
  a symbol table before, between and after two segments, and two symbol tables.
  Entry counts go to two, which gives up to four symbols: enough for every pair of rows
  of the exchange sort. Four symbols cover a section number of 0,
  1 (present or not), 2, a value that ties, a name outside the window and a debugging symbol.
  `Word64` is 64 so that one section can wrap. `otool_object` has two commands, because its sections are more and any `malloc` may fail.
* File walk: files of 0, 3 and 9 units with headers of one unit hold archives in fat
  files in fat files, and fat files in archives. Addresses are modulo 32 and the mapping is at 2, so that an offset of 31
  leads before the file, a size of 29 makes an end wrap, and an offset of 0 to the fat file itself, each alone and after
  another entry. `StackLimit` is 4: less than the longer file needs when all windows nest, so that a crash for that reason
  happens as well, and more than the file of 3 units needs, for which only entries astray may crash.
* Output buffer: a buffer of two characters and six characters printed make the buffer
  fill within a call, at its end and across descriptors; with errors, three failing
  writes cover a failure while a failure is reported.
* Arrays: three blocks are one more than `ft_realloc` ever holds; `MaxSize` allows
  two growths; elements are one and three bytes wide so that an array may be
  too small without being full. `FirstDouble` is 32 in the code and 5 in the
  passing run, to keep arrays short.
* Drivers: command lines of up to three (nm) or four (otool) words, the latter
  because `-s` takes two operands and a file must be able to follow; two descriptors; one error that a
  failed `write` may give, different from those of the other calls. The buffer's `malloc` (`nm.c:72`) succeeds here; `Output`
  has the case that it fails.
* Formatter: the integer types have two to eight bits, so that the values tried
  are too large, or negative, for some of them.

* Decoding: each byte of a field is different from the others and from those of other fields, so
  that any byte at a wrong place shows; name fields have two bytes, so that a name is empty, short, or fills its field.
* Archive: `MaxLong` is 12 instead of 256; lengths go from none to eleven digits, with and without
  text after them; the window ends at each place the checks look at.
* Hex dump: sizes up to a byte beyond two rows; addresses on a row, off a row and near the end of a `size_t` of 512. The
  processors are all those near the table and the special cases.
* Output: a buffer of three, one of two for `print_ind`, and five characters, so that each
  buffer fills in the middle of a text.
* Wide: the first and last code of every length, every string of up to two of them and one of three.
* Numbers: the limits of an `int`, the powers of ten and their neighbours; two calls, because of the static buffers.
* Strings and memory: a memory of six bytes, and strings of up to four and two characters, hold every overlap, prefix,
  early end and repetition the loops tell apart.
* Lists: four nodes, for a list of two and its copy, or one list of four; they are
  interchangeable (symmetry; no liveness is checked there). Two failures of `malloc`.

### Fairness

`FileWalk`, `ObjectWalk` (`FairSpec`) and `Driver` (`FairSpec`) state `WF_vars(Next)`: the program is one
sequential thread that waits for nothing, so that a step that can be taken is
taken. Nothing is assumed about which step: what a file holds and whether a call fails remain free. The other
modules check safety only.

### Assumptions

Each is a named `ASSUME`, evaluated by every run of its module.

* `SizesAssumption`, `FileAssumption`, `ContentAssumption`, `OutBufAssumption`,
  `DynArrayAssumption`, `FormatAssumption`, `SizeAssumption`, `FileBytesAssumption`, `BufferAssumption`: kinds of the constants.
* `NodeAssumption` (`Libft`): memory has room for finitely many nodes, and none of them is at `NULL`. `Path`, which reads a list
  off the heap, follows that many links at the most.
* `MappingAssumption` (`FileWalk`): the file is mapped so low in the address space that its length can be added
  to an address in it without a carry. Nothing is assumed about the tables.
* `DriverAssumption`: the errors of the system (those of a failed `write` included) are none of the codes 132 and 133 of
  the tools; those of macOS, which the tools are written for, go up to 106. `EMFILE` is given by
  `open` alone, when no descriptor is left, and is not among `Errnos`. `munmap` is called on
  mappings `mmap` gave and does not fail, nor does `close`.

Restrictions that are not assumptions: a format that ends in the middle of a
directive is not among the calls of `Format`; `OutBuf` starts with the buffer installed, as
both `main` functions do first (`Output` also has the case that `malloc` does not give it); the codes of `Wide` are
those of at most 21 bits; sums of offsets inside an archive are not reduced modulo 2^64 (the lengths they come from
have ten digits, or are words of 32 bits, and are added once per member).

## 4. Proofs

`ObjectWalkProofs` proves, for every structure size, window, file content and option record:

* `TypeCorrect`: `TypeOK` is inductive. The interesting parts are the cursors: `n`
  stays within the table whose end was checked, `row` and `col` within the symbols.
* `ReadsSafe`: `ReadsInWindow`. It is not inductive: that an entry of a table lies in
  the window follows from a check made when the loop over the table was entered. `WindowInv`
  adds this: while sections or symbols are read, the end of the table of the current
  command is in the window and the command is not empty. The step then is
  `(n + 1) * width <= count * width`, the lemma `MulMono`.
* `Advance`: `CommandsAdvance`, from the same invariant: the size of the command was checked when
  the command was read and is used after its table was.
* `NamesSafe`: `NamesTerminated`. The exchange sort moves names without changing them; storing
  one checks it.
* `NoLeak`: `NothingLeftBehind`, for every outcome of `malloc`.

`ListingProofs` proves what the tools print, for the same constants, on top of the type invariant:

* `LettersRight`: `LettersFromFile`. `LettersKept` says that letter `k` is that of the `k`-th section header
  read, as long as there are as many letters as headers; `LinesClassified` that a printed line has
  the letter the array gave. Nothing is pushed once a line is printed, which is what ties the two.
* `SortedListing`: `ListingSorted`. During the exchange sort, `RowsInPlace` holds: the
  rows before `row` are in order with everything behind them, and `row` with what `col` has passed. The
  step rests on `ExchangeOrders`: after an exchange on `should_swap` the two are in order, and a third that was in
  order with the first still is; for this, `Above` must be a strict order (`AboveOrders`). That `should_swap` also
  exchanges equal symbols when reversed does no harm to the order.
* `CompleteListing`: `ListingComplete`, by counting. For every symbol, the number of rows it has among the tokens is
  that in the tables (`TokensCounted`), and the number of lines is that among the rows passed (`LinesCounted`). The
  sort keeps the first number because an exchange trades two positions (`TradedPositions`).
* `DumpComplete`: `DumpedAsAsked` is inductive itself; the proof is about the place of a position among
  those of a set (`PlaceInRange`, `LaterPosition`).
* `CallerSeesOneReturn`: the safety half of `ImplementsCall`, the initial states and the steps of `Returns`.

`FileWalkProofs` proves, for files of every size, tables with any words in them and nests of every depth:

* `StepShape`, the lemma the others rest on: each of the actions replaces the innermost call, or
  calls `disp_file`, on a window that lies in the caller's and begins after it unless the entry is astray, or returns, or is `Crash`. The
  actions are looked at once, and the invariants only meet these shapes.
* `WindowsInFile` (`WindowsNest`): `FramesOK` says what is true of every call, also of those astray: that a table or an archive is
  entered only in a window that is not empty, and that `disp_fat` has passed no `x86_64` entry; `NestInv` relates a call to its caller
  and to the file, as long as no entry on the way to it wraps (`Tame`). `SubMem` is where the carry is dealt with.
* `CrashesExplained` (`CrashesOnlyAstray`): as long as no entry on the way wraps or names its own fat file, each call starts at
  least one place after its caller (`DepthInv`), so that there are at most as many as the file has places; and what
  the process died of is still to be seen in the stack (`CrashInv`).
* `OneArchitectureOrAll` (`OneOrAll`): that a second pass was started only when no entry is
  `x86_64` is in `FramesOK`, that a call that waits for an architecture in a first pass waits for such an entry in `CallersWait`.
* `NamedByArchitecture` (`ArchitectureNamed`): `Named` looks down the stack for the nearest fat file; `LabelInv` says
  of every call, not only of the innermost, that its `show_cpu` is what `Named` finds.
* `ErrorsReachMain` (`ErrorsSurface`): an error found outside every second pass is on its way in `ret` and ends each call it comes to
  (`ErrorInv`), so that there is one at most; and a second pass, once ended, has left nothing in `ret` (`PassedSecond`).
* `MainSeesOneReturn`: the safety half of `ImplementsCall`.

`DriverProofs` proves, for every command line and every failing call:

* `FlagsAreFirst` (`FlagsThenFiles`): before the files, `ArgsInv` says what is blanked up to the word and the letter looked
  at; `FlagsSeen`, `SortingSeen` and `SectionSeen` say of the letters read so far what the property says of all.
* `FilesAnswered` (`EveryFileAnswered`), `ResourcesAreReturned` (`ResourcesReturned`):
  `LoopInv` says at each place of the loop which files have been looked at, and what is mapped; `DescriptorsInv` that
  there are no more open descriptors than files refused; `ErrnoInv` that `errno` is not 0 once a file could
  not be opened or mapped, whatever other calls put there since. `DescriptorsInv` failed to be inductive
  while `EMFILE` was allowed among `Errnos`, which the comment of that constant ruled out and no
  assumption did: `stat` could have given it with descriptors left. `DriverAssumption` now says so.
* `StartSeesOneReturn`: the safety half of `ImplementsCall`.

`OutBufProofs` proves, for every buffer size and every amount of output:

* `RoomForOne` (`TypeOK`), `EmptyBetweenCalls` (`IdleEmpty`), `OwnCount` (`CountsOwn`) and
  `NoLoss` (`NothingLost`, which no run checks by itself: it is what `ImplementsStreams` rests on), from one invariant `Inv`. Besides the types, it
  says that the totals are bounded by what was printed (`Bounded`); that the characters in the
  buffer belong to the descriptor it is set to, which is that of the call in progress, or 1
  between calls (`Directed`); that the running total is the number of characters of the
  call (`Counted`); and that, while no write has failed or been cut, what was written
  followed by what is buffered is all that was printed (`Complete`). `Directed` is why
  a flush never sends a character to the wrong descriptor, and no property says it by itself.
* `NothingMixed` (`NeverMixed`), with no such restriction: writes may fail or be cut. `InOrder` adds to the property that the
  characters in the buffer, too, are those that were printed, in their order. `WriteWritesFirst` is what all
  outcomes of a write have in common: the first characters it was given arrive, some or none of them.
* `FailuresReported` (`EveryFailureReported`), which is inductive: reports are counted by their positions, and a write of
  characters adds none.
* `BufferImplementsStreams`: `OutBuf` implements `Streams` when writes neither
  fail nor are cut (`MayFail = {}` and `~MayCut`). Initial states map to initial states; a step maps to
  a call, to one character, to characters coming out, to the end of a call, or to no step, and `Inv` is
  what shows that the characters coming out are the oldest ones.

`DynArrayProofs` proves `HonestCapacity`, `KeptContents`, `NoBlockLost` and
`HarmlessFailure`, which are the four properties of `dyn_array`, for any number of blocks, any element
sizes and any sequence of `malloc` failures. The invariant says that the heap
is one block (`Only`) at least as long as the noted size (`Owned`), whose first bytes
are those pushed (`Kept`). The argument is in two lemmas: `ReallocOutcomes`
lists what `ft_realloc` can end in, and `StoredIsPushed` shows that storing behind
the bytes in use is appending to what was pushed.

`LibftProofs` proves:

* `CopyExact` and `LibftCopies` (`CopiedAtOnce`, the first half of `WritesAsInC`), for blocks of any size and any overlap. The
  invariant is `Progress`: what is behind the counter has been copied, what is before it, in the
  source as well, still holds what it held at the call. Each direction needs the order of
  source and destination for the second half.
* `BlocksWritten` (`WritesAsInC`), for memories of any size with anything in them, blocks without a NUL included. Every function is a loop that stops at the
  first place of some kind; `Search` is such a loop as a function of the place, `SearchDefined` and `SearchFinds` say that there
  is one and that it stops there, by induction on the distance. With these the lemmas `StrcpyIs`, `StrncatIs`,
  `StrlcatIs` and so on say what each function writes (`Filled`) and where (`End`, `Cut`, `Sought`), and a lemma for each call
  (`StrcpyRight` to `StrjoinRight`) compares that with the text the C standard wants, place by place. `StrlcatRight` has the three
  cases of a size before, at and after the end of the first string. `Stops` says where the clearing of `ft_strcpy` ends, at a NUL or at
  the end of memory (`StopFound`: at one of the two), and `ClearingCall` that the bytes behind the block it went over are those of
  `Overrun`. `StrjoinRight` has three cases: the clearing ran off the memory; it ran into the second string, which is then
  empty; or that string is still what it was and `ft_strcat` finds the end of the copy where it should.
* `OutputOrdered` (`OutputInOrder`), for buffers of every size, under `BufferAssumption`: what was written and
  what is buffered are characters of the calls so far, those of one descriptor in the order of the calls. The loops that put
  a text or a number into the buffer are functions of the place in the text; `LoopDefined` says, by induction on a set
  of numbers, that there are such functions, and the invariant is carried through them place by place. Its parts are
  `Waiting` (what the buffer holds is in order), `Ahead` (a character is overtaken by direct writes alone) and `Counted` (none
  lost or doubled), and `Sound` says that a function of libft keeps them.
* `ListsWhole` (`ListsKept`), for any number of nodes, under `NodeAssumption`, with `malloc` and the function passed to
  `ft_lstmap` failing at any element. A pointer and a heap say nothing of the nodes behind the first, so the invariant
  (`ListsAre`) says that there are sequences of nodes, one for each of the program's lists and one for the call in progress
  (the copy under construction, or what is left of the list being deleted), such that each node leads to the next and the last
  to `NULL` (`Chained`), no node is at two places (`Apart`), and every other node was left behind by a failure and leads to no
  list (`Accounted`); that the pointers are to their first nodes (`Points`); and that the call has come as far as its step says
  (`InCall`: `Iterating`, `Copying`, `GoingDown`, `ComingUp`). What a call does to the heap is one of eight lemmas about such
  sequences (`NodeAdded`, `NodeLost`, `Freed`, `Relinked`, `NodeAppended`, `Moved`, `Abandoned`, and `Linked1st` for
  `ft_lstadd`); each step cites those it needs, `PathIs` says that the sequences are what `Path` reads off the heap, and
  `NodesCounted` that their lengths add up to the number of nodes allocated. The copy's last node is exempt from
  leading to `NULL`: between two elements it holds whatever the function passed to `ft_lstmap` left there.
  A failure at the first element writes to `NULL` (`ft_lstmap.c:25`): the behaviour ends there, and nothing is said of what follows.

`FileBytesProofs` proves what is read from the bytes of a file:

* `AnyBytesReadBack`, for whatever bytes the fields hold: with the byte order and width `get_type` finds in the magic
  number, the reader of each of the eight structures gives back every field. `SwapReverses` and `SwapLongReverses` say that
  the shifts and masks of `s` and `sl` reverse a word, `ReverseTwice` that this undoes the other byte
  order, `LayoutsApart` that no two fields of a structure overlap, so that (`LoadedAsStored`) a field is loaded as it was stored.
* `FieldsRead` (`FieldsAsWritten`), for every length of the names and every set of characters, on the files the run takes: of
  the other fields those hold bytes that are all different, or zeros. It adds that
  the two columns of the header line lose no bit (`ColumnsWhole`) and that `strcmp`, which reads on into the next
  fields, sees the name and nothing after its NUL (`NameEnds`). That a name has a first NUL is the one place
  where well-foundedness of the numbers is needed (`LeastOf`).
* `DumpRead` (`DumpReadsBack`), for every size, address and processor: `DumpInv` says where in the output each byte,
  each blank and each address of a row is, that addresses go in steps of 16 from the first, and that a word of the other
  byte order is put whole and backwards.
* `AnyMember` and `MemberRead` (`MemberAsStated`): the first is about any bytes that have the shape of a header (`FileShape`),
  whatever its fields hold; the second says that the archives of the run have that shape. `ft_pure_atoi` and the
  definition of a decimal number are two loops that go through the digits in different ways; `LoopsAgree` compares
  them place by place as long as nothing wraps, which nine digits cannot (`FieldNumber`). `NameCopied` and `SymdefCut` say
  what the copies of the name hold, `ShortAsStated` and `LongAsStated` put a header of each kind together.

The only assumptions are the named ones of the modules, in section 3.

Only model-checked:

* the liveness half of `ImplementsCall` (that `disp_object`, `disp_file` and `main` return, under fairness);
* `ValueReadsBack` and `ColumnsAlign`, `TextReadsBack`, `ReadsAsInC`: what recursive functions and folds
  compute for every input, which only an induction over the data could show.

`NeverMixed`, `EveryFailureReported`, `DumpedAsAsked` and `DumpReadsBack` speak of positions in a sequence (`Written`, `Reports`,
`AskedAt`, `RowsBegin`) rather than of a selection from it, and `Path` counts links rather than recurring on nodes, so that they can be reasoned about.

## 5. Findings

* `ft_realloc_double` gives an empty array 32 bytes, its comment (`ft_realloc.c:45`) says 2
  (`dyn_double_comment`).
* `ft_nm -n f` prints a line with the name of its only file, because `argc > 2` also counts flags
  (`nm.c:35`); `test_nm.sh:14-16` compares its output with that of `nm -n f`, which does
  not (`nm_names_test`).

Not a finding of a run, but modelled as it is: names of archive members keep the blanks that fill
their field, because `isvalid` (`ranlib.c:17`) joins its bounds with `||` and holds of every character.

## 6. Not modelled

* `ft_memdel`, `ft_strdel`, `ft_strerror`: one call of `free`, or one entry of a table of the system, with
  nothing to go wrong in between. Nothing in the tools calls the first two.
* The codes of a wide character above 21 bits and negative ones, which no encoding gives a meaning.
* Names of 16 characters: `strcmp` reads on into the next field, as `Selected` does, but what it should
  answer is stated for shorter names only.
* Wording of messages and the layout of the lines that are fixed text.
* The Makefiles and test scripts have nothing to check; the models use the `-funsigned-char`
  of the former and the expectations of the latter.

## 7. Plan

Done, in the order of importance: `ObjectWalk` with `Symbols` and its proofs, the core,
whose inputs are files nobody vouches for; `FileWalk` and `Driver`, the calls around it;
`DynArray`, `OutBuf` with `Streams`, `Format`, the library it stands on; then what they take as given: `Decode`,
`Archive`, `HexDump`, `Wide`, `Output`, strings, memory, numbers and lists; `Returns`, which ties the calls.

`ObjectWalk`, `FileWalk`, `Driver`, `OutBuf` and `DynArray` have theorems for each of their safety properties.

`FileBytes` has them for all of its own, `Libft` for the copy, the output and the lists; what is left to the runs is in section 4.
