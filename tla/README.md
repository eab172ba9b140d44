# TLA+ specifications of devgroup

devgroup holds three kinds of program that have to be right without anybody
watching them: the tools that put a program onto a COR24-TB board over a serial
line, the resident suites that run on the board, and the scripts that carry the
commits of isolated workers to GitHub.  This directory specifies them in TLA+,
checks the specifications with TLC on small instances, and proves with TLAPS
that most of their safety properties, and two refinements, hold for every value of
the constants.

`PROJECT.json` is the index: components, runs, the source lines of every
definition, hazards, findings and theorems.  Paths below are relative to the
root of the repository.

## 1. Inventory

### 1.1 Verified uploader: `te/te2`

- **Parts.** The host program `te2.c`; the second-stage loader `te2-loader.c`,
  which the host puts at `0x0fc000`; the 921600-baud line between them.
- **State.** Host: where `main()` is, the image, records acknowledged, attempts
  of the current command, whether `wait_line()` is reading.  Loader:
  `expected_seq`, `stream_crc`, `finalized`, board memory.  Line: bytes on the
  way in either direction, kept by UART, adapter and the receiver process.
- **Operations.** Bootstrap or attach (`-2`); H, D, E and G commands with up to
  `-r` attempts (H and G: one); acknowledge, refuse, recognise a duplicate, read
  back; jump; a program that returns to the loader; SIGINT anywhere.
- **Hard.** Garbled, lost and late lines; a reply to an earlier attempt; the
  loader's state outliving the run of the host that made it; a store that fails.
- **Correct when** the terminal is opened, and a program started, only over the
  whole image; retries leave no trace; no run waits for ever; no run makes the
  board jump twice.

### 1.2 Branch relay and release: `scripts/dg-relay`, `scripts/dg-release`, `scripts/sync-bare-repos.sh`, `work/scripts/dg-*`

- **State.** `main` and `dev` of GitHub and of the bare repository; the
  coordinator's relay checkout with its remote-tracking and queue refs and its
  one checked-out branch; the worker clones.
- **Operations.** A worker starts, signals, rebases and reaps a branch; the
  coordinator fetches, merges and pushes in a fixed order; a mirror update
  resets the bare repository from GitHub.
- **Hard.** Every script can end between any two commands (`set -e`, Ctrl-C,
  network); two scripts use one checkout and there is no lock; a conflict sends
  the work back; local refs survive a failed run and mislead the next.
- **Correct when** what was reaped is still somewhere, what was reported is
  published, shared refs only grow, and signalled work arrives.

### 1.3 Resident monitors and input brokers: `suites/forth-apl`, `suites/plsw-snobol4`

- **State.** Ring of 256 bytes with byte indices `rx_head` and `rx_tail`, the
  attention flag, the interrupt enable, the discard-newlines flag, and the
  instruction an interrupt comes at.
- **Operations.** Menu, launch, interrupt routine, three brokers (Forth, APL,
  PL/SW and SNOBOL4), return to the menu.
- **Hard.** The interrupt comes between any two instructions of a broker; there
  is no lock; a full ring must not look like an empty one.
- **Correct when** bytes arrive in order and once, the attention key never
  reaches an application and always brings the menu back, and nothing typed at
  one application is read by the next.

### 1.4 Combined Lisp suite: `suites/combined-lisp`

| Part | State | Operations | What is hard |
| --- | --- | --- | --- |
| Non-local control (`eval.h`) | catch and wind stacks of 16, throwing flag, target | `catch`, `throw`, `dynamic-wind`, the prompt | after thunks that throw, throws out of before thunks, nested catches of one tag |
| Heap and collector (`heap.h`, `gc.h`, `tml.h`) | 32768 cells, free list, high-water mark, root stack of 256 | allocate, protect, `(gc)`, restart | conservative stack scan, stale words, cells not yet linked |
| Strings and symbols (`string.h`, `symbol.h`) | pools of 8192 and 4096 bytes, table of 512 names, gensym counter | make, append, cut, intern, convert, gensym, restart | packed 11-bit offsets, pools that are never freed, stale bytes after a restart |
| Reader, printer, line editor (`read.h`, `print.h`, `io.h`) | line buffer, nesting and string state, `read_ptr` | type, erase, read, print, loop | the editor decides by itself when a datum is complete; the reader walks a buffer full of old lines |
| Compiler, snapshots (`compile.h`, `snapshot.h`) | none in the suite: not included | | |
| Preludes | Lisp text | | |

### 1.5 Load-and-go upload: `reference/loadngo.c`, `te/te/te.c`, `te/te-rs/src/main.rs`

- **Parts.** The monitor in ROM; the terminals `te` (two processes, one for each
  direction) and `te-rs` (one process, with or without `--sync`); a line with
  RTS/CTS.
- **State.** Line buffer and memory of the board; file, position and awaited echo
  of the terminal; characters on their way.
- **Operations.** The monitor echoes each character, gathers a line and obeys `L`,
  `G` and `;`.  A terminal types, asks for a file, uploads it, and with `--sync`
  compares the echo of each line before it sends the next.
- **Hard.** A line is stored as it is parsed, also a bad one; messages come after
  the echo of the line they are about was accepted; either side may be held back
  by the other; characters are lost or changed.
- **Correct when** an upload that completed is in memory, an upload that is
  rejected stops, and every upload ends.

### 1.6 UART interrupt echo: `reference/uartcint.c`, `reference/uartaint.s`

A ring of 16 between an interrupt service that turns itself off when the ring is
full and a loop that turns it on again when the ring is empty.  Hard: there is no
lock, and the service comes between any two accesses of the loop.  Correct when
each byte is written back once, in order, and none stays in the UART.

### 1.7 The rest

Board demonstrations, account and toolchain setup, worker helpers, interpreter
front ends and builds.  They are sequential, without shared state of the kinds
above; `PROJECT.json` lists each with its reason.

### 1.8 How the parts interact

The host tools and the board share only the serial line.  `te2` starts a suite;
the suite's monitor starts an application; the application calls the monitor's
broker for input; the Lisp evaluator calls allocator and collector at every cell.
The scripts share only git refs: the bare repository is what workers fetch, and
the worker clones are what `dg-relay` fetches.

## 2. Modules

| Module | Models | Extends / instantiates |
| --- | --- | --- |
| `TE2` | uploader, loader, line | |
| `TE2_proofs` | theorems about `TE2` | `TE2`, `TLAPS` |
| `Relay` | relay, release, mirror update, worker commands | |
| `Relay_proofs` | theorems about `Relay` | `Relay`, `TLAPS` |
| `Console` | what a monitor promises (abstract) | |
| `Monitor` | both monitors and their brokers | `Console`, by refinement |
| `Monitor_proofs` | theorems about `Monitor`, and its refinement | `Monitor`, `TLAPS` |
| `LispControl` | catch, throw, dynamic-wind | |
| `LispControl_proofs` | theorems about `LispControl` | `LispControl`, `TLAPS` |
| `LispHeap` | cells, allocator, collector | |
| `LispHeap_proofs` | theorems about `LispHeap` | `LispHeap`, `TLAPS` |
| `LispText` | string pool, symbol table, gensym | |
| `LispText_proofs` | theorems about `LispText` | `LispText`, `TLAPS` |
| `LispRepl` | line editor, reader, printer, loop, menu | |
| `LoadNGo` | the monitor in ROM | |
| `Terminals` | `te`, `te-rs`, line, composed with the monitor | `LoadNGo` |
| `Terminals_proofs` | theorems about `Terminals` and `LoadNGo` | `Terminals`, `TLAPS` |
| `EchoFifo` | what an echo promises (abstract) | |
| `UartEcho` | interrupt service and loop of the echo | `EchoFifo`, by refinement |
| `UartEcho_proofs` | theorems about `UartEcho` | `UartEcho`, `TLAPS` |
| `MCTE2`, `MCRelay`, `MCMonitor`, `MCLispText`, `MCLispRepl`, `MCTerminals` | constants for TLC | the module they name |

Definitions marked *Seeded bug* are wrong versions of the definition that follows
them, named in `PROJECT.json` under `mutants`.  Putting one in the place of its
original breaks one of the properties; they show that the property can fail.

### 2.1 TE2

One action per command the host sends (`SendHello`, `send_record`, `SendEnd`,
`SendGo`, all through `Transmit`), per outcome of `wait_line()` (`Advance`,
`Ignore`, `Timeout`), and for the ways out (`RejectImage`, `GiveUp`,
`Interrupt`).  One action per record handler of the loader, each with its
branches as disjuncts in the order of the code.  The board may also be in the ROM
or in the program, where other answers come (`OtherReads`), memory changes
(`ProgramStores`) and the program may come back (`ProgramReturns`).

- A line is a record.  *bad* is any line the loader answers with some `N`.
  `ragged` holds when bytes of a cut line wait in front of the next command.
- A record has one cell, which stands for up to 32 bytes.
- A CRC is the data it was computed over: collisions of the CRC-16 are outside of
  the model, so what is proved is proved of streams and not of 16 bits.
- A jump carries no check sum in the code, and `CorruptCommand` may change its
  address unnoticed; addresses from 0x800000 on are negative to the loader, whose
  comparison lets them pass, and -1 stands for them.  An acknowledgement carries none either, and `CorruptReply`
  may turn one into another.
- `ReadBackFails` is the path where a store does not take: the header has been
  folded into `stream_crc`, the data has not, and the sequence number stays.
- A signal ends the host anywhere, also in the middle of a command it sends: part of
  the command may then stay on the line (`ragged`).
- The bootstrap is one step, with its failures: the echo check of the ROM stage
  belongs to 1.5.
- `alone` is history: whether the line was empty when a `-2` run attached.  Properties
  of what the host concludes from an answer are stated of such runs, and of all that
  bootstrap (section 5).

### 2.2 Relay

A commit is the set of commits it contains, so *ancestor* is inclusion, a
fast-forward grows a set and a merge is a union with a new number.  A script is a
sequence of steps, one per exchange with another repository; `at` holds its next
step, and `Stop` ends it between any two.  `git merge` may conflict, and then
conflicts again for the same two commits.  The merge goes into the branch
`head` names, not into the branch the script means.  The tag of a release is left
out.  A branch that is rebased is a feat branch again until its worker signals it
once more; `RelayQueue` fails on it meanwhile.

### 2.3 Console and Monitor

`Monitor` is at the level of accesses to shared memory: a broker tests the flag,
compares the indices, reads the byte and moves the tail in four steps, and
`uart_isr`, which is not interrupted, may come between any two.  Both monitors
are in one module and differ where the code does (`plsw`): where the flag is
cleared, and whether leading newlines are discarded.  Echo, menu texts and the
copying of SNOBOL sources into memory are left out.

`Console` is the promise: a queue of bytes, a key, and an application that asks.
The refinement mapping reads the queue out of ring, head and tail.

### 2.4 LispControl

The C stack of the evaluator is a sequence of frames, one per function that waits
for a value, and a program is chosen form by form as it is evaluated: a run of TLC
covers every program up to its bound.  A form that does nothing to control is an
atom.  The two stacks, the throwing flag and the target are those of `eval.h`,
written and restored where the code does it.

### 2.5 LispHeap

Words are the numbers of the code (`payload * 4 + tag`), because `StraysOnlyByGc` is
about a free-list link taken for a tagged word.  `RootWords` is the
order in which the collector marks; the recursive function `gc_mark_val` goes into the
car and on with the cdr; `gc_collect` rebuilds the free list.  What it is compared with
is stated without recursion: `Reachable` and `FreeCells` are the least sets that hold
the first words, or the first free cell, and are closed.  The evaluator above it is every
evaluator: `Operands` are the words that one C expression can get at (the type number
in the car of a closure is none, as `car` refuses what is no cons), and any of
them may be stored, consed, protected or made the environment.  A call finds the
words that the last one left.

### 2.6 LispText

A string is the packed word of its cell, and next to it the history of where it
began and which text it was to have.  The string pool is an array of bytes that a
restart does not clear; the name pool is the sequence of its names, because names
are only ever appended and compared whole, with `name_pool_next` next to it.  `BitOr` is
the `|` by which a word is packed, as a recursive function; `MCLispText` compares it
with the bitwise or of the community modules.  `Decimal` writes a number the way
`gensym` does.  One action per primitive that makes a
string or a symbol (`make_string` through `MakeText`, `string_append`,
`substring`, `string_to_symbol`, `symbol_to_string`, `gensym`) and one for the
restart.

### 2.7 LispRepl

The line buffer keeps what earlier lines left.  `Key` is one pass through the loop of
`read_line`; `EndLine` writes the terminating byte.  The recursion of `read_expr` and
`read_list` is a stack of frames, so that a reader that never ends is a behaviour of
the model.  A datum is a value: what `eval` makes of it is the business of the other
Lisp modules, and memory behind the buffer is taken to hold a terminating byte.
`PrintResult` keeps the datum read, not the value printed: `print_val` is the operator
by which the spellings that the user types are made, and `SpelledIsRead` is the round
trip through printer, editor and reader.  A user either types a few keys at will or
spells a datum, with wrong keys taken back.

### 2.8 LoadNGo and Terminals

`LoadNGo` has one action per character of `getline` and one per line obeyed.  `Store`
is one digit of a load record: the high nybble is written first and clears the low one.
A message is one token and its newline.  `Terminals` adds line and terminal: `Carry` loses
or changes a character, a full buffer holds its sender, and `kind` chooses the program.
With `--sync`, `Echoed` compares a character and `Respond` reads the rest of a message;
`SYNC_TIMEOUT` is taken to outlast what board and line have under way (`Quiet`), as 2
seconds at 921600 baud do.  The delays of `te-rs` only slow it down and are left out.

### 2.9 EchoFifo and UartEcho

`UartEcho` has one action per access of `main` to a shared variable, one for the branch,
and one for the interrupt service, which is not interrupted.  A byte is the number of
its arrival.  The interrupt is pending while the UART holds a byte, and RTS holds the
sender while it does; both are what `uartio.h` and the board give, and external.
`EchoFifo` is a queue by two counters.

## 3. Runs

| Run | Instance | Shows |
| --- | --- | --- |
| `TE2_sessions` | images of one and two records, sequence numbers modulo 2, 1 line fault, 1 failed store, 3 runs of the host, late answers | with answers that come late, sequence numbers that wrap and a loader that outlives the host, the terminal is entered and a program started only over the right image |
| `TE2_live` | five images, two of them rejected; 2 line faults, 5 attempts, 2 runs; programs return | every run ends; two faults do not prevent verification; no second jump; retries leave no trace |
| `Relay_live` | 2 workers with one topic each, 1 conflict, 1 stop, 2 releases, scripts that take turns | `dev` of the bare repository only grows; a release that gets to its end leaves `main` of GitHub inside of `dev`; unless a script is cut short, what scripts report is on GitHub and signalled work arrives |
| `Relay_stops` | 1 worker, 1 topic, 1 stop, 1 rebase, 2 releases, 1 mirror update, overlapping scripts | no reaped branch is lost |
| `Monitor_console` | ring of 3, 5 byte values, 6 bytes typed, both monitors | `Monitor` implements `Console`; the key brings the menu back; bytes are taken |
| `LispControl_unwind` | 7 forms, 2 tags, stacks of depth 2 | a throw lands, no after thunk is skipped, the prompt is clean |
| `LispControl_twice` | the same | *violated*: section 5 |
| `LispHeap_gc` | 3 cells, 1 root, 2 stack words, 3 writes | nothing live is freed; out of memory means full; no collection of the allocator follows a link |
| `LispText_pools` | pool of 11 bytes with 3-bit offsets, 5 symbols in 12 bytes, 3 strings, 2 sessions | strings in reach keep their text; a name is one symbol; gensym is unique |
| `LispRepl_lines` | line of 28, 5 free keys of 11, or one of the spellings of `MCLispRepl` with one typo | the editor agrees with the text; the reader stays in the line; what is printed is read back; regular lines end |
| `Terminals_upload` | 6 files, 3 terminals, lines of 7, bytes of two binary digits, 1 fault each way, 1 key typed | what completed is stored; what is rejected is the last; uploads end; only `te-rs` without `--sync` can block |
| `UartEcho_ring` | ring of 4, 14 bytes | `UartEcho` implements `EchoFifo`; every byte is written back |

### 3.1 Why the bounds are enough

- **TE2.** A duplicate needs a record and its predecessor; two records, two cells
  and two values are the least in which one record can be stored, lost and
  replaced, and `Twice` writes one cell twice.  A third run of the host meets a
  loader that a first one used and a second one left.  In `TE2_sessions`
  sequence numbers are taken modulo 2, so that they wrap in a two-record image,
  as they do in the code from 65536 records on (`-n 1`), and a timeout may come
  while an answer is on its way.  In `TE2_live` it may not, because a count of faults that includes late answers has
  no bound; five attempts are the default of `-r` and one more than twice two
  faults.
- **Relay.** One stop reaches every half-done script, and with two releases the next
  release or relay takes up what it left.  `Relay_live` starts from repositories without
  `dev`, `Relay_stops` from both kinds; its one topic, rebased, is on both sides of a
  release that an overlapping relay meets.  Two topics of two workers
  are the least for a conflict, and two releases for one to meet the `dev` of the
  one before.  Conflicts, rebases, stops, releases and mirror updates are
  bounded; commits are bounded by them.
- **Monitor.** A ring of 3 holds 2 bytes; six typed bytes fill it, overflow it,
  wrap it and leave one for the key.  The code's ring wraps because its index is a
  byte: `After` wraps at `RingSize` the same way.
- **LispControl.** Depth 2 reaches both overflow tests with seven forms, and
  seven forms hold a throw out of an after thunk of a throw.
- **LispHeap.** Three cells are the global environment and two more: enough for a
  list, a cell freed and taken again, and a full heap.  `MaxWrites` bounds
  allocations and changes, not collections.
- **LispText.** Eleven bytes exceed the reach of a three-bit offset, as 8192 exceed that
  of 11 bits; three strings are one made of two others, and a second session meets the
  bytes of a first.  The table is filled, by number and by bytes.
- **LispRepl.** Five free keys hold an escaped quote, a quote taken back, and a comment in
  a list.  The spellings hold each datum of up to two atoms as it is printed, nested
  and dotted, with numbers at both ends of 22 bits, and each other syntax of the
  reader; one fills the line.  Longer names and strings than the pieces of 63 and 119
  are not spelled.
- **Terminals.** Six files: sound ones, a bad digit, an odd nybble, a line too long,
  carriage returns, and lines after the program was started.  One fault each way
  reaches a character lost, changed, or taken for a line end.  `LinesFit` says that a
  line, and what was typed before it, fits the buffers between; those of the host alone
  have thousands of characters.
- **UartEcho.** Fourteen bytes go three times round a ring of four.  The proofs are for
  every ring.

Type invariants are checked together with the invariant they support (`RefsOK`,
`StacksOK`, `HeapOK`, `TablesOK`, `LineOK`, `FlowOK`, `Ordered`); those of `TE2` are
proved for every instance, and those of `Monitor` are checked alone and proved.

### 3.2 Deadlock

All runs switch the deadlock test off, but `UartEcho_ring`, whose loop never stops: a
bounded number of runs, typed keys, releases, forms or writes ends every model, and
the systems end as well (the host exits, a script ends, the monitor halts, the
interpreter panics).  That an upload does not end in a deadlock of terminal and board is
a property of its own, in `FlowOK`.

## 4. Fairness

- **`TE2!FairSpec`**: the host goes on between two lines of `main()`, and the CPU
  of the board runs.  A program that reads its input answers nothing `te2` waits
  for, as in `OtherReads`; one that does not read it ends in the same timeout.  The
  line, the user and a new run of the host are not fair.
- **`Relay!FairSpec`**: a script that is not stopped goes on; the coordinator
  relays each signalled branch again and again, which is the timer that
  `docs/branching-pr-strategy.md` describes (lines 97-112), strongly fair because
  scripts take turns; a worker whose branch conflicts rebases and signals it again, as
  the message asks.  Workers are not fair otherwise, and releases need not happen.
- **`Monitor!FairSpec`**: the processor takes its interrupts and executes; a
  read-eval-print loop comes back for input and a batch program ends.  That is an
  assumption on the application: the broker cannot interrupt one that computes for
  ever, and the architecture document says so.
- **`LispRepl!FairSpec`**: between the end of a line and the next prompt the processor
  waits for nobody; `eval` is taken to return.
- **`Terminals!FairSpec`**: board, display and upload go on, and a terminal that awaits
  an echo notices its deadline.  User and program owe nothing.
- **`UartEcho!FairSpec`**: the processor executes `main` and takes an interrupt that
  stays pending.  Bytes need not arrive.
- The other Lisp modules have safety properties only.

## 5. Findings and known conditions

**`LispControl_twice`** (`suites/combined-lisp/src/eval.h:535`).  A throw runs the after
thunks of all dynamic-winds, those around its catch included; these go on and run
theirs again.

The properties of the passing runs are stated with conditions where the code does
something else outside of them.  These were met while modelling.

*Uploader and scripts*

- `te2-loader.c:217-228` folds a record into its check sum before the read-back and
  leaves it there when it refuses.  The record is resent and written, then folded a
  second time, and the upload fails at its end.  `IntactUploadVerifies` is stated of
  streams without such a record.  `te2.md:66` calls a resent record idempotent.
- `te2-loader.c:200` acknowledges a record with the number just passed unwritten.  When
  a one-record image has run, changed its memory and returned, the same image sent
  again with `-2` is started without having been written.  `TerminalMeansImage` is
  checked for programs that do not return.
- `te2.c:633-634`: a `-2` run that attaches waits until its input is quiet, and `te2.c:239`
  flushes input only.  Lines that an interrupted run left on their way to the loader are
  answered when the new run has begun, and each of these answers may be taken for the
  answer to a later command.  `TerminalMeansImage` and `BelievedIsFinalized` are stated of
  runs that find the line empty, or bootstrap (`alone`).
- `dg-release:69`: when a release stops after it has pushed `main` to GitHub, the next one
  finds `dev` inside of `main`, says that there is nothing to release, and `dev` stays behind
  until another commit is relayed.  `MainIsInDev` speaks of releases that get to their
  end, and of the time before any stop.
- `dg-release:109` moves `dev` of the bare repository to `main` without a look at it, which
  its comment (104-106) calls always safe.  Nothing keeps a `dg-relay` out of the one
  checkout meanwhile, and what it has pushed to `dev` drops out of the bare repository.
  `BareDevGrows` is stated of scripts that take turns, `ReapedIsKept` of all.
- `dg-relay:98`: after a merge whose push failed, the next run finds the branch in the
  local `dev`, reports that there is nothing to do and pushes nothing.
  `ReportedIsPublished` and `SignalledIsRelayed` speak of the time before a script is cut
  short.
- `dg-relay:91`: a script that stops between making `dev` and pushing it for the first
  time leaves a state in which `git switch -c dev` fails from then on.

*Lisp*

- `gc.h:67`: the stack scan of an explicit `(gc)` accepts a stale word for a free cell,
  whose cdr is a bare link.  The last link, -1, reads as a word of index -1, and a mark is
  written in front of `heap_mark`.  `LispHeap` stops there; `StraysOnlyByGc` says that
  the collections of the allocator, which come when the free list is empty, do not.
- `gc.h:60`: marking recurses on the car without a bound; the model leaves the
  collector's own frames out.
- `read.h:244`: a `)` or `.` at top level is not consumed, and the loop over the forms
  of the line never ends.  `LinesEnd` is stated of lines whose parentheses match.
- `read.h:159`: a line that ends in `"\` makes the reader step over its end into what
  older lines left.  `LineOK` excepts it.
- `read.h:230`: `(a #_b)` reads as `(a nil)`: the datum comment returns the next datum,
  and there is none.
- `io.h:66`, `io.h:90`: the editor takes an escaped quote for the end of a string.  A
  list that holds a string with one escaped quote is not complete for it, and Enter
  does not end the line.  The spellings of `MCLispRepl`, of which `SpelledIsRead`
  speaks, have escaped quotes in pairs.
- `string.h:48`: offsets are packed into 11 bits and the pool has 8192 bytes.  A string
  that begins past byte 2047 gets the text of another.  `TextIsKept` is stated of what 11
  bits can say.
- `io.h:82`: Enter inside of parentheses is a space, so a comment in a list of several
  lines hides the rest of it.
- A symbol of more than 63 characters or a string of more than 119 is read as two.

*Terminals*

- `main.rs:382`: after the last line nothing awaits its messages, and a `G` in it is
  obeyed before its echo was compared.  `RejectedIsLast` is stated of all lines but the
  last.
- The monitor echoes a carriage return as a newline, so `--sync` rejects every file with
  CR LF; `Whole` asks for lines without.
- `main.rs:379`: without `--sync`, `te-rs` does not read while it writes, and a file
  longer than the buffers between blocks terminal and board (`Stuck`).  It does not
  notice Ctrl-C either then.
- A line typed in part before `^R` is joined with the first line of the file; after a
  `;` that line is a comment.  `clean` asks for an upload that begins at a line's start.
- `te` compares no echo: of a faulty line it promises nothing.
- `--sync` writes a whole line before it compares the echo.  A load line can lose and
  change characters so that the monitor reads a `G` line: a program then runs before the
  echo is found wrong.  So `UploadIsStored` speaks of a program that runs only where the
  line to the board is sound (`faults.down = 0`), or where all before the `G` line that
  ends the file has been echoed (`OnlyGoAwaited`).
- With faults both ways, what the line did to the echo can hide what it did to the file,
  and a message can pass for an echo, so that `--sync` writes on while answers pile up
  (`Stuck`).  `UploadIsStored` and `OnlyUnsyncedSticks` therefore ask for one sound
  direction; which of the two it is, they leave open.

## 6. Proofs

Eight modules hold theorems; `PROJECT.json` lists those a reader should know.  Runs
of section 3 check most of the properties below on small instances; the others are the
inductive invariants they rest on, and `OwnJumpOntoImage`.

| Module | Proved of every value of the constants | Further assumptions |
| --- | --- | --- |
| `TE2_proofs` | `TypeOK`, `ImageInv`, `FinalizedIsImage` | none |
| | `JumpOntoImage` | no store fails, programs do not return |
| | `IntactUploadVerifies`, `OneJumpPerRun` | none |
| | `SessionInv`, `BelievedIsFinalized`, `TerminalMeansImage`, `OwnJumpOntoImage` | programs do not return |
| `Relay_proofs` | `TypeOK`, `ReapedIsKept` | none |
| | `BareDevGrows`, `RefsOK`, `ReportedIsPublished` | scripts take turns, no mirror update |
| | `PublishInv`, until a script is cut short | the same |
| `Monitor_proofs` | `RingInv`, `TypeOK`, `ImplementsConsole` | none |
| `LispControl_proofs` | `ControlInv`, `StacksOK`, `ThrowLands`, `PromptIsClean`, `AfterIsRun` | none |
| `LispHeap_proofs` | `HeapInv`, `HeapOK`, `MarkedCorrect`, `OomIsFull`, `StraysOnlyByGc` | none |
| `LispText_proofs` | `TextInv`, `TablesOK`, `TextIsKept`, `GensymIsUnique` | none |
| `Terminals_proofs` | `TypeOK`, `OnlyLineIsStored`, `IntactCompletes`, `UploadIsStored`, `RejectedIsLast`, `FlowOK` | none |
| `UartEcho_proofs` | `TypeOK`, `RingIsFifo`, `MainHolds`, `Ordered`, `IsFifo` | none |

*None* means: the named assumptions on the constants of the module, and nothing else.
Those are types and least sizes.  `LoadNGoAssumption` also says that commands, messages and
hex digits are different characters, and `LinesFit` that a line of a file, with what was
typed before it, fits the buffer of the board.  `LispTextAssumption` also says that digits, `_g`, `nil`
and `t` are among the characters, that no text holds the terminating byte, and that the
table has room for its first two names.

The further assumptions are conditions under which the code does what its documents say.
A program that returns may have changed memory behind a finalized loader, and a store
that failed spoils the check sum (section 5).  A mirror update resets the bare repository
from GitHub and may take commits from `dev`; two scripts in one checkout mix their steps.
Where a property speaks of the time before any script is cut short, the reason is that a
relay that stopped after its merge is taken for one that has published (section 5).
Runs check the same properties under the same conditions, and `ReapedIsKept`, which has
none, with stops, overlap and mirror updates.

### 6.1 Uploader

**Loader and memory.**  `FinalizedIsImage` is not inductive: nothing in it says why a final
check sum that matches should be one of an image.  `ImageInv` adds it, in four
parts.

- `EndsAreImages`: every E command on the line carries the check sum of an image
  that some run was asked for.  The line may garble it, but only to something the
  loader refuses; `SendEnd` is the only step that adds one.
- `MemoryFollowsStream`: each folded record is still in memory, unless a later one
  was folded over the same address.  `Store` and `ReadBackFails` extend stream and
  memory together; a bootstrap empties the stream; nothing else writes memory
  while the loader has the processor.
- `FinalizedIsStream`: a finalized loader has the stream of an image.  `end_record`
  takes it from `EndsAreImages`; a store resets the flag; a failed read-back keeps
  the flag and spoils the stream.
- A stream is spoilt only by a failed store.

From a stream equal to an image's, the second part gives the memory
(`StreamHolds`).  `JumpOntoImage` then needs no spoilt stream, hence no failed store.  The proof of each part rests on `LoaderSteps`, which sorts the
steps of the specification into the few that matter to the loader, and on
`FoldedCell`, which gives `Store` and `ReadBackFails` one description.

**What the host may conclude.**  An acknowledgement has no check sum, so a host may believe one
that was never given.  `SessionInv` says what order alone still gives it.  No record is
behind the E command, and no command of a later phase is on the line (`Early`, `Ends`,
`Gos`).  An F on its way to the host, or believed, means that the loader has the stream of
the image and no record is on its way that could change it (`Replies`, `Believed`); a J
means that the board has jumped.  The line may lose and garble commands but does not
change their order (`Thinned`), which is what the proof needs of it.  Programs that
return are excluded because a returned program may have stored over the image that F
speaks of.

`IntactUploadVerifies` adds `RecordInv` (a D command carries a record of the image in its
place) and `BootInv` (what was folded is the image up to `expected_seq`).  `OneJumpPerRun`
follows from `JumpInv`: jumps made, G commands on the line and the one that may still be
sent are one account, credited with one by each run.

### 6.2 Relay

`ReapedIsKept` needs two facts that it does not mention: a branch has a commit of its own,
or else a worker could reap one against an empty `dev` (`TipsAreNew`), and every commit of
the shared repositories is known to the relay checkout (`KnownInv`), because the relay
checkout is where each of them came from.  The dev and main of that checkout only grow
(`LocalGrows`), so what was once on them stays, whatever happens to the others.

`PublishInv` says, for scripts one at a time, how bare repository, GitHub and checkout
stand to each other, with an exception for each step between which they differ
(`BareRefs`, `GithubRefs`, `RelayRefs`), and what a script has established when it has
got that far (`RelayStage`, `ReleaseStage`).  `BareDevGrows` needs only `ForwardInv`, the part
about the release, and so also holds when scripts stop.  `RefsOK` has two halves: between
scripts none of which was cut short it follows from `PublishInv`; at the end of a release
it needs only `TogetherInv`, what the last three steps of a release have made equal.

### 6.3 Monitor and echo

**`Monitor_proofs`.**  `TypeOK` is not inductive: a broker moves the tail two steps after it
found the ring filled.  `BrokerHolds` says that the ring is still filled then, and that
what the broker took is what the tail is at; the interrupt only adds bytes, and to another
place than the one being read.  In the refinement `uart_isr` is the queue's arrival or its
attention key; the step that moves the tail is its delivery; the other steps of a broker
stutter.  The ring is reduced to a sequence by `UsedOf`, `SlotOf` and `WaitingOf`, without a
remainder, so that a step is two cases, with and without the wrap.

**`UartEcho_proofs`.**  `RingIsFifo` alone is not inductive: `Advance` needs to know that the
ring is not empty, which `main` saw three accesses ago, and `Put` that it holds the byte
after the last one written.  `MainHolds` says both, and survives the interrupt because the
service only adds bytes and restores what `main` was using.  For the refinement, `Arrive` is
the queue's, `Put` is its `Echo`, and all others stutter.

### 6.4 Terminals

`OnlyLineIsStored` is about one step, but about any line: `AfterDigits` says what a load
record has done to memory after n of its digits, and a byte is changed only by a digit
the record gives for it.  The other properties compare what two parties that never
see each other know, so the invariant follows each character of the file from its writing to
its echo.

- `DownInv`, when the way to the board is sound: the characters after some place r of the
  file are those under way, and the board stands at r.  `BoardAt(s, r)` says what that
  means: the line it gathers began at s, and memory holds the bytes of the lines before s
  (`ImageBefore`).  A load record then stores exactly the bytes the line adds
  (`LoadStores`).
- `UpInv`, when the way back is sound and the terminal reads echoes: one of three.  Board
  and terminal are in step, and what is on its way back is the rest of what the board has
  taken; or the board has taken all and sent a message; or an echo already on its way
  differs from the file, and the terminal will find that before it accepts more.  So a
  fault on the way down cannot be outrun by later echoes that look right.
- `DoneInv`: a completed synchronised upload has left the board at the end of the file, and
  nothing under way.
- `GoInv`: the last line, if it is the one that starts a program, is written only after
  everything before it was echoed, and a line garbled from it is too short to store a byte.
- `CountInv`: each character is counted once, as under way, as echo, or as accepted.
- `IntactInv`: over an intact line nothing fails.

`UploadIsStored` takes its two halves from `DownInv` and from `UpInv` with `DoneInv` and
`GoInv`; `RejectedIsLast` needs that a rejected line's message is in the way of the next
line's echo; `FlowOK` needs `CountInv`, since a terminal that has written no more than
one line ahead of the echoes cannot fill the buffers (`LinesFit`).

### 6.5 Lisp

**`LispControl_proofs`.**  The arrays of `eval.h` and the C stack have to tell the same story.
`Shape` has the types.  `CatchesInOrder`: the catches on the C stack saved the depths 0, 1,
..., each once.  `ThrowsHaveCatches`: a throw that runs after thunks, or unwinds, has below it
the catch it aims at.  `WindsAreOpen`: each used slot of the wind stack was pushed by a
`dynamic-wind` that still waits.  A throw out of an after thunk aims at a catch that
is still there because each frame that unwinds restores what it saved, and those are in
order.  For `AfterIsRun`, `OwedInv` follows the after thunks that were not yet applied:
each is in the slot its frame saved, and when a throw has begun to unwind none is left.

**`LispHeap_proofs`.**  The collector is proved to mark exactly what its roots reach
(`MarkedCorrect`): the marks are closed, so they hold `Reachable`, and a closed set that holds
the roots holds every mark.  That the recursive `gc_mark_val` has a value at all is proved on the
number of cells not yet marked, since a call marks one before it recurses.  `HeapInv`
says that the free list ascends through cells in use by nobody, that a cell in use holds no
bare link, and that what the program can reach is in use.  An evaluator step keeps it
because what the program can get at afterwards it could get at before (`Grasp`), a collection
because it marks from more words than the program holds: the scan may keep too much,
never too little.  `OomIsFull` is the other direction: when nothing was freed, every cell
is reached from a root or a scanned word.

**`LispText_proofs`.**  `TextIsKept` needs, for each string, that its bytes and the byte behind
them are below `str_pool_next`, and that a string outside of what 11 bits can say puts the
counter past them (`StringOK`): then no later string is representable, and a text appended
from a misread one is not claimed to be anything.  `PackFits` shows that the bitwise or of
offset and overflowing length cannot point behind the text.  `string_to_symbol` reads up to a
terminating byte that may be another string's; `TerminatedEnds` shows that there is one.  For
`GensymIsUnique`, a symbol that was given has the name of a number below the counter
(`GivenOK`), and two numbers have two numerals (`DecimalDiffers`).

**Recursive functions.**  The library's induction theorems have an operator as a parameter,
which the provers cannot instantiate.  The recursive functions of `LispHeap`, `LispText` and
`LoadNGo` are proved to satisfy their defining equation by other means: approximations up to n exist
and agree, or else there would be a least n for which they do not (`LeastNat`, from the
well-foundedness of the natural numbers).  `Recursion` of `LispText_proofs` states it once, for
a value that depends on that of a smaller number.

### 6.6 Model-checked only

- Liveness, which is out of the prover's reach: `RunsEnd`, `FewFaultsVerify`,
  `SignalledIsRelayed`, `AttentionReturns`, `InputIsTaken`, `LinesEnd`, `UploadEnds`,
  `EveryByteIsEchoed`.
- `LispRepl`: `LineOK`, `EditorAgrees`, `SpelledIsRead`.  Printer and reader are RECURSIVE
  operators on nested data, and a module that declares such operators is out of the
  prover's reach.
- `JumpOntoImage` with failed stores, which `TE2_sessions` checks with one.  Proved is
  `OwnJumpOntoImage`, about jumps during a run that is `alone` and has not given up: they
  find its own image in memory, whatever stores have failed.  A run that takes a late F of
  another for its own may send G over a store that failed.

## 7. Plan

Every component with a state of its own is modelled, and each but the line editor, reader
and printer of the Lisp suite has theorems.  What is left:
`EditorAgrees` and the bounds in `LineOK`, which are about `Key` and `EndLine` only and can
be proved once the editor is in a module apart from the recursive reader.

## 8. Not modelled

- Collisions of the CRC-16, baud rates, modem signals other than *may send*.
- The contents of `forth.s` and `apl.s` beyond the broker: output of compilers.
- Evaluation of Lisp other than control and the primitives of `LispText`; primitives that
  only read a string, and the wording of `format`.
- `compile.h` and `snapshot.h`: not part of the combined suite's build.  The preludes are
  Lisp text.
- `memtest.c` and the other demonstrations: sequential programs without input.
- Options, terminal attributes and delays of `te` and `te-rs`, and the errors of the
  operating system after which an upload ends as failed (`main.rs:249-259`, `296-307`,
  `374-380`, `453-457`, `te.c:107-109`).
- Replies that turn into another kind of reply than an acknowledgement (`CorruptReply`).
- The commands of `dg-release:56-67` one by one: `ReleaseSwitch` is one step with every
  end it may have.  A conflict at `dg-release:82`, which takes a `main` with
  changes that `dev` lacks, and so overlapping scripts, leaves the refs as `Stop` does; the
  unfinished merge it leaves in the checkout is not modelled.
- A primitive as the thunk of `catch` or `dynamic-wind` (`eval.h:856-858`), which does
  what the form of the same name does.
- Stores to memory by a program that `L` and `G` have started.
- Permissions, users, installs and builds.

## 9. Running

    tlc -config TE2_live.cfg MCTE2      # modules and configurations: PROJECT.json
    tlapm TE2_proofs.tla                # and Relay_proofs, Monitor_proofs, LispControl_proofs,
                                        # LispHeap_proofs, LispText_proofs, Terminals_proofs,
                                        # UartEcho_proofs; each takes minutes at most
