# A TLA+ model of the ARMv7 emulator

The program (`Emul-Arm/`) is the front end of an emulator for ARMv7 Thumb code: an
interpreter that reads commands from the terminal or from a script, loads the sections of
an ELF file into an emulated memory, displays, changes and asserts memory and registers,
keeps breakpoints and disassembles. It is one process with one thread; `run`, `step` and
`debug` only print a message. What is hard in it is therefore not concurrency but state
that survives from one command to the next: pointers into blocks that are freed and
reallocated, slots that may or may not be filled, a memory that grows when it is read,
effects that stay when a line fails in the middle, and the exit status that the test
scripts rely on.

All paths below are relative to `Emul-Arm/`.

## Inventory

| Component | State | Operations | Modules |
|---|---|---|---|
| Breakpoints (`src/breakpoint.c`, `_breakcmd_*` of `src/commandes.c`, `breakcmd` of `src/inter.c`) | `inter->breaklist`, a sorted linked list | add, del, del all, list | `BreakSet`, `BreakList`, `BreakListProofs` |
| Emulated memory (`src/memory.c`, `_loadcmd`, `_set_mem_*`, `_assert_cmd`) | `inter->memory`, five slots of segments | layout, growth, set, assert, display | `ByteStore`, `Memory`, `MemoryProofs`, `StoreProofs` |
| Interpreter and main loop (`src/emulARM.c`, `src/inter.c`) | the line and its tokens, the mode, the return code | acquire, dispatch, one handler per command | `Shell`, `ShellProofs` |
| Registers and flags (`src/registre.c`) | `inter->fulltable` | look up, write, invert | `Shell`, `ShellProofs` |
| ELF loader (`src/elf.c`, `section.c`, `syms.c`, `_loadcmd`) | the file, the section and symbol tables, the segments during one `load` | open, extract, build, release | `Loader`, `LoaderProofs`, `LoaderPlaceProofs`; its effect on addresses in `Memory` |
| Disassembler (`src/desasm.c`, `disasmcmd`) | the two dictionaries, whose names it overwrites; the operands of the current instruction | find `.text`, walk, search, rename, print, release | `Disasm`, `DisasmProofs`; its command line in `Shell` |
| Immediates and shifts (`src/format_op.c`) | none | pure functions on 32-bit words | `Operands`, with lemmas in `DisasmProofs` |
| Dictionaries (`dicos/dicos_champs/`) | data: 27 and 26 rows | | `Dico` |
| Draft execution loop (`test/test_run_loop/`), older copies (`test/`), test driver (`testing/`) | | | not modelled: not part of the program |

How they interact: `main` calls `acquire_line`, then `execute_cmd`, which calls one handler;
a handler parses its tokens one at a time with `get_next_token` and calls the component,
sometimes before it has seen the end of the line (`set`). `load` releases the former
memory and builds a new one; `set mem` and `assert` look at its first three slots;
`disasm` and `disp` look at all of them. Nothing is shared otherwise: breakpoints,
registers and memory never read one another. The value that a handler returns is the only
thing `main` sees.

What makes each component correct:

* breakpoints: the list is a faithful set (no duplicate, nothing lost, the return code
  tells what happened), no link and no cursor leads to a freed node, every loop ends;
* memory: segments do not overlap, the commands find the sections where they look for
  them, memory is a map from addresses to bytes for whoever uses `set` and `assert`;
* interpreter: the exit status of a script tells whether a line of it failed, a line has
  the effects of what precedes its first mistake and no other, a script ends;
* loader: each resource is released once, and none while the program still points to it; a
  complete file is loaded section by section, and only the memory is left afterwards;
* disassembler: every instruction of the range is shown once, with the name and the operands
  that its code encodes; operands are released once; the walk stays in `.text` and ends;
* immediates: the functions compute what the bits of the code encode.

`PROJECT.json` lists the hazards line by line, with the property that covers each, or the
reason why none does.

## The modules

### Breakpoints: `BreakSet`, `BreakList`, `BreakListProofs`

`BreakSet` is what the command promises: a set of addresses, a request with its addresses
still to serve, and a return code. `BreakList` is the code: `head` is `inter->breaklist`,
`stop_adr` and `nxt` are the fields of every cell that `calloc` may hand out, `live` the
cells that are allocated, `l` and `p` the locals of the running function, `todo` the part of
`adresse[]` that is still to be served. A step is one iteration of a loop of the C code or
one of its exits; `calloc` fails whenever it likes. A freed cell keeps its fields until it
is handed out again, so that a use after free would read plausible garbage, as in C.

`ImplementsBreakSet` is the refinement: the abstract set is the set of addresses of the
allocated nodes, and `break del all` takes effect when its loop is entered. The code
reports a failed allocation only if the list is empty, and `BreakSet!Lose` says so.

### Memory: `ByteStore`, `Memory`, `MemoryProofs`, `StoreProofs`

`Memory` holds the five slots (`mem`), the locals of `_loadcmd` that survive an iteration
(`nseg`, `start`, and `taille`, which is used without being set when a section is absent),
and the last command with its return code. A segment is its first address, its maximal
size and its content; a segment that `_loadcmd` creates for an absent section has no
content (a *ghost*). `Hit`, `Grown`, `InBounds` are the window of `get_byte_seg`, the loop
over `inc_segment` and the test for a real byte. Sums of addresses are taken modulo `W`.

Undefined behaviour is a choice of outcome: writing the cell after the end of a block
loses the value and lets the program die later (`ub`, `HeapBreaks`), reading it or reading
a released block gives any byte, using a null or ghost slot ends the process (`Dies`).

`ByteStore` is what a user relies on: a partial map from addresses to bytes, in which `set`
changes the addressed bytes only, `assert` changes none and answers from the stored bytes,
and bytes may be gained (always zero) but never lost or changed otherwise. It says nothing
of an address that holds no byte. Of `assert byte` it promises that an OK is never wrong and that
a stored value of the lower half is never refused, and leaves open whether one of the upper half is
accepted. The code never accepts one: it compares a `signed char` with an `unsigned int`. That is no part
of the promise but a finding: `RefusalTrue` says what the refusal prints, and TLC finds it violated.

The display (`disp mem`) changes nothing, so it is an operator, `Display`, and not an action: which
bytes `affiche_segment` hands to `affiche_section`, and under which address. It holds in every
reachable memory what `DisplayFromStart` says of it.

### Loader: `Loader`, `LoaderProofs`, `LoaderPlaceProofs`

`Memory` knows of a load only where its segments are. `Loader` is the other half: the same
`_loadcmd` as a protocol over blocks. `live` counts the blocks of each kind that are allocated;
`symtab` and `scntab` are the two locals of `_loadcmd`, which may dangle or never have been set;
`slots` says which section each slot is for and which one its content comes from. A step is one
call of `_loadcmd` that can fail; each has one branch for each early return of `elf.c`, with the
blocks that return leaves behind (`Extract32`, `Extract64`, `LoadScnTab`, `LoadSymTab`).

A file is the answers that its reads give: its kind, its class, whether its tables can be read,
and its headers with the names that are matched. It keeps the same answers for the whole load.
Names are compared over the length of the one looked for, so `Starts` says which is a prefix of
which. Releasing a dangling table, or one never set, sets `ub`, after which the process may die at
any step. `before` and `loaded` are history.

The two modules meet in the slots: what `LoadsWhatIsThere` says of a complete file is `FilledFirst`
of `Memory` with the names of the sections added.

### Disassembler: `Operands`, `Dico`, `Disasm`, `DisasmProofs`

`Dico` holds the rows of the two dictionaries as they are in memory after loading, misprints
and overwritten ends of fields included. `Operands` is what `get_operande` computes: a word is
the set of its bits, so that masks are intersections and concatenation is union. `Debut` is the
value that `sscanf` leaves when a field has a single number. `Number` is the value of the low bits of a
word, read from the highest to the lowest (`Reading`): each bit doubles what was read, so that no power
of 2 is needed, which the provers know nothing of.

`Disasm` is `disasmcmd`, `_desasm_cmd` and the loop of `lecture_txt`, one step per turn: the action
that fires is the way the turn goes (`Hidden`, `Show`, `StopAtZero`, `NoRow`, `Unknown`, ...). `names` is
the mnemonic of every row, which `cond` and `IT` overwrite for all the commands to come; `inst` is
the last row found, which a failed search leaves in place; `op` are the operands, allocated
only for the instructions shown and released after all of them. Bytes beyond the end are any of `Beyond`. `lines` is history: what was printed. `WidthAssumption` says how many bits
the operands of a dictionary may have, by type; TLC evaluates it on the rows of the two real ones.

### Interpreter and registers: `Shell`, `ShellProofs`

A line is a sequence of tokens; a token is a hexadecimal or decimal number, the name of a
register as the table spells it or in another case (`is_reg` ignores case and
`trouve_registre` does not), or a word. `pc` is the place in the main loop, or in one of the
two loops of `setcmd`, which are the only ones that change state before their line is
entirely read; all the other handlers are one step. Memory, breakpoints and disassembler
answer what they like among OK, an error and a fault. `line`, `before` and `failed` are
history: the whole line, the registers when it was read, and whether a line has failed.

`acquire_line` has three actions: a line (`AcquireLine`), nothing at the end of the input (`AcquireNothing`), and,
for a script, nothing because the read failed (`AcquireError`), as it does when the script is a directory.
The last one sets `ferror` and not `eof`, which is all that `main` tests, so the loop comes back to it, and it may fail
for ever. What `main` says of the end of the input and of errors in a script is `EndOfInputEnds`, which is violated;
`ScriptsEnd` is about the scripts whose reads do not fail for ever, and says so in its statement
(`<>[][~AcquireError]_vars`) and not by fairness.

A negative decimal is of no type for `get_type`, so `set reg` refuses it, although the help gives the values as
signed. That disagreement is a part of `GrammarAccepted`, violated; `SetMeaning` is about lines without a negative value, and
takes no side.

`inverser_registre_etat` is announced as an inversion (`registre.c:168`), but its two tests are successive: a flag
that is 1 is reset and set again, so that no flag is ever cleared. `Inverted` is what the code does; no run is about it.

### Induction: `Induction`

Lemmas on natural numbers that the proofs share: a set of naturals has a least element (a greatest one, if
it is bounded), a set closed under successor has them all, and a function that is defined step by step
exists (`StepByStep`).

## What the runs check

| Run | Module, configuration | Shows |
|---|---|---|
| `break_list` | `MCBreakList` | list invariants at every step, no leak, refinement of `BreakSet`, termination of the commands |
| `memory` | `MCMemory` | layout, slots, survival, display of a range, refinement of `ByteStore` |
| `memory_overflow` | `MCMemory`, `MCMemoryOverflow.cfg` | *violated*: `get_byte_seg` gives the cell after the end of a block |
| `byte_refused` | `MCMemory`, `MCMemoryRefusal.cfg` | *violated*: a byte of the upper half is refused by an assert of its own value |
| `display_range` | `MCMemory`, `MCMemoryDisplay.cfg` | *violated*: a range that begins inside a segment shows the bytes of its beginning |
| `loader` | `MCLoader` | resources of two loads in a session, where the sections go, what is left at the end |
| `disasm` | `MCDisasm` | names and operands of the lines printed, completeness of the listing, releases, end of the walk |
| `disasm_partial` | `MCDisasm`, `MCDisasmPartial.cfg` | *violated*: a range that stops before the end of `.text` releases operands twice |
| `shell` | `MCShell` | exit status, meaning of `set reg` and `assert reg`, scripts that can be read end |
| `documented_set` | `MCShell`, `MCShellDocumented.cfg` | *violated*: forms of `set` that `help` prints are refused |
| `expected_failures` | `MCShell`, `MCShellExpected.cfg` | *violated*: lines that test scripts expect to fail succeed |
| `end_of_input` | `MCShell`, `MCShellEndOfInput.cfg` | *violated*: the loop spins when the terminal is closed, or the script cannot be read |

Each *violated* run checks a statement of the repository itself, quoted in
`PROJECT.json` under `findings`; the other runs find no error.

What `ArgsAsEncoded` says of the operands printed, and what it does not:

* covered in full: registers, immediates (shifted by 2 or not), lists of registers, the condition of `IT`, the offsets
  of `B.T1` and `B.T2`, the kind and amount of `LSL`, `LSR`, `ASR` and `RRX`;
* of a rotation by an amount, the amount only. Its name is printed as `RRX`, because `TYPE_ENUM` is indexed by the bits of
  the type (`desasm.c:315`), although `decodeIMMshift` decodes `SRType_ROR` (`format_op.c:78`);
* of the offset of `BL` and `B.T4`, the 22 low bits only. The bits from 22 on and the sign are what `desasm.c:326-342` makes
  of the bits 23, 13 and 11 of the code: the sign, taken from bit 23, is put in bit 24, but `signextend` is told that there
  are 24 bits and extends from bit 23, so a branch may be printed with a sign that is not its own. `Offset` models that; no
  property states what it should be;
* nothing of the expanded constants (`THEXPIMM`) and of the other fields with a single number, whose value depends on what
  the stack held: no row of the dictionaries spells them with both ends.

### Bounds

* `break_list`: three cells, three addresses, batches of two. The list can be empty, full,
  and walked past its first node; a cell is handed out, freed and handed out again; a batch
  repeats an address, or fails on its second one. Sessions are not bounded.
* `memory`: 34 addresses, pages and bytes of two values, sections of zero or three bytes,
  three commands. Every subset of the four sections can be present, the third loaded section
  is the last one or not, growth reaches the end of a window, addresses fall before, in,
  at the edge of and between the segments, values have each of their bytes zero or not.
  Three commands are a load and two accesses, which is what a growth followed by an access
  needs; a reload is reached too.
* `loader`: seventeen files, at least one for each way of an extraction to end: complete, without
  one section or all, without names, with a header, a name table or a content that cannot
  be read, with sections whose names start alike, with each kind of symbol, of 64 bits, of no class, not
  ELF, missing. Two loads, so that every file is loaded after every other one.
* `disasm`: the 53 rows of the real dictionaries; thirteen texts of up to 14 bytes: each type of operand, rows
  of one to four operands, conditional branches that change the name of one row, three `IT`, a code
  without row first, last and between, a zero, half an instruction at the end, an immediate that cannot
  be expanded. `Turns` is 2 instead of 1000, so that
  texts of fewer and of more instructions occur and both halves of the condition of the loop decide.
  Every range of even addresses around the text, one odd, and three commands: a load and two
  disassemblies, so that the second one finds the names that the first one wrote, or the text that it made grow.
* `shell`: two registers, two flags, numbers up to 7 of which those up to 3 fit a byte, one
  line for each case of each handler, three lines in a session. A pair of registers
  lets one be changed while the other must stay; three lines let two of them prepare what
  the third observes.

### Fairness

Only `CommandsReturn`, `WalkEnds`, `ScriptsEnd` and `EndOfInputEnds` use fairness. The program is a
single thread that is never blocked except when it waits for a line. `BreakList` therefore
assumes weak fairness of the steps inside a command (`Running`), and none of the arrival
of commands; `Disasm` assumes it of a turn of the walk (`WalkStep`), which waits for nothing. `Shell` assumes weak fairness of `Next`: input arrives, ends or cannot be read. Files are finite,
which `MaxLines` stands for; that reads do not fail for ever is no fairness of the program, and stands in `ScriptsEnd`. For
`EndOfInputEnds` the assumption works against the finding: the loop runs on although the process is never suspended.

### Mutants

Every property of a passing run is violated when one definition is replaced by a variant
that a plausible mistake in the code would give (`SmallerOrEqual`, `DelUnlinkDangling`,
`LoadSkippedCounted`, `GrownFresh`, `TreatPositive`, ...): they stand beside the original under
"Mistake to detect", and `PROJECT.json` pairs them.

## What is proved

TLC checks the small instances above; the theorems hold for all values of the constants.

* `BreakListProofs`: `TypeCorrect`, `ListCorrect`, `CursorsValid`, `NothingLeaks`, `Refinement`,
  from `NULL` not being a cell and addresses being naturals. The inductive invariant is
  `IInv == TypeOK /\ ListInv /\ CursorInv`. `ListInv` alone is not inductive: unlinking a node is
  right only because the cursor `l` is allocated and precedes the node to delete, and
  inserting one only because everything up to `p` is smaller, which is what `CursorInv`
  says. `NoLeak` then follows without induction: were a node outside a closed set, the least
  such node could be neither the first one nor the successor of another. It quantifies over the
  sets of cells, so no definition of reachability is needed. `CommandsAdvance` is the variant of the loops:
  a step inside a command shortens the batch, enters the loop of `del` or `del all`, or leaves fewer nodes `Ahead`
  of the cursor, of which there are finitely many.
* `MemoryProofs`: `TypeCorrect`, `SegmentsNeverMeet`, `FirstSlotsFilled`, `SurvivesCorrect`, `DisplayCorrect`, from
  `WidthAssumption` and `LayoutAssumption` (the files considered fit below the stack; the code
  does not check it). `IInv` adds `LayoutInv` to the first three: while `_loadcmd` runs, the segments placed so
  far end below `start`, and `start` leaves room below the stack for the sections to come, and segments
  end below the stack afterwards. That is needed because `taille_max` of the last segment is changed only
  at the end, from one page to `0xFFFF`. `SurvivesCorrect` needs `Survival` besides: a load in progress
  has a map, and without a map there is no segment; then three loaded sections are, by
  `FilledFirst`, the three slots that the commands look at without a test. `DisplayCorrect` follows
  from the types alone, by the cases of `affiche_segment`.
* `StoreProofs`: `StoreImplemented`, the refinement of `ByteStore`: a set changes the bytes addressed only, no byte is
  lost, an OK is never wrong, and a word, or a byte of the lower half, is accepted where it is stored. `Evolves` says what one access may do to
  the bytes of one segment; `GrownBytes`, `PutBytes` and `PutWordBytes` establish it from the loop over
  `inc_segment`, and `Together` lifts it to the map, because no address lies in two segments
  (`SegmentsApart`). A word is stored high byte first, so growth never reaches the address that
  was asked for. For `assert word` one more invariant is needed, `EvenInv`: sections begin at even
  addresses, since pages and `START_MEM` are even, so the two bytes of a word at an even address lie
  in the same segment; across two segments the command would answer no whatever they held.
* `LoaderProofs`: `TypeCorrect`, `HeldCorrect`, `TidyCorrect`, `ReleaseSound`, from `FilesAssumption` (what a file is, and that a name
  starts with itself). `Held` compares counts with the pointers that are left; to keep it, `Control` says which
  tables are alive where in `_loadcmd` and that `nsegments` is at most the number of sections already looked for. `Tidy`
  is about the end of a load; `TidyInv` says of every step how many blocks the load in progress
  still owes, and `SoundInv` that a complete file has both its tables, so that the two releases
  at the end are of tables that are alive: `ReleaseSound` is the same fact.
* `LoaderPlaceProofs`: `LoadsCorrect`, `ExitClean`. The invariant `PackedInv` describes the slots in the middle of the loop: the
  sections of the file before the current one are packed in order, `nsegments` counts them, and the slots
  from there on have no content. `PlaceNext` is the lemma on counting behind it. `ExitClean` is about the session
  that loads one complete file, of which only `.bss` may be absent, and quits: `FirstInv` says that until then no
  block is lost (`Exact`: the counts of maps, segments and contents are those of the slots) and that the slots
  still to be written are empty (`Room`), because a slot that is written twice loses a segment. That the
  slots count exactly rests on `NullAssumption`: no segment is the null pointer.
* `DisasmProofs`: `TypeCorrect`, `ReleaseInRange`, `NamesHonest`, `ShowsItsRange`, `ArgsHonest`, `WalkAdvances`, from `DisasmAssumption`, for all texts, dictionaries and numbers of
  turns. `IInv` adds `NullBefore` (no operand is allocated before the walk reaches the range) and
  `NamesInv` (a row that is neither a conditional branch nor `IT` still has its own name); a line is right when it is
  printed and no later step changes it. `ShowsItsRange` needs `WalkedSoFar`: at every turn, the step is where an
  instruction begins or past the end of the text, every whole instruction of the range before it was printed, and none before it has
  a zero code. The lemmas on `StartsOf` say that these places form a chain: from one to `Following`, with none
  between. `ArgsHonest`, with the coverage of `ArgsAsEncoded` above, needs only that each line holds the operands of its row read in its code
  (`LinesRead`); the rest is about pure functions. `ImmediateIs` is its heart: shifting and masking field by field,
  as `immediate` does, gives the bits that the champop spells, for every champop of at most 31 bits. By induction over the
  fields, what was assembled so far is the reading of what was spelled so far (`JoinSpells`); `TimesFour`, `SignedTwice`,
  `NumberOfSix` and `ThirtyTwo` then give the values of the shifted, extended and shift-amount operands, and `OffsetLow` the low bits of `BL`. `WidthAssumption` is needed because a field of 32 bits would be masked away.
  `WalkAdvances` is the variant of the walk.
* `ShellProofs`: `TypeCorrect`, `VerdictsHonest`, `AssertsMeanIt`, `SetsMeanIt`, `ScriptsAdvance`. `IInv` adds that no line of a
  running script has failed (otherwise an `exit` after an error would succeed), and
  that a handler starts with its line whole and the registers as they were when the line
  was read. `SetsMeanIt` compares the loop of `setcmd`, which writes each pair as it parses it, with a reading of the
  whole line from its end (`PairsFrom`), for the lines without a negative value; the invariant behind it, `AsRead`, is about all
  lines, a negative value counting as the mistake that the code takes it for. `SetInv` says that inside the loop the pairs of the tokens that
  are left take the registers as they are now to the values that the whole line gives; `AfterCons` is the lemma that
  applying one more pair keeps it, and `WellFormed`, in `ShellAssumption`, that a token is told by its text.
  `ScriptsAdvance` is the variant of a script: each step but a failed read (`AcquireError`) ends it or leaves less to do, so
  a failed read is the only step that can keep it from ending. It needs `EndNotPassed`, that `acquire_line` is not called
  after the end of the file.

The definitions by recursion (`PairsFrom`, `StartsOf`, `Reading`, `Spelled`, `Immediate`) are recursive functions. The library's
induction theorems take an operator, which the provers do not instantiate; `Induction` states
what is needed with sets instead: the set of the numbers at which a claim holds contains 0 and
successors (`UpTo`), and the function exists because a sequence of partial ones does (`StepByStep`).

Only model-checked: `CommandsReturn`, `WalkEnds`, `ScriptsEnd`, everything under fairness. What is proved of them
is that their loops cannot turn for ever (`CommandsAdvance`, `WalkAdvances`, `ScriptsAdvance`, each a step of a
well-founded order). That a step is possible wherever a command is not over is `ENABLED`, which the prover does
not handle, and is left to TLC with the fairness.

## Not modelled

* Characters: `string_standardise`, `strtok_r`, lines longer than the buffer, the size of
  `adresse[20]` and `apsrsaisi[20]`. They are in the list of hazards.
* What is printed, with the exception of return codes, of the range of bytes that is displayed, and of
  the lines of `disasm` (address, code, name and value of each operand; not their layout).
* The tables that `load` prints, and the byte order of the fields of a file: a file is the answers of its reads.
* Shifts by 32 or more are undefined in C; `Operands` takes the amount modulo 32, as the processors do
  that the program is built for. `ArgsAsEncoded` says nothing of the operands for which it matters, except
  where the outcome is the same.
* `change_plage_seg`, `dec_segment`, `depile_list_break`, and in `format_op.c` the shifts with a carry other than
  `ROR_C`, `RRX`, `concatenate16` and `concatenate32`: never called by the program.
* Allocation failures outside the breakpoint list.
* `run`, `step` and `debug` print a message: the program executes no instruction. The draft of an
  execution loop under `test/` is not linked.

## Plan

The plan of the project, in its order: `BreakSet`, `BreakList` and proofs; `ByteStore`, `Memory` and proofs of the layout;
`Shell` and proofs; `Loader` and proofs; `Operands`, `Dico`, `Disasm` and proofs; the display of memory; the proof
that the segments implement `ByteStore`; then the proofs that need an induction over a line, a text or the bits of
a code (`SetsMeanIt`, `ShowsItsRange`, `ArgsHonest`), `ExitClean`, and the variants behind the liveness properties. All of it is done:
every invariant and every action property of the runs that find no error is also a theorem.
