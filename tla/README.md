# TurtlOS: a TLA+ verification of the kernel's stateful parts

TurtlOS is a small C++ kernel for x86 PCs: it boots from a multiboot loader,
runs one interactive loop on the boot processor (read a key, echo it on the
text console), keeps its dynamic memory in one heap, and has drivers for the
keyboard, the mouse and the screen, code that starts further processors, and a
layer of devices and drives over an initial RAM disk. This directory holds TLA+
modules of the parts that keep state and of the algorithms of its libraries, TLC
configurations that check them on small instances, and TLAPS proofs, for every size,
of the safety of the heap, the keyboard buffer, the start of processors, the console,
the keyboard and mouse drivers, interrupt delivery, the counted data of strings
and smart pointers, and the linked list.

Paths below are relative to the repository's `src/` as listed in `PROJECT.json`,
which also maps every definition to the lines it stands for.

    tlc -workers 2 -config heap_bytes.cfg Heap       # one run
    tlapm HeapProofs.tla                             # one module's proofs


## 1. Inventory

The kernel is single-threaded on each processor. Concurrency comes from three
sides only: interrupt handlers on the boot processor, devices that answer when
they like, and the start of other processors. Nothing is persisted, so there is
no crash recovery.

| component | state | operations | with whom | what is hard | correct when |
|---|---|---|---|---|---|
| **Kernel heap** `kernel/Heap.{h,cpp}` | a ring of headers inside the arena, `_nodesQty` | `Allocate`, `AllocateAt`, `Reallocate`, `Free`, `Dump` | all dynamic memory | merging and splitting, byte sizes against header sizes, exact fits | blocks tile the arena, clients never share a byte, nothing leaks |
| **C allocation** `kernel/klib_impl/kheap.cpp` | pointer to the heap | `malloc` … `realloc`, `calloc`, `aligned_alloc` | heap | product in `calloc` | as the heap |
| **Keyboard buffer** `std/Queue.h`, `keyboardGetChar` | `_data`, `_inIdx`, `_outIdx` | `Push` in the interrupt, `IsEmpty`, `Pop` in the loop | keyboard handler, main loop | interrupt inside `Pop`; overflow; plain globals in an optimised build | a FIFO, every key delivered |
| **Keyboard handler** `hal/common-x86/keyboard.cpp` | `mExtendedKey`, `mModifiers`, `mLedState`, `mResend` | `KeyboardIrqHandler`, `keyboardSetLeds` | keyboard, buffer, reboot | replies among scan codes, two keys per modifier, prefixed codes, table bounds | modifiers, LEDs and keys follow the physical keys |
| **Mouse and 8042** `hal/common-x86/mouse.cpp`, `keyboardInit` | one shared output buffer, the configuration byte, the packet under way, the pointer | `mouseInit`, `MouseIrqHandler`, `keyboardInit` | keyboard, PIC, text screen | polling and interrupts on one port, time-outs, packets out of step | packets in step, one pointer on the screen |
| **Interrupt delivery** `hal/common-x86/pic.c`, `hal/x86/cpu.*`, `timer.cpp` | masks, requests, in service | `picSetMask`, `picSendEOI`, stubs | all handlers | cascade, spurious latches | every line is served again |
| **Processor bring-up** `kernel/CpuWaker.*`, `Spinlock.h`, `boot/waker.asm` | one configuration block, one spinlock | `StartCpu`, `Waked` | processor list, local APICs | two processors on one block; a late answer | each processor gets its own stack, the result is the truth |
| **Processor list** `kernel/Processors.*` | list of `CpuDesc`, each with a state | `AddCpu`, `Startup`, `InitBsp`, `InitAp` | parsers, waker | the loop's use of the waker | states follow the processors |
| **Text console** `kernel/Console.*`, `Canvas.h` | canvas, cursor, saved cursors, escape buffer | `PutChar`, `PutNewLine`, `PutTab`, `PutBackspace`, `Clear`, `Scroll`, `AnsiEscFilter`, `operator<<` | main loop, log | the end of the canvas, a cursor that is a raw pointer | text stays in order, scrolling leaves nothing stale |
| **Devices and drives** `DeviceManager`, `iDevice`, `LogicalDrive`, `RamDrive`, `CachedDrive`, `iDevDrive` | device and listener lists | `RegisterDevice`, `RegisterListener`, block reads and writes | each other, by callbacks | registration from inside a notification | every listener hears of every device; blocks are read back along every stack of drives |
| **Initial RAM disk** `InitrdFs`, `VirtualFs`, `tools/mkinitrd.cpp` | the image | `FindFile`, read | drives | the format on both sides | what was packed is found |
| **Strings, smart pointers** `lib/std/String.cpp`, `SmartPtr.h` | shared buffers with a count | copy, append, substring, find | heap | aliasing, the shared empty string | behaves as a value; freed exactly once |
| **Containers** `List.h`, `Array.h`, `Stack.h`, `Pool.h`, … | nodes | insert, remove, find | all | links at the ends | behaves as a sequence |
| **Windows** `CliWindow.*`, `CliFrame.h`, `CliPanel.h`, `CliDesktop.h`, `Rect.h` | a canvas and a place per window, the order of children | `Invalidate`, `Redraw`, `Move`, `AddChild`, `RemoveChild` | console | clipping, windows over one another | the screen shows the topmost window of each cell |
| **Boot information** `MultibootParser`, `ImpsParser` | none | parse | processors | malformed tables | the list of processors |
| **C library** `lib/libc` | `strtok`'s position | string, memory, conversion | all | overlap, bases, widths | the C standard |
| **Run-time support** `lib/crt` | atexit list | constructors, 64-bit arithmetic | compiler | `__qdivrem` | arithmetic |
| **Boot code and ports** `hal/*/boot`, `bga.c`, `debug.c` | registers | – | – | – | – |
| **Header libraries, tools** `Helpers.h`, `Utils.cpp`, `bin2inl.cpp`, `Delegate.h`, `Log.h` | – | numbers, `hexdump`, `CommandLineToArgv`; a file as a C array | all; the build | tables sized before the text is read | arguments, bytes and numbers come out as they went in |

The hazards of this code, each at the line where it bites and with the
properties that would catch it, are listed in `PROJECT.json`. They fall in five
groups: *arithmetic at the edges* of the heap and the console; *interrupts and
replies in an order nobody wrote a test for*; *the shared port of the 8042*;
*hand-over between processors*; *shared or re-linked data* in strings, lists,
windows and the device manager.


## 2. Modules

| module | models | kind |
|---|---|---|
| `Allocator` | what an allocator promises: live pointers own disjoint ranges of the arena and keep them | abstract specification |
| `Heap` | `Heap.cpp`: the ring of headers, refining `Allocator` | state machine |
| `HeapProofs` | inductive invariant, refinement, properties of clients | proofs |
| `Fifo` | a queue and the item in the reader's hand | abstract specification |
| `KeyQueue` | `Queue.h` between handler and `keyboardGetChar`, refining `Fifo` | state machine |
| `KeyQueueProofs` | invariant and refinement | proofs |
| `CpuWaker` | `StartCpu`, `Waked`, the trampoline, the lock | state machine |
| `Console` | cursor, cells and scrolling of the text console | state machine |
| `ConsoleProofs` | invariant of the console, and what is kept of the text; the windows | proofs |
| `Ansi` | `AnsiEscFilter` character by character | state machine |
| `Keyboard` | the keyboard, the wire and `KeyboardIrqHandler` | state machine |
| `KeyboardProofs` | invariant, modifiers, replies, LEDs | proofs |
| `KeyChars` | scan code → key code → buffer → character | state machine |
| `Mouse` (`MCMouse`) | both drivers' use of the 8042 and the PIC | state machine |
| `MouseProofs` | one pointer; every byte and packet in step | proofs |
| `Interrupts` | 8259, descriptor table, dispatch, start-up of the boot processor | state machine |
| `StartupProofs` | of `CpuWaker`: invariant and its consequences; of `Interrupts`: invariant, every service ends; of `Devices`: invariant, every listener is told; of `BootTables`: invariant, what the tables say is what comes out; of `Initrd`: invariant, files packed are files found | proofs |
| `Devices` | `DeviceManager` and listeners that register devices | state machine |
| `Initrd` | `mkinitrd`'s image, the drives over it, `InitrdFs` | state machine |
| `BootTables` | multiboot information and multiprocessor tables, the processor list | state machine |
| `StringValues`; `Strings` | a value per variable; `String` sharing counted buffers, refining it | abstract; state machine |
| `SmartPtrs` | `SmartPtr` | state machine |
| `SharingProofs` | reference counts; that `Strings` and `SmartPtrs` keep them and sharing is unobservable | proofs |
| `ItemSequence`; `Lists` | a sequence and a place in it; `List` and an iterator, refining it | abstract; state machine |
| `ListsProofs` | of `Lists`: one ring both ways, every operation is one on a sequence; of `Containers`: each is what it stands for | proofs |
| `Containers` | `Array`, `BitArray`, `Stack` and `Pool`, `ActBuffer` | state machine |
| `Windows` | `CliWindow` and its heirs, `Canvas`, `Rect` | state machine |
| `LongDivision` | `__qdivrem` and the four divisions on it | algorithm |
| `CLibrary`, `StdLib`, `Ctype` | `memory.c`, `string.c`; `stdlib.c`; `ctype.c` | algorithms |
| `Format` | `vsnprintf`, `Console::operator<<` | state machine over `StdLib` |
| `Helpers`, `Bin2Inl` | `Helpers.h`, `Utils.cpp`; `tools/bin2inl.cpp` | algorithms, step by step |
| `MCParts` | the components without a run of their own, side by side | model for TLC |

`Allocator`, `Fifo`, `StringValues` and `ItemSequence` are used through
`INSTANCE … WITH`; the mappings stand at the end of the module that refines them.
How the others meet: `Mouse` shows whether a byte reaches a handler and
`Interrupts` whether a handler runs at all; `Keyboard` decides *which* keys are
pushed, `KeyQueue` what becomes of a pushed key, `KeyChars` which character it
yields; they meet at port 0x60 and at `mBuffer`. `Ansi` ends in commands that are
`Console`'s actions, and a console draws on a window's canvas, whose
way to the screen is `Windows`. `Initrd` stacks the drives `Devices` registers.
Each is checked by itself, against what its neighbours rely on.

**Heap.** The state is the set of headers with `size`, `used`, `prev`, `next`,
plus the live pointers the clients hold. One action per public operation, each
the whole call: `Allocate` is best fit (`FindSutableNode`) and the split; `Free`
merges with what lies behind and before; `Reallocate` has the three ways out of
the code (fits, grow into the next block, move). Sizes and
addresses are in bytes, `NodeSz` of them to a header; the difference of two
`Node*` that the code compares at `Heap.cpp:291` is a number of headers when the
distance is a multiple of one, and otherwise undefined: the compiled division may
answer either way, so both are modelled. Contents of
blocks are not modelled; signatures (debug builds) are, because a header written
over another one is exactly what they detect.

**KeyQueue.** `Push` is one step, as interrupts are off inside the handler. The
reader has a step for each memory access that matters: the test, the index, the
read, the conversion. In a release build (`Debug = FALSE`) assertions vanish and
`TestEmpty` may take a branch `stuck`: the indices are not `volatile`, so an
optimiser may read them once before the wait.

**CpuWaker.** Processors `1 .. N` may be disabled, dead or alive. The steps of
`StartCpu` (take the lock, fill the block, send the start-up message, take the
lock again or give up) interleave with those of the processor being started (load the
stack, check the identity, answer, release). `Prompt` says a living processor
answers within the wait. The loop in `Startup` that calls it for each processor
is commented out at this commit; the model is of the code as written there.

**Console.** The canvas is a function on cells, the cursor an index, as the code
keeps a raw pointer. All characters, controls and cursor commands are actions;
a command that moves the pointer off its array ends in the status `wild`, where
the model stops, since what the code then writes to is not the canvas.

**Keyboard.** Physical keys go down, repeat and up; the keyboard puts scan codes
on a wire and answers commands on the same wire. `Behind` stands for what lies
behind the table of 83 key codes when a reply indexes it.

**Mouse.** One output buffer with three sources, a queue of undelivered bytes
for each; the PIC's request, in-service and mask bits; the main program as a
sequence of polled steps, with `Script` for the commands of `mouseInit`. A wait
runs out (`Silent`) only when nothing is going to come, and then the byte last
read is read again, as the port does.


**Interrupts.** The two controllers keep requests, services and masks; a line is
deliverable if nothing as urgent is in service. `pc` follows `InitBsp`,
`mouseInit` and `keyboardInit`; devices ask for service at any time from power-on.

**KeyChars.** `Change` and `Press` are the handler's, `GetChar` is the main loop's:
the character is made from the modifiers of that moment. Next to the buffer the
model keeps, for every key, which characters were on its cap under the modifiers
since it was pressed.

**Ansi, Format, Helpers, Bin2Inl, BootTables.** One step per character, byte or
entry, as the loops of the code take them; the results are compared with a
definition that looks at the whole input at once.

**Strings.** A datum is a count, a text and whether its terminator is there.
`AppendTo` leaves a shared datum to its other owners and reallocates an own one,
at the same place or elsewhere. Appending an object to itself when it alone owns
its buffer copies from the text being written; the model decides by the width of
a word whether the terminator survives.

**Lists.** Nodes with both links, the head among them; an iterator held by the user
across calls. **Containers**: four independent ones, each through the calls its
assertions allow.

**Devices.** A call under way is a frame on a stack, so that a listener's
`RegisterDevice` runs inside the walk that told it. **Initrd**: a cell of memory for
each field of a header and each byte of a file.

**Windows.** A canvas per window. Every operation of the code draws at once, so that
the whole chain of `Invalidate`, `Redraw` and `Copy` is part of the action.

**LongDivision, CLibrary, Ctype.** Functions of the arguments, the digits, words and
tables of the code among them; a state is a choice of arguments.


## 3. Runs

| run | instance | shows |
|---|---|---|
| `heap_bytes` | 17 bytes, headers of 2, sizes 1, 2, 3, 5, release | list well formed, coalesced, owned; free undoes allocate; empty heap is the initial one; refines `Allocator` |
| `heap_unaligned` | the same, debug | **violated**: with arbitrary sizes `Reallocate` splits off a tail that cannot hold its header |
| `keyqueue_debug` | 4 slots, the typist may overfill by 2 | FIFO, no underflow, every key taken until the overflow assertion stops the machine |
| `cpuwaker_prompt` | 3 processors, each of 3 kinds | no shared stack, right block, right result, list worked off |
| `cpuwaker_late` | 2 processors, answers at any time | **violated**: the assertion of `Waked` |
| `console` | 4 × 2 cells, 2 characters | blank ahead, backspace undoes a character, text kept but for the top row |
| `console_bottom` | the same | **violated**: a character is lost at the end of the canvas |
| `keyboard` | 6 keys: both shifts, a prefixed key, Alt, Caps Lock, Backspace | no modifier sticks, replies push nothing, LEDs show the locks |
| `keyboard_resend` | 2 keys | **violated**: the request to resend goes unnoticed |
| `mouse` | no, a plain and a five-button mouse; 2 × 1 cells | one pointer, packets in step, every input served |
| `parts` | `MCParts`, 146,329 states, about 75 s | the table below |
| `scancodes_shifted` | two keys | **violated**: behind 0x49 the table does not stand where its comments say |

In `parts` the variable `part` is chosen initially and says which component moves;
the others rest, so the states add up instead of multiplying. Its properties:

| property | of | says |
|---|---|---|
| `DivisionRight` | `LongDivision` | quotient and remainder, signed and unsigned, are those of arithmetic |
| `LibraryRight` | `CLibrary`, `Ctype`, `Helpers`, `Format` | `memmove` keeps what it copies, overlapping or not; comparisons, searches, masks and tokens agree with their definitions; classes of characters fit together; command lines split as quotes and spaces say, within the tables; what is printed reads back |
| `SequencesRight` | `Ansi` | a command gets the parameters typed; text outside sequences is printed once and in order |
| `OwnersCounted` | `Strings`, `SmartPtrs` | counts are the numbers of owners: nothing is freed under one, nothing kept for none |
| `ValuesSpec` | `Strings` | sharing is invisible: refines `StringValues` |
| `IsSequence` | `Lists` | refines `ItemSequence`, and the way back is the way forth reversed |
| `ContainersRight` | `Containers` | each is the sequence, set or stock it stands for |
| `EveryoneTold` | `Devices` | whatever is registered from within calls, every listener hears of every device, and of those registered at top level once |
| `FilesReadBack` | `Initrd`, `Bin2Inl` | files packed or written as an array are the files read, through every stack of drives |
| `EveryServiceEnds` | `Interrupts` | no service stays open, no device stops the processor |
| `BootInfoAsGiven` | `BootTables` | processors, memory map and modules are those of the tables; when the kernel asserts |
| `ScreenShowsWindows` | `Windows` | every cell shows the topmost window there |
| `CharsAsTyped` | `KeyChars` | a character is on the key's cap for modifiers on at some time since it was pressed |
| `FifoSpec` | `KeyQueue`, release build | FIFO also without assertions, as long as the typist stays within the buffer |
| `SignaturesIntact` | `Heap`, 24 bytes, sizes 2, 4, 6, debug | with sizes that are multiples of a header no header is written over another |

### Bounds and why they suffice

* *Arena 17, sizes 1, 2, 3, 5.* Five blocks and the sentinel fit, and seventeen
  is not a multiple of a header, so that every
  case of `Free` (no, left, right, both neighbours free), all three branches of
  `Reallocate`, exact fits and tails just below and above the threshold occur.
  The proofs cover every other arena.
* *Four slots.* Enough to wrap both indices and to be empty, partly full and
  full; six presses wrap the writer's index beyond its start.
* *Three processors.* A pair suffices for one hand-over; the third shows that the
  block and the lock are in order again after a failure in the middle.
* *4 × 2 cells.* Two rows scroll; four columns hold two tab stops. The only
  places the code treats differently are column 0, the last column, the last row
  and the ends of the canvas.
* *`MaxWire` 3.* The wire holds a prefixed code and a reply behind it. The six
  keys are one of each kind the handler tells apart.
* *Parts.* Halves of 2 bits leave four digits of a quad and reach every branch of
  algorithm D, the adding back included; 96 of the 256 numbers are operands.
  `memmove` works on 7 bytes in words of 2: all overlaps, odd lengths and
  alignments. Strings have up to 3 characters, 3 objects and 3 data. Lists have
  3 nodes, so that two can be no neighbours; arrays and pools 3 places; bit
  arrays two words of five bits with an int of three, narrower than a word as on
  x86-64. A letter beyond ASCII stands next to two ordinary ones. Escape sequences have up to 4 characters (`MaxTyped`): a
  CSI, two parameters and the command, or two sequences. Two drives, one cached;
  5 devices (`MaxDevices`). Tables of up to 2 entries of 6 kinds whose inside looks
  like another entry. A desktop of 4 × 3 cells, windows also half outside,
  the caption empty as in the kernel. Printed
  numbers are of 8 bits, in 3 widths and 6 sets of flags. Command lines of up to 6
  characters have an argument, quotes and separators in every order.
* *Mouse.* `VelX` 2 makes two columns of the screen out of four counts, so a
  motion stays in a cell, changes it or hits an edge. Packets of 3 and 4 bytes
  occur, the detection knocks once and twice, and the one key code, 3, is also
  the identity of a wheel mouse, the worst byte to be misread.
* `MaxBacklog`, `MaxPresses` (KeyQueue), `MaxSaved` (Console), `MaxWire` (Keyboard),
  `MaxTyped` (Ansi), `MaxLen` (Strings), `MaxCalls` (Containers), `MaxDevices`
  (Devices) and `MaxWaiting` (KeyChars) are the bounds in guards, each a constant.

Deadlock is not checked in the runs because each system may stop: a debug
assertion halts, the bring-up ends, a client may hold its blocks for ever, the
`wild` pointer has no successor, a typist may go away.

### Fairness

* `KeyQueue`: weak fairness of the main loop. It runs for ever on the boot
  processor and every interrupt returns to it. The typist owes nothing.
* `CpuWaker`: weak fairness of the boot processor and of each living processor;
  both run on processors of their own. Dead ones take no step at all.
* `Mouse`: weak fairness of the main program and of the handlers (interrupts are
  on in the loop). Strong fairness of delivery from each port: the controller
  must not favour one device for ever. That is a property of the hardware, not of
  this code, and without it the claim would be false.

### What the code does not promise

`InStep` and `InputReachesHandler` are claimed only of a machine nobody touches
until the main loop. The model shows why: a key pressed during the start may be
taken for the configuration byte (`mouse.cpp:298`), for the mouse's identity, or
fail the keyboard's self-test (`keyboard.cpp:564`), and a request latched while
masked makes the mouse handler read a byte that is not the mouse's. Dropping the
condition `~touched` from either property yields the traces.

`BlankAhead` and `BackspaceUndoesChar` are claimed only while the cursor has not
been put back over older text (`~jumped`): `Scroll` clears from the cursor on, so
after a carriage return or a cursor command stale text may stay in the last row.

`NoModifierStuck` is about a wire that delivers every byte in order; the typist
waits when the keyboard's own buffer (`MaxWire`) is full, as a real keyboard that
overruns would lose break codes no driver can restore.

The console writes behind the canvas in two states the model keeps: with the
cursor exactly at the end (finding 3), and after a cursor command without a
boundary check, which the source marks `@todo Check boundaries`; the latter ends
in `wild` and nothing is claimed of it.


Other limits of the code met while modelling. The properties except them by a
premise that names the case. A text of the repository contradicts only the one about
`-null`, which the usage text of the tool (`bin2inl.cpp:57`) promises without exception.

* `string.c`, `memory.c`: `strcmp` and its like order characters beyond ASCII below
  all others, as plain chars are signed; `memcmp` orders bytes. `strncmp` of no characters compares one; `strnicmp` takes the n-th
  characters as equal only in the same case; `strncpy` may write one NUL more than
  asked; `strstr` in an empty string finds nothing, not even the empty one; `strtok`
  drops a last token without a delimiter behind it. `memmove` onto the same place
  returns NULL.
* `sprintf.c:62`: `%%` also eats the character behind it. A leading `0` or `0x`
  overrides the base given to `strtol`, and its `endptr` is not set at the end of
  the text.
* `String.cpp`: `Substring`'s offset plus length may wrap (`:168`), not modelled;
  `Format` writes into a single character (`:15`).
* `List.h`: `SwapLinks` of neighbours breaks the links; assigning a list to itself
  empties it; the comments of `FindAfter` and `FindBefore` are exchanged.
* `LogicalDrive.cpp`: `Write` calls `Read` (`:37`); its listener registers a drive
  for each drive without end. `InitrdFsFileData::Read` reads beyond the file.
* `lapic.cpp`, `cpu.c`: the vectors of the local APIC have no gate, and the
  spurious vector is set to its register's number; `DefaultIsrHandler` sends no end
  of interrupt.
* `MultibootParser`, `ImpsParser`: flags are tested with `&&`; the default
  configurations of the MP specification run into an assertion.
* `BitArray` allocates the words that fit, not those needed, so bits behind the
  last full word are not modelled. Its mask is the int `0x1` shifted: on x86-64 the
  number at an int's sign bit is kept in all the bits above it too, which the
  model has, and a shift by more is undefined (`BitArray.h:59`): such
  numbers are left out (`Usable`). `ActBuffer` handlers must not call back;
  `Array::Insert` of one of its own items is left out.
* `CliFrame.h:67` copies the caption without looking how much room there is;
  `ScreenShowsWindows` is claimed of captions that fit. `CliFrame.h:28` takes the height where the width is meant; `_parent` of a window
  is not initialised; rectangles that touch count as intersecting.
* `keyboard.cpp`: Num Lock shifts the digit row; `isprint` is asked about codes
  outside its table (any outcome, in the model).
* `bin2inl`: `-align`, `-tabs`, `-append` and the line terminators have no effect,
  and `-null` none for an empty file. `hexdump` never ends
  when only addresses are asked for.


## 4. Findings

1. **Heap.cpp:291** – `next2 - ins > MinBlockSpace` subtracts `Node` pointers
   over a byte distance. For tails shorter than a header the compiled result can
   be a huge number; the tail is split off and its header overwrites the next block's,
   against `assert(n->_headSig == HeapHeadSig)` in `Heap.h:10`. (`heap_unaligned`)
2. **CpuWaker.cpp:51** – after the wait runs out, the block is rewritten for the
   next processor although the last one may still read it; `CpuWaker.cpp:60`
   asserts it never does. Latent: the caller's loop is commented out.
   (`cpuwaker_late`)
3. **Console.cpp:300** – a new line at column 0 of the last row does not scroll
   and leaves the cursor behind the canvas; the next character is lost, although
   `Console.h:63` promises to put any character. (`console_bottom`)
4. **keyboard.cpp:469** – the break bit is masked off before the error codes
   0xFC–0xFE are compared, so the branch under `//! watch for errors` (`:535`) is
   dead and `mResend` never set. (`keyboard_resend`)
5. **keyboard.cpp:322** – `KeyScancodes` has no entries for 0x4a–0x4f, so every
   later entry stands six places before the scan code in its comment
   (`//0x50 //keypad down arrow`), and F11 and F12 lie behind the end of the
   table. (`scancodes_shifted`)


## 5. Proofs

All theorems hold for every value of the constants that satisfies the named
assumption of the module; the assumptions are evaluated by TLC in every run.

**Heap** (`HeapAssumption`: a header is at least one byte, the arena holds a
header, the sentinel and a byte). The properties are not inductive by themselves: `Free`
follows `prev` and `next`, so one has to know that the links agree with the
addresses, and the refinement needs that a live pointer is a used block. The
invariant `IInv` therefore says: the list's types; each block's `next` starts
where the block ends (`Linked`); links and addresses have the same order
(`Ordered`); `_nodesQty` counts the blocks (`Counted`); no two neighbours are
free (`Coalesced`); used blocks and live pointers correspond (`LiveOwnBlocks`).
The proof has one lemma for each list primitive (`AddNodeAfter`, `RemoveNode`,
best fit) and one step for each action; `HeapInvariant` yields `TypeCorrect`,
`ListAlwaysWellFormed`, `AlwaysCoalesced`, `LiveAlwaysOwnBlocks` and
`EmptyAlwaysInitial`; on it rest `LiveAlwaysApart`, the refinement
`HeapImplementsAllocator` and `FreeAlwaysUndoesAllocate`. That no header is ever
written over another is no theorem: it is false (finding 1).

**KeyQueue.** `NothingLost` is not inductive by itself, as a full turn of the
indices looks like none. The invariant adds that the backlog stays bounded, that
a reader at `pop` has seen a key, and that a debug build which has not stopped
keeps one slot between writer and reader. The theorems assume
`Guarded == Debug \/ MaxBacklog < SIZE`: the overflow assertion is compiled in or
there is no overflow. `SlotNeverRewritten` is of debug builds.
`QueueImplementsFifo` maps the slots between the indices to the abstract queue.

**Processor bring-up** (`StartupProofs`). `HandOverInvariant`: at most one processor is on its way, it is the
one in the block, those further down the list are untouched, and the state of the
lock says whether it has answered. Under `Prompt` it
implies `StacksNeverShared`, `ConfigAlwaysForAp`, `ReturnAlwaysTruth` and
`TimelyAnswersPassAssert`, the positive counterpart of finding 2.

**Console** (`ConsoleAssumption`: at least two columns and two rows, a tab no wider than
a row, and the blank is no character). The invariant is the types and `BlankAhead`: the cells from the cursor
on are blank unless the cursor was put back over older text. `TextAlwaysKept` is an
action property on top of it: what stands before the cursor stays in its place or, when
the screen scrolls, one row further up.
`BackspaceAlwaysUndoes` needs that the last cell that is not blank, the greatest of a
set of numbers, is the one just written; that there is such a greatest number and that
a tab stop is reached by whole steps are lemmas of the module.

**Keyboard** (`KeyboardAssumption`). `NoModifierStuck` speaks of an empty wire and is not
inductive: it says nothing of the bytes still under way. The invariant (`Off`, once for
Shift, Ctrl and Alt) says that when all keys of a modifier are up, either it is off
and no make code of it is on the wire, or a break code of it is, and no make code
follows that one. A wire that loses a byte would break it, one that delays or mixes in
replies does not. `RepliesNeverPush` and `LedsAlwaysShowLocks` are action properties of
one call of the handler each.

**Mouse** (`MouseAssumption`). Two inductive invariants, for every screen, key code,
script of motions and set of mice. *One pointer*: the types (`Typed`) and that exactly
the cell at the remembered position is inverted once the pointer was drawn; that the new
position is on the screen again after any motion is part of it. *In step*: `InStep`
compares one packet with the mouse's own, and is far from inductive. `Synchronised`
therefore describes each phase of `mouseInit`. At each place of its script (`Plan`) it
says what the mouse takes the next byte for, which answers are under way (`Coming`) and
which of them the driver reads next; before that, the same of the controller's own
answers. Once interrupts are on: a request latched at the PIC stands for a byte of
its device in the output buffer (`Latched`); driver and mouse agree on the length of
a packet (`Agreed`); and the queue holds the end of a packet, the buffer the byte before
it, and the driver has read what comes before that one (`Following`). `Lines` adds that nothing is in
service between handlers. `AlwaysInStep` holds for every kind of mouse, with keys and motions in any order once
the main loop runs (`InStep` claims nothing of a machine touched before that, see section 3). The proof showed that
`Answer` was written with a `CASE` whose guards overlapped, which TLA+ leaves undetermined
although TLC takes the first; it is a choice of alternatives now.

**Interrupts** (`StartupProofs`). `EveryServiceEnds` is strengthened by what makes it true: a line is unmasked
only when its driver's handler is in place (`OnlyDriversOpen`), so that no line is delivered
whose handler would send no end of interrupt; and the services open at the two controllers are those of the line
being handled, for a line of the slave one at each (`Agreed`). The one premise,
`Wired`, is that no device is wired to the third input of the master, where the slave is.

**Devices** (`StartupProofs`). `EveryoneTold` speaks of the idle manager; what makes it true is how the
calls nest, since a listener registers a device from within the call that tells it of another.
The invariant says that the `RegisterDevice` calls under way are each for a device of their
own, and that only the outermost call may be a `RegisterListener`, for the listener that
came last (`Nested`). It then says, of every listener and device, how often the one has been told
of the other while the calls run (`Counted`): a call has told the listeners it has passed and no
others. A new listener hears of a device twice if the device is registered while it walks the
list, by itself or by another, and appended where the walk still gets to; this is harmless because such a
device is one it registers nothing on (`Quiet`). That what the listeners register is
finite and new each time (`Registry`) follows from the premise, `DrivesGiven`: main's drives
stand on nothing and have different identities, and the listeners are the two of the
kernel. The theorem states `ToldOnceOrTwice`; that `GetFileSystems` finds every file system, a
recursion over the list, stays with TLC.

**Strings and smart pointers** (`SharingProofs`). Its first section states once what both
need: a count of users is a number, at least one where there is a user and two where
there are two, and re-directing one user takes one from the old target and gives one to the
new. For strings the invariant says that every count is the number of
objects, one more for the static datum; since an object that owns its datum alone
cannot be another's, no step changes what another object refers to (`Changes`).
From this follow `OwnersAlwaysCounted`, the first part of the run's
`OwnersCounted`, and `StringsAreValues`, the refinement: sharing until
a write is unobservable. The same argument for smart pointers gives
`AliveAlwaysPointedTo`. The hypotheses (`Premise`, `PtrPremise`): finitely many objects, texts
that are sequences of characters, and `EMPTY`, `NULL` and `None` apart from the
addresses. They stand in the theorems, as both modules are instances in `MCParts`.

**Lists** (`ListsProofs`). The map reads the items off the links by walking them, so the
proof has two halves. *The ring*: the invariant `IInv` names the order `w` in which the nodes
stand; the links lead from the head through `w` and back, those back answer those forth
(`Ring`), the nodes of `w` and no others have data (`Holds`), and the iterator stands at a
place of `w`. Linking in, taking out, turning round and swapping two nodes that are no neighbours
give a ring again, in the order `InsertAt`, `RemoveAt`, `Reverse` and `Swap` make of `w`
(`RingLinked` to `RingSwapped`). *The walk*: in a ring `Way` is `w` (`WayIs`), and a search
along either link ends at the first node with the item or at the head (`LooksEnd`); both are
recursive functions, about which the proof says that the function with the values of the ring
satisfies the recursion and no other does, by a least place at which another would differ.
Then each operation has one lemma (`Insertions` to `Clearing`) that gives the
step of `ItemSequence`. `ListIsSequence` states `IsSequence` as the run does. The premise
(`ListPremise`): finitely many nodes, the head is none of them, and `NoItem` is no item.
That `SwapLinks` needs nodes that are no neighbours is used where it should be, in
`RingSwapped`.

**Containers** (`ListsProofs`). For any size and any items, an array's first `count` cells
are its items, so that moving items up and down is inserting into and removing from a sequence;
the free places of a pool are on its stack once each and, with those in use, are all
(`PoolInv`: the counting in `PoolRight` needs that they are different); what was given
to an `ActBuffer` is what it has handed on followed by what it holds. The words of a
`BitArray` have the bits of its numbers, and above an int's sign bit whatever that bit says
(`BitsInv`); a number is its word and its place in it, and the least number in or
out of the set lies in the first word that is not passed over (`LeastChosen`,
`FirstBitIs`). `ContainersAsIntended` states the whole of `ContainersRight`; the premise `Sized`
is that `SIZE` and the bits of an int are at least 1, the latter no more than a
word's.

**Windows** (`ConsoleProofs`; premise `WindowsGiven`: places are whole numbers; sizes,
drawn regions and the caption's length have no negative ones). The invariant `Right` is of a state
`[canvas, offset, children]`: canvases keep their sizes, each child is there once, the desktop
shows the topmost child at every cell, and a frame on the desktop its border and its client;
a caption that fits stays within the border (`CaptionInBorder`).
`CopyCopies` shows what the three clippings of `Canvas::Copy` amount to: a cell is
taken from the source exactly where the source and the rectangle asked for have one.
`RedrawDesktop` draws the children one over the other, a recursive function; `DrawnTo` is what it
comes to after `k` of them, the topmost of the lowest `k` at every cell of the region, and
nothing else satisfies the recursion. The main lemma is `InvalidateMakesRight`: if
everything is right but in a region of one window (`RightBut`), redrawing that region makes all of it
right. Each action then has to show that what it changed lies in what it invalidates:
the rectangle drawn on, the whole of a new child, the old place of a removed
one, the old and the new place of one moved. For this proof `RedrawDesktop` is written as a
recursive function instead of a fold, and `RemoveChild` names the place in the list it removes.

**Boot information** (`StartupProofs`). Entries and regions lie one behind the other, of different
lengths, and the parsers walk from one to the next by what they read. `Flattening` says of
the library's `FlattenSeq` what lies where (`Flat`): the i-th sequence behind the first `P[i - 1]` elements.
The invariant `TabInv` puts the cursors at those places, `EntryEnds` and `AreaEnds`, and says
that the processors (`Tally`) and the map (`MapWalk`) are those of what has been read, the
boot processor the last so flagged. `GetCpu` then finds it, so that `InitBsp` makes just one
processor ready. `ProcessorsAlwaysListed` and `BootInfoAlwaysAsGiven` are the two parts of the
run's `BootInfoAsGiven`, for tables of any length. The premise (`TablesGiven`): the numbers
of processors are below 255, which the code takes for "none" and the hardware for "all", and the flags the
specification reserves are 0. For this proof `ProcessorsListed` counts the processors up to an
entry (`Place`) where it selected them with `SelectSeq`, and the bounds of BIOS area
and memory map are constants.

**Initial RAM disk** (`StartupProofs`). `ImageMade` states cell for cell what `mkinitrd`
lays out (`Imaged`): the sums of `Lengths` are where `FlattenSeq` puts the contents, and headers of
one length need no sums (`FlatEven`). The invariant `InitrdInv`: without an image no drive begins
with the magic number and no file system was found; with one, it stands where it was loaded
to, a drive begins with the magic number only there, and the file system has its
headers; what was written stands in its blocks. `FilesAlwaysReadBack` then follows
from what each way of reading yields (`ReadIs`, and `BlocksAreCells` for blocks read one by one). The premise
(`InitrdGiven`): a block holds the header, the logical drive lies within
the drive but not at its start, no image has the magic number by chance in the cell the
logical drive begins with, and what is written is never that number; the listener has nothing else
to tell an image from data. For this proof `Lengths` is a recursive function instead of a fold, a write
records how many blocks it wrote, and their bound is a constant.

**Model-checked only.** All liveness (`EveryKeyTaken`, `AllBroughtUp`,
`InputReachesHandler`), since TLAPS cannot reason about fairness and ENABLED;
and the properties of `parts` but for `FifoSpec`, `EveryServiceEnds`, `ValuesSpec`,
`IsSequence`, `ContainersRight`, `ScreenShowsWindows`, `BootInfoAsGiven`, the counts of `OwnersCounted`, the part of `FilesReadBack` about `Initrd` (that
about `Bin2Inl` is not), and the part of `EveryoneTold` named above,
which the theorems state for every size.
What recursive functions over texts compute (`Ansi`, `StdLib`, `CLibrary`) is an
induction over data and stays with TLC.

`TypeOK` is proved of `Heap`, `KeyQueue`, `Console` and `Mouse`; in `CpuWaker` and
`Keyboard` the types are part of the inductive invariant.


## 6. Not modelled, and why

* `AllocateAt` of an unreserved place held by a client: the only caller is
  commented out, and such a pointer is not among the live ones (that a debug build
  halts for some of these places is modelled). `calloc`'s product
  and `aligned_alloc`: without a caller. The figures of `Dump`.
* `Queue::Clear` and `Peek`, `kb_reboot`, `PoolAlloc`, `LogicalDrive`'s listener:
  without a user in the kernel.
* Escape sequences longer than `_ansiBuffer`: what they overwrite depends on the
  build. Cursor commands beyond the canvas end in `wild`.
* A mouse that answers later than `mouse_wait`, and the waits for the 8042's
  input buffer. What else draws at the pointer's cell.
* `InitAp`'s use of the PIC from a second processor: no processor is started at
  this commit. The ticks of the timer, which nothing waits for.
* Assignment of smart pointers (`SmartPtr.h:71-78`), which copies the address without
  counting: no code of the kernel assigns one. `BitArray` and `CliFrame` have no user
  there either but are modelled, as the properties are worth having.
* Windows nested deeper than a client in a frame, the hardware cursor.
* Floating-point printing, and calls of the C library the standard leaves undefined.
* `Delegate.h`, a library of call wrappers by another author without state;
  `Log.h`, formatting of log lines; `iDevStream`, `VirtualFs`, interfaces only.
* `cxxabi.cpp`, `entry.c`, `crt.c`, `new.cpp`: constructors and exit functions in
  the order the linker lays them out; `linker.ld` sets the start of that table
  twice, so which are called is the linker's matter, not the code's.
* Boot code, port access (`bga.c`, `debug.c`), the x86-64 twins of the x86 files,
  the ARM stub: straight-line code.


## 7. Plan

1. *done* – heap and allocator, keyboard buffer and FIFO, processor bring-up,
   console, keyboard handler, mouse and 8042, with the theorems above.
2. *done* – strings, smart pointers, lists and containers; devices, drives and RAM
   disk; interrupts and boot tables; the escape parser; windows; characters;
   64-bit division, the C library, helpers and tools.
3. *done* – proofs of the safety of the console, the keyboard, the mouse and interrupt
   delivery, about the reference counts of strings and smart pointers, and that strings
   behave as values, lists and bounded containers as sequences and sets, that no
   listener of the device manager is passed over, that the screen shows the windows,
   and that the boot tables are read as they were written and the files as they were packed.
4. `Keyboard`, `KeyQueue` and `KeyChars` in one run, from the key pressed to the
   character on the console; a mouse that answers late.
