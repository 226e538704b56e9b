# Verification of TermOS x86-64

TLA+ models of the TermOS kernel (`src/arch/x86`), the TLC runs that check them
on small instances and the theorems TLAPS proves about them for every instance.
Paths below are relative to `src/arch/x86/kernel/src/` unless they say otherwise.

## The system

TermOS boots from an MBR loader into a single 64-bit kernel with one thread of
control. `kernel.cpp` sets up streams and interrupts, enables them (`sti`), sets
up the page allocator, looks for disks, mounts the FAT32 volume of drive 1 and
enters the shell, which never returns. Concurrency comes from two interrupts
only: the timer and the keyboard. `Tasking::init` is called nowhere, so
`schedule()` returns at once and the shell is the only program there is: `edit`
creates a task and waits for it for ever.

| Component | State | Operations | What makes it correct |
|---|---|---|---|
| FAT32 driver, `fat32.cpp` | the volume, `current_dir_cluster`, `current_path` | init, ls, cat, mkdir, touch, rm, cd, pwd | after every sector write the volume is a tree of complete, allocated directories; the prompt's path leads to the working directory |
| Interrupts and keyboard, `idt.cpp`, `interrupts.asm`, `pic.cpp` | ring, modifier flags, 8259A | irq32, irq33, generic stub, kbd_push, kbd_pop | the ring is a queue, no line is left in service, interrupted code goes on unharmed |
| Streams, `iostream.cpp`, `vfs.cpp` | three function pointers | read a character, read a line, print | every key is read once, in order, in bounds |
| Page allocator, `pmm.cpp` | bitmap, `free_memory` | init, lock, alloc, free | no page is granted twice, the counter follows the bitmap |
| Shell, `tsh.cpp` | `input`, `history` | run, add_to_history, the commands | `!n` repeats the n-th command, buffers hold what is put in them |
| Terminal, `stdio.cpp` | video memory, cursor, `view_offset` | put_char, clear, refresh | the cursor stays on the screen, echo and erase match the line buffer |
| Tasking, `task.cpp`, `task_asm.asm`, `yield_asm.asm` | run list, task pool, saved stacks | create, schedule, yield, block, kill, exit | the run list is a ring whenever the timer looks at it, a switch goes to a task that can run, no stack has two tasks |
| System calls and editor, `syscall.cpp`, `edit.cpp` | none of their own | exit, read, write | as Tasking |
| ATA driver, `ata.cpp` | table of drives | identify, read, write | data moves only when the drive asks for it |
| Boot loader, `../../boot/boot.asm`; Rust loader, `../../rust/` | CPU mode, page tables; memory map, frame buffer | mode switches; console | outside the running kernel; the console shows the end of what was printed |

How they meet: the shell calls one FAT32 handler at a time and the handler calls
`read_sector` and `write_sector`; the shell reads through `std::cin`, which
polls the ring that the keyboard interrupt fills; an unexpected vector prints
through the same terminal object the shell prints with. The timer interrupt
comes between any two instructions. What is hard here: the interrupt between two
instructions of `kbd_pop` or just before the `hlt`; power lost between two
sector writes; long sequences of commands that leave the volume in a state some
handler does not expect. `PROJECT.json` lists these hazards line by line.

## Modules

| Module | Models |
|---|---|
| `Fat32` | the FAT32 driver |
| `NameTree` | abstract: a tree of names, each operation done at once or not at all |
| `MCFat32` | its constants for TLC |
| `Fat32Proofs` | its theorems |
| `KeyQueue` | abstract: a bounded queue that drops what comes while it is full |
| `Keyboard` | interrupt controller, stubs, keyboard handler, ring, reader |
| `KeyboardProofs` | its theorems |
| `MCKeyboard` | its constants for TLC |
| `Pmm` | the page allocator (its constants are numbers, no MC module is needed) |
| `PmmProofs` | its theorems |
| `Terminal` | the text screen and the line editor on it (constants are small values, no MC module is needed) |
| `TerminalProofs` | its theorems |
| `Ata`, `MCAta` | the disk manager and the drives; its constants |
| `AtaProofs` | its theorems |
| `Tasking` | task creation, the run list, `schedule`, and `cmd_edit` (its constants are numbers) |
| `TaskingProofs` | its theorems |
| `Shell`, `MCShell` | prompt loop, history and `!n`; its constants |
| `ShellProofs` | its theorems |
| `Console`, `MCConsole` | the text console of the Rust loader; its constants |
| `ConsoleProofs` | its theorems |

### Fat32

`fat` is the first FAT (the only copy the driver writes), `dir` the first sector
of every cluster seen as directory entries (the only sector it reads). A FAT
cell is 0 or `EOC`, as the driver links no chains. An entry keeps the state of
its first byte (end, deleted, used), its eight name characters as one value, the
directory bit and the cluster. Names as typed and as stored are different sets
and `BaseOf` is the conversion between them (upper case, cut at the first dot
and at eight characters): two spellings may share a stored name, and `..` or an
empty argument is stored as spaces. File contents are not modelled: the driver
never writes any. Nor is what the handlers print: a refusal is a step that
changes nothing.

A handler runs to its end before the shell reads the next line, so a handler
with one write is one action (`fat32_touch`, `fat32_rm`), `fat32_mkdir` is four
(`MkdirBegin` reads, `MkdirFat`, `MkdirDots` and `MkdirLink` write), and
`fat32_cd` is one step for each component. `Restart` is power loss and boot
between any two of them. `present` tells whether drive 1 was found: without it
the handlers take the paths of a failed read. `CdNoArg` is `cmd_cd`, which after
`fat32_cd("/")` also calls `fat32_cd(nullptr)`, whose path is whatever lies at
physical address 0. `FreeClusters` is limited to the `ScanLimit` cells that
`fat32_find_free_cluster` looks at.

`NameTree` is what the shell may count on: a set of nodes (where an entry is, its
name, what it leads to), the directory of the prompt (`home`) and the one a `cd`
has got to (`at`). `MakeDir`, `MakeFile` and `Remove` are single steps; a new
directory is empty, has a name that was free and is the only way to its
contents. In the mapping (`Promise` in `Fat32`) a node is an entry in use other
than the dots, unreachable directories included, and `home` is `old_cluster`
during a `cd`. So the first two writes of `fat32_mkdir` are stutters, the
third is `MakeDir`, and a power loss anywhere is `Home`. `CdUp` must be `Up`:
the number in the `..` entry is where the one name of the directory is. A file
may share its name with what is there (`fat32_touch` does not look), and what is
below a removed directory stays as it was.

### Keyboard

One action is one step of one actor that the others can observe: the keyboard
puts a scan code in the port (`SendKey`), the timer raises its line (`Tick`), the
CPU takes a request (`Take`), a stub runs (`irq32`; `irq1_handler` and
`irq33_return`; `Unhandled` and `generic_handler`), and the main program takes a
step of `istream >> char` and the `kbd_pop` in it (`PopEmpty`, `PopLoad`,
`PopSetTail`, `Store`, `Halt`). The gates are interrupt gates, so handlers do not
nest and the main program runs only when `handler = "none"`. AL is a variable:
in the unoptimised build of the Makefile it holds the new tail between
the remainder and its store, and the character between the return of `kbd_pop`
and the store in its caller. The 8259A, the keyboard controller and the timer
are external and modelled from how the code programs them: fully nested mode,
edge-triggered, non-specific EOI. `TickAnywhere` says whether a tick may come
while AL is live.

### Pmm

`set` is the set of pages whose bit is set. `pmm_lock_pages` takes one step per
page (`lock_at` to `lock_end`), the other operations one step each. Nothing in
the kernel calls `alloc_page` or `free_page` yet; the clients of the model hold
the pages they were granted, free any page that is not locked, and cannot tell
page 0 from the null pointer.

### Terminal

`vidmem`, `x` and `y` are the fields of the `Terminal` object, without colours.
The Makefile builds without optimisation, so every access to a field is an
access to memory; `put_char` is one step for each (`pc`), with `reg`, `row` and
`addr` for what it has loaded. `Unhandled` is `generic_handler` for a vector
nobody handles: it prints through the same object, whole, as it runs with
interrupts off. `refresh` is page up or down; it copies a buffer that nothing
ever writes, so the cells get a value of their own. On top of it are the prompt
and `istream >> char*`: `Type`, `Erase` and `Enter` each change the line and
say what is to be printed (`out`). The command between two prompts is `clear` or
none that prints. The module leaves out that a timer tick replaces AL
(`keyboard_al` shows that), which can replace a character in `put_char` too.

### Tasking

The variables are those of `task.cpp` and the fields of a task that matter.
`create_task` is one step for each thing it takes or links, since the timer
interrupts it anywhere (`Tick`), as does Ctrl+C (`CtrlC`). The handlers run with
interrupts off, so `schedule` is one step; its loop is a path `p` along `next`
that ends where `LoopStops`. `Init` has both the kernel as built, in which
`current_task` is null, only `cmd_edit` creates tasks and `task_list->next` is
the word at address 40 (`next[Null]`), and a kernel that has called
`Tasking::init`, with the other calls of `task.hpp` as its clients.

The model ends at the first switch (`switched`). `create_task` puts 0x08 into
the frame for cs (`task.cpp:72`); in the table of `boot.asm` that is the 32-bit
code segment, while the kernel runs in 0x18. So after the `iretq` of
`do_switch` the CPU does not run the instructions of the task as they are
meant. The task switched away from has its return address on the top of its
stack, not a frame (`stack_top`), so it could not be resumed either, and a
switch made by the timer leaves IRQ0 in service. `SwitchToFrame` is what is
right about the first switch: the task is on the list, can run, and its stack
top is a frame.

`yield` is the body of `cmd_edit`'s loop (`tsh.cpp:95`). The way out of the loop
has no action: `EditWaits` says that its condition never comes true. Nobody calls
`set_foreground_task` for the editor, so Ctrl+C does not reach it, and it cannot
call `exit_current` before a switch. In the kernel as built nothing changes any
more once `edit` waits: the shell hangs.

### Ata

One step of `register_driver`, `read_sector` or `write_sector` is what main does
between two waits. The drives are external and work by themselves: `Complete`
ends a command, `Fail` ends it with the error bit and no data, `WriteBack`
moves a cached sector to the platter. A drive takes no command while it is busy.
`chan` is shared by the two drives of a channel, of which the drive bit of the
command selects one. `IndexIsScanOrder` compares the table with the disks that
are there, so that `Fat32`, which uses index 1, gets the second disk.
`Fat32` takes a written sector as one that survives power loss; the run
`ata_flush` shows what this asks of the drive: that it writes through.

### Shell

`memory` is `history[10][64]` as the bytes it is, since `strcpy` knows no entry
size; characters are ASCII codes, since `input[1] - '1'` calculates with them.
One action is one line: a command, a repeat, or a repeat that is refused.
`Shifting` is the loop that shifts a full history, one `strcpy` a round. `log`
keeps every line that was run, for the properties only. `DigitRepeats` is what
`!1` to `!9` do, `NumberRepeats` what the documentation says of every number;
the history has ten entries and the code reads one digit.

### Console

The loader's console has one thread and no interrupts: a call is one action. All
its drawing is at multiples of a glyph, so pixels are abstracted to a table of
glyphs. `Printed` is the loop of both `write_str` functions, one `write_char` a
character; no caller prints a carriage return, which is left out. The history
variable `lines` is the reference: the text broken into lines on an endless
screen, extended by `Layout` with each string that is printed. `ScreenIsTail`
says that drawing, wrapping and scrolling step by step shows the end of it.

## Runs

| Run | Instance | Shows |
|---|---|---|
| `fat32` | clusters 2 to 6, three entries a directory, five typed names for three stored ones, five paths, one file on the fresh volume | all properties of Fat32 but the next, the refinement of NameTree among them |
| `fat32_dotdot` | the same | violated: `cd ..` in a directory of the root does nothing |
| `keyboard` | ring of three, four scan codes, `TickAnywhere = FALSE` | order, bounds and progress of keyboard input |
| `keyboard_al` | the same with `TickAnywhere = TRUE` | violated: a tick turns the character read into a space |
| `terminal` | three rows of two columns, two characters, one interrupt that writes to the screen | writes stay in the video memory, the echo is the line |
| `ata` | two channels, any mix of disks, packet devices and empty places, two sectors, two calls, one failed command | calls reach the sector they name, leave the drives ready, and return |
| `ata_flush` | the same, one call, no failure | violated: the flush is lost, the sector is still in the drive's cache |
| `shell` | three entries of four bytes, five commands and eight repeats, five lines run | the history is the lines run, `!1` to `!9` run the line under that number |
| `shell_ten` | ten entries, two commands and `!10` | violated: `!10` runs the first entry |
| `console` | four by four glyphs, the last row cut by the edge, nine characters in pieces | the screen is the end of the text, with one cursor |
| `pmm` | nine pages: one bitmap byte that `pmm_init` writes and one bit it does not | no double grant, counter in step |
| `tasking` | four tasks, four stacks | the run list is a ring at every tick, stacks are not shared, the first switch is to a task that can run, the wait of `edit` has no end |

Why the bounds are enough. In `fat32` the root holds the preloaded file and two
more entries, a subdirectory its dot entries and one more, so directories fill
up, `mkdir` fails for lack of an entry and leaks clusters until none is free,
deleted entries are reused, and paths go two levels below the root. In
`keyboard` a ring of three holds two characters, so four scan codes fill it,
overflow it and wrap both indices; the keys include both modifiers, both scroll
keys, a key with no character and C with and without Ctrl. `pmm` needs one whole
byte and a rest. In `terminal` a line of `MaxLine = 3` characters after its prompt
fills two rows of two, so every line wraps, scrolls and is erased back over
the edge; one interrupt (`MaxNoise`) at any step is enough to split every
test from what it guards, and the theorems hold for any number. `MaxLine` must leave the
prompt on the screen: the code has no such limit, but its line buffer ends at
128 characters, far before the screen does. Two calls in `ata` are a write and
what follows it; every index (0, 1, and one that is never there) meets every
table. `shell` runs more lines than the history holds, so that it shifts twice; lines are at most
three characters, what an entry of four bytes holds (a longer one runs into the next entry, at 64
characters in the code). `console` prints three times what its
three columns by three rows hold. In `tasking` four of each let
the tasks run out first (with `init`, which takes one without a stack) and the
stacks run out first (without), and put up to three others on the ring. `ata` and
`shell` stop when their bounds are reached and `tasking` at the first switch
(`CHECK_DEADLOCK FALSE`).

### Fairness

`Keyboard` and `Ata` have liveness properties. `Tasking` has none: the one thing
that should eventually happen, the end of `edit`, never does (`EditWaits`). In
`Ata` main runs whenever its wait is over, and a drive ends every command it has
taken, well or not (weak fairness of both; `Fail` needs none). In `Keyboard`,
stubs are straight code with interrupts off (weak fairness), the timer is a
device that ticks for ever (weak fairness). A request is disabled again and
again by handlers that run, and the main program by every interrupt, but neither
is locked out: an interrupt takes microseconds and the timer comes every 55 ms.
Hence strong fairness for `Take(0)`, `Take(1)` and the main program. No fairness
is assumed of the user or of spurious interrupts. `KeysConsumed` needs the
timer: when the key comes between the empty check and the `hlt`, it is the next
tick that ends the `hlt`.

### What the violated runs say

* `fat32.cpp:176` stores 0 for the root in a `..` entry, `fat32.cpp:248` ignores
  a parent of 0. From a deeper directory `..` works. The comment at
  `fat32.cpp:215` promises `..` without this exception.
* `interrupts.asm:49` loads AL after the registers were restored. Every program
  that the timer interrupts resumes with AL = 0x20. The properties of the
  `keyboard` run are therefore checked for the case that the tick comes where AL
  is not in use; a tick elsewhere can break the order of the queue too (the tail
  becomes 32) and with it `KeysConsumed`. `KeyboardProofs` shows that the other
  safety properties need no such case, and that this store of the tail is the only step
  that breaks the order.
* `ata.cpp:101` writes the flush command directly after the last data word. The
  drive is then busy with the sector and takes no command, so the wait behind it
  is for the sector to be in the cache only.
* `tsh.cpp:42` reads one character after `!`; the history shows ten entries.

No run shows it, but `pmm.cpp:22` starts the counter at all of memory while every
page is taken (`pmm.cpp:24`); `Accounting` says that the difference then stays
as it is for ever.

## Proofs

All theorems are checked by TLAPS for every value of the constants that the
modules' `ASSUME`s allow: clusters, entries and names in any number, a ring, a
bitmap, pools, a screen and a history of any size, any number of calls, failures
and interrupts. Two assumptions are more than sizes: `RootCluster = 2`, explained
below, and that lines fit their buffers (`LinesAssumption` in `Shell`).

`Fat32Proofs` assumes in addition `RootCluster = 2`, the value `fat32_init` calls
usual: an absolute `cd` starts at cluster 2 whatever the boot sector says
(`fat32.cpp:223`), and with another root none of this holds. The inductive
invariant `IInv` joins `TypeOK` and four parts:

* `DiskInv`: the three tree properties, and two facts they rest on. Free
  clusters hold blank sectors (`FreeIsBlank`): the driver never frees a cluster,
  so a cluster is free only if it was never written; without this a new
  directory could contain old entries. An end entry is followed by end entries
  only (`EndIsLast`): handlers fill the first entry that is not in use.
* `WorkAllocated`: the working directory, and the one a failed `cd` returns to,
  are allocated directories.
* `MkdirInFlight`: what `fat32_mkdir` has read is still true when it writes.

The proofs go action by action. `MkdirLink` is the one that matters: the new
entry points to an allocated, complete directory that nobody else names, which
is what `MkdirInFlight` says at that point. `EntriesSurvive` follows from the
same invariant, since the sector written back is the one read.

`PmmProofs` strengthens the type invariant by `Covers` (the counter is at least
the size of the free pages, so that it never wraps) and `LockFirst` (pages are
locked before there are clients). Every step makes one of three moves on bitmap
and counter, and a lemma on finite sets gives the number of free pages after it.

`KeyboardProofs` assumes nothing about ticks: they may come between any two
instructions. `IInv` joins the four safety invariants of the run and two facts:
inside `kbd_pop` AL is the new tail or what `irq32` left there (`TailInAl`), and
the keyboard line is not requested again before the port is read
(`OneRequest`). The ring is mapped to the queue of `KeyQueue`: the cells from
tail to head. A push appends, the store of the right tail takes the head away, and
every other step stutters; the index arithmetic is done once, in lemmas about
`Succ` and the remainder. What remains is the step in which `kbd_pop` stores the
timer's AL as its tail, `TailFromTimer`. `StepsAreQueueSteps` says that it is the
only one that is no step of the queue, and `RingIsQueue` that a behaviour without
it is a behaviour of the queue.

`TerminalProofs` says for each step of `put_char` what its loaded values are worth
after an interrupt. An interrupt that prints leaves `x = 0` and `y >= 1`
(`UnhandledFact`). So a stale decrement yields `x = -1` only below the first row,
where the cell before the row exists: `BeforeRow`. `RowInside` and
`ColumnInside` say at which steps the cursor may be just off the screen, and `AddressFact` does
the one multiplication. Nothing bounds the number of interrupts.

`TaskingProofs` rests on the shape of the run list (`Shape`): a new task goes in
behind task 0, so task 0 leads to the newest task and every other one to the
task made before it. The ring of `RunListIsRing` is then given outright, from
the current task down to 0 and from the newest down again, and no induction is
needed; nor is it for the loop of `schedule`, since every pointer leads to a
task that is linked (`NoWayOut`), however often it was followed. `Framed` says
that before the first switch the tasks but the current one have the frames they
were made with. `StackInv` says that the stack `create_task` has taken belongs
to no task until it stores it, and `WaitInv` that the task in the making, or
waited for, runs and is not the foreground task, of which a kernel without
scheduler has none.

The refinement and the path are proved by a second invariant, `PathInv`. The
directories from the root to the working directory form a chain `q` of
*distinct* clusters, each with the next name of the path as its first match
(`Leads`). They must be distinct for this to survive a write: `touch`, `mkdir`
and `rm` write to the end of the chain or to a directory without a name, so
they touch no link of it (`WalkKept`). `cd` into a directory adds a cluster
that is not on the chain, since each of its members is named by the one before
it, the root by none, and no cluster is named twice (`WalkDown`); `..` cuts the
chain, because the number in the `..` entry is the one place that names the
directory (`WalkUp`). During `mkdir` the new name is still free in the working
directory. `PathResolves` then says that following the names from the root
gives what the chain gives (`ResolveIs`), and `KeepsPromise` goes through the
actions: each changes the set of nodes at one place (`NodeWrite`) as one
operation of `NameTree` does, or leaves it (`NodesKept`).

`AtaProofs` has no bound on calls or failed commands in its argument. At most
one channel is at work, the one of the call in progress, and what its drive is
doing is what the step main is at has asked for, for the sector of the call, or
the drive has reported an error. So a drive cannot change a sector that no call
names, the next call finds both channels at rest, and the scan appends to the
table what `Scan` appends.

`EchoIsLine` needs to know, at every step of `put_char`, what the screen will
show when the character is out: the prompt and the line on it but for the
character in hand (`Putting`, `Erasing`), with the cursor still to move
(`Moving`), or a screen that is being cleared (`Clearing`). `EchoInv` says so as long
as no interrupt has printed (`noise = 0`).

In `ConsoleProofs` a console shows the lines `ls` with the last of them in `row`
(`Near`), and the cursor has room for a glyph (`Good`). A newline shows the same
lines and an empty one, in the row below or scrolled by one (`NewLineGood`);
a character makes the last line longer and, if it is full, ends it
(`WriteCharGood`); the cursor is drawn in a cell where no text is (`RenderGood`). A
string is an induction over its characters (`PrintedGood`).

`ShellProofs` says what the memory has to hold: at each entry the characters of
the line of the log as far from its end, up to their zero (`Holds`). `strcpy`
of a line that fits writes inside its entry (`Copying`), and after `n` rounds the loop
of a full history has moved the first `n` entries down and no other
(`ShiftFact`). The theorems assume what the model does, that typed lines fit.

The library's induction theorems take an operator as a parameter, which the
installed provers cannot instantiate. Where a definition is recursive (`Resolve`,
`Printing`, `Laying`, `Shifting`, `Scan`) the proof does without them: it shows
a function that satisfies the recursive equation, which makes the
definition's own one satisfy it, and then looks at the smallest index at which
the claim fails (`MinFact`, `Induction`). For this the models use recursive
functions, not folds.

Every safety invariant and every action property of a passing run is a
theorem, and so are both refinements (that of `KeyQueue` up to `TailFromTimer`,
without which it is false). Only model-checked is liveness, which is
out of the prover's reach: `KeysConsumed`, `PortDrained` and `CallsReturn`.
What the violated runs check is false, so there is nothing to prove.

## Not modelled

`PROJECT.json` gives the reason for every component. In short: the boot loaders
run before the kernel, port I/O and string helpers are single instructions or C
library functions, `vfs.cpp` sets three pointers once. The editor and its system
calls run only inside a task, and no task runs as written (see Tasking). `Fat32`
starts from the volume that `mkfs.vfat` makes (`../../Makefile`), so that
`fat32_init` finds its boot signature; without one it returns early
(`fat32.cpp:23`), the sector numbers stay 0, and every cluster is sector 0. File
contents, the second FAT and the 256-byte limit of `current_path` are left out
of `Fat32`; a scan code left in the controller before `PIC::init` is left out of
`Keyboard`; number formatting is left out of the streams. Lines longer than a
buffer are left out of `Shell` and `Terminal`: nothing in the code stops them, so
all there would be to say is which bytes they overwrite.

## Plan

1. Models and runs of every component that runs: done.
2. Proofs of every safety property and refinement the runs check: done.
3. Next: a root cluster other than 2, for which an absolute `cd` goes astray
   (`fat32.cpp:223`); `Fat32` on the disks of `Ata`: what survives power loss
   when the drive does not write through; an abstract disk that `Ata`
   implements, so that `Fat32` can rest on its theorem.
