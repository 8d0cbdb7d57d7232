# A TLA+ model of BlueStarOS

BlueStarOS (MWOS) is a small x86-64 operating system in C: a UEFI loader, and a
kernel with a page allocator, a heap, page tables, interrupt handling, PS/2
input, an ATA disk driver, a FAT32 driver, a graphical terminal and a shell.
These modules model what the parts with state of their own do, check it with
TLC on small instances, and prove the properties that matter most with TLAPS
for all of them.

Paths below are relative to the repository.

## 1. Inventory

### How the system runs

`boot/efi_utils.c` loads the kernel image, takes the memory map, leaves boot
services and jumps to `kmain` (`kernel/kmain.c:104`), which sets up the serial
port, segments, interrupts, timer, page bitmap, disk, keyboard, mouse and
screen, enables interrupts (line 172), draws the terminal and halts in a loop.
From there on everything happens in interrupt handlers. The kernel has one
processor and no scheduler: its only concurrency is the main thread against
the handlers. Handlers run with interrupts off, so they do not nest.

The FAT32 driver, the heap, the page tables and the shell are complete
components that `kmain` does not start yet: the calls of the FAT32 test
(`kernel/kmain.c:551-738`, `test_fat32_all`) are commented out, `mem_init` and
`vmm_init` have no caller and nothing hands keys to `shell_process_char`. Their
modules take the interface as callers may use it, for FAT32 with that test as
the guide.

### Components

| component | source | state | operations | what is hard about it |
| --- | --- | --- | --- | --- |
| page allocator | `kernel/pmm.c` | `bitmap`, `total_pages`, `bitmap_size`, `free_pages` | `pmm_init`, `pmm_alloc_page`, `pmm_alloc_zpage`, `pmm_alloc_blocks`, `pmm_free_page`, `pmm_free_blocks` | byte masks at the ends of ranges, the bitmap protecting itself, a counter beside the bits |
| heap | `kernel/memory.c` | `heap_used`, the 32 MB at `0x2000000` | `mem_init`, `kmalloc`, `kfree` | 32-bit sums, headers among the data, double frees |
| FAT32, table and directory | `kernel/drivers/fs/fat32.c` | both tables and the root directory on disk, cluster numbers in handles | create, delete, open, close, write, read, seek, truncate, directories | each operation is several sector writes; failures, crashes, a full disk, open files deleted |
| FAT32, contents | the same | position, size, sector buffer and dirty flag of a handle | the same | positions at cluster boundaries, unflushed buffers |
| FAT32, names and listing | the same | the slots of the root directory, handles, where a listing is | create, open, close, delete, rename, copy, move, attributes, `fat32_read_dir`, mount | a search whose read failed answers "absent"; handles whose entry is another's now; entries that come and go while the root is listed |
| disk driver | `kernel/drivers/ide.c` | the drive's status register | init, read, write, identify | bounded polling against a drive that answers when it likes |
| page tables | `kernel/vmm.c` | four levels of tables in pages of the allocator | `vmm_init`, `vmm_map` | allocation on the way down |
| interrupts | `kernel/idt.c`, `kernel/drivers/pic.c`, `kernel/timer.c` | in-service bits and masks of two PICs, tick counter | dispatch, end of interrupt, mask | two acknowledgements for one timer interrupt |
| keyboard, mouse | `kernel/drivers/keyboard.c`, `kernel/drivers/ps2_mouse.c` | shift and caps flags; packet bytes and their number | the two handlers, `mouse_init` | lost bytes shift packets; one output buffer for both devices |
| terminal | `kernel/kmain.c` | cursor, input line, what is behind the pointer | `term_putc`, `term_puts`, the keyboard and mouse upcalls | main thread and handlers share the cursor and the screen |
| shell | `kernel/shell.c` | line, ring of ten lines of history, escape state | `shell_process_char`, history up and down, `shell_execute_command` | ring and view index; a screen at the other end of a line |
| boot loader | `boot/boot.c`, `boot/efi_utils.c` | the kernel's image, the graphics mode, the memory map and its key | load, choose a mode, hand over | key stale after any allocation; a size asked for once; retry loop |
| graphics, text | `kernel/graphics.c`, `kernel/text.c` | the frame buffer | pixels, rectangles, glyphs, strings | 32-bit coordinates, clipping, UTF-8 and wrapping together |
| strings, serial | `kernel/string.c`, `kernel/serial.c`, the formatting in `kernel/shell.c` and `boot/efi_utils.c` | none | numbers to text and back, `printf`, comparisons, copies | five printers of numbers that should agree; the least integer; overlapping copies |
| segments | `kernel/gdt.c` | one table | written once | nothing beyond the data |

How they interact: `vmm.c` is the only caller of the page allocator; the FAT32
driver calls `ide_read_sectors` and `ide_write_sectors` synchronously; the
keyboard and mouse handlers call up into `kmain.c`, which draws through
`text.c` and `graphics.c`; the memory map flows from the boot loader to
`pmm_init`.

### What makes each correct

* Page allocator: no page has two owners; the kernel, the bitmap and memory the
  firmware keeps are never handed out; freeing everything restores the bitmap;
  the counter says how many bits are clear.
* Heap: blocks are disjoint, inside the heap and aligned; nobody's data or
  header is changed by somebody else's call.
* FAT32 on disk: chains end, no two files share a cluster, what is referred to
  is allocated, what is allocated is referred to, the second table follows the
  first - between any two sector writes, with failures, crashes and deletions
  of open files.
* FAT32 contents: a file reads as what was written to it, at the position the
  handle says; a crash leaves what was last saved; nothing is written outside
  the file's own clusters.
* FAT32 names: the root is a map from names to files, and every answer is true;
  a listing returns each file once; a file that is moved is never lost, also if
  the machine stops in the middle.
* Disk: a transfer reported good moved the sectors asked for; nothing is written
  that nobody asked for; every call returns.
* Page tables: the tree maps what a flat map would, at every step of a call;
  every table is in one place, and no page the allocator may give away; the
  processor never goes by a translation that was replaced.
* Interrupts and input: every interrupt is acknowledged, and never another one
  in its place; no byte stays in the controller; packets stay in step, shift
  keys do not stick.
* Terminal: text stays inside its window and never covers other text; taking
  characters back erases what was typed and nothing else; the pointer leaves no
  trace where it has been.
* Shell: the line the shell has is the one that is seen, as far as a row of the
  terminal and the backspace on it allow; the ring is the list of
  the last lines entered, and the arrows move through it.
* Drawing: nothing is drawn outside the frame buffer, glyphs are drawn whole or
  not at all, a text is there in full and in its order. Strings: what one
  function writes another reads back.
* Boot loader: the memory map the kernel is given is the one in force when boot
  services end; the screen is in the best mode there is, and the kernel is told its
  size (it is not: section 4).

The hazards this list comes from are in `PROJECT.json`, each at its line.

## 2. Plan

| step | modules | status |
| --- | --- | --- |
| 1 | `Pmm` | done |
| 2 | `Heap`, `MemoryProofs`: the proofs of both allocators and of the page tables | done |
| 3 | `FatTable`, `FatTableProofs` | done |
| 4 | `ByteFile`, `FatFile`: the abstract file, and handles, positions and the buffer that implement it | done |
| 5 | `Ide`, `IdeProofs`: the driver's polling against two drives | done |
| 6 | `Input`, `InputProofs`: interrupt dispatch, PICs and end of interrupt, timer, keyboard and mouse bytes; `Terminal`, `TerminalProofs`: the terminal, shared by the main thread and the handlers of keyboard and mouse | done |
| 7 | `FlatMap`, `Paging`: the tree of `vmm.c`, implementing a flat map | done |
| 8 | `Boot`, `BootProofs`: graphics mode, the memory map's hand-over and the retry of `ExitBootServices` | done |
| 9 | `LineHistory`, `Shell`, `ShellProofs`: line editor and history | done |
| 10 | `NameMap`, `Directory`, `DirectoryProofs`: names, listing, copy and move | done |
| 11 | `Strings`, `Drawing`: what is computed without a state of its own | done |

Modules that compose: `FatTable` has the driver's table writes one by one and
no contents, `FatFile` has contents and takes a table write as one step,
`Directory` has the entries and takes what a handle does as given; all three
take from `Ide` that a transfer succeeds or is reported to have failed (with
the exception of section 6). `Paging` has of the page allocator what it relies
on: a set of free pages, of which the lowest is given, which is `Candidates` of
`Pmm`, and that a page given is nobody else's, which is `SingleOwner` there.

Abstract specifications: `ByteFile`, a file as a sequence of cells with a
position; `NameMap`, a directory as a map from names to files; `FlatMap`, page
tables as a map from pages to frames; `LineHistory`, a line and a list of lines
to go back to.

What would be worth proving beyond section 5: the invariants of a file's handle
(position inside the file, own sectors only) and its refinement of `ByteFile`.

## 3. What is modelled

### `Pmm` - the page allocator

State: `marked` is `bitmap[]`, as the set of the numbers of its set bits;
`free_pages` is the counter, modulo `Word`. `mmap` is the memory map of this
boot, `workload` the run lengths the clients use, `held[c]` what client `c` was
given and has not given back: the pages the callers think are theirs.

`Init` is `pmm_init`, computed with the masks and the `memset` the code uses
(`ClearedByRegion`), bit for bit: a head mask that does not look at the end of
the region, a `memset` that leaves out the last byte, and a tail mask that is
used only if the head mask was on the last byte. `AllocPage`, `AllocBlocks` and
`Free` are the operations; an allocation that fails changes nothing and is a
stutter. `SetByRun` is the marking of a run, again with the masks as they are.
`Candidates` is the search of `pmm_alloc_page`, with the address check that
`pmm_alloc_blocks` does not have.

Abstracted: contents of pages (`pmm_alloc_zpage` is `pmm_alloc_page`), printing,
and the addresses, which are page numbers. `free_pages` is used modulo `Word`, a
small power of two, so that drift stays finite.

### `Heap` - `kmalloc` and `kfree`

Every byte of the heap is a value: unwritten, part of a size field, part of the
magic number, zeroed, or a stamp a caller wrote. `blocks` is what the callers
know of their blocks. `Kfree` reads the size from the header as it is in memory
and zeroes that many bytes; it may be applied to a block that was freed before.
(Its `HeapInit`, `HeapNext`, `HeapSpec`, and those of `Paging`, have names of
their own because `MemoryProofs` extends `Pmm`, `Heap` and `Paging` together.)

### `FatTable` - the table and the directory on the disk

State: `fat1` and `fat2`, the two copies of the table on the disk; `dir`, the
first cluster in each slot of the root directory; `handle[h]`, the
`first_cluster` and `current_cluster` of an open file; `op`, the operation in
progress: the table entry being written and what its function goes on to do.

Each sector write is a step (`WriteFat1`, `WriteFat2`, `AddEntry`,
`RemoveEntry`); between any two of them a transfer may fail (`WriteFails`,
`ReadFails`) or the machine stop (`Crash`). `Continue` is the control of
`allocate_cluster_chain`, `free_cluster_chain` and `fat32_write` after a table
write that succeeded. The operations:

| action | code |
| --- | --- |
| `Create` | `fat32_create_file`, `fat32_create_dir`, and `fat32_open` in a creating mode |
| `AddEntry` | `add_directory_entry`, and the release of the cluster if it fails |
| `Delete`, `RemoveEntry` | `fat32_delete_file`, `fat32_remove_dir` |
| `Open`, `Close` | `fat32_open` of a file that exists, `fat32_close` |
| `WriteOn`, `ReadOn` | the cluster boundary in `fat32_write` and `fat32_read` |
| `Seek`, `Truncate` | `fat32_seek`, `fat32_truncate` to a shorter length |

Three things in the code shape the module. `parent_cluster` is uninitialised
when a name is not found (`fat32.c:584`, `912`, `1103`), so where the entry goes
is a choice (`Parents`): to the root, to a cluster that is no directory, or to
one that cannot be read. `find_free_cluster` answers the bad-cluster mark on a
full disk and its callers test for 0, so `WriteOn` links that mark into the
chain. And the driver never extends the root directory, because the search for
its end leaves no cluster to link to.

`events` records what the code does not recover from (a failed transfer, a
crash, a file extended on a full disk, an entry written to the wrong place, a
file removed while open); the properties say which of these they survive.

### `ByteFile` and `FatFile` - the contents of a file

`ByteFile` is what a caller is promised: `content`, the file as it sees it;
`saved`, what a crash would leave of it; a `position`; `out`, what a read
returned. What has been written may reach the disk at any later write, a close
saves everything, a crash goes back to what is saved. `FatFile` is the code:
`handle` is `fat32_handle_t` with its cluster, its position, its one sector of
buffer and the dirty flag; `data`, `fat` and `size` are the disk's sectors, the
table and the size in the entry.

The loops of `fat32_read` and `fat32_write` carry nothing from one pass to the
next but the handle, so a pass is an action and a call is several of them:

| action | code |
| --- | --- |
| `Open`, `Close`, `CloseEntry` | `fat32_open`; `fat32_close`, whose buffer and entry are two writes |
| `Read`, `ReadPastChain` | a pass of `fat32_read` |
| `Write`, `WriteNew`, `WriteFull` | a pass of `fat32_write` inside the chain, at its end, and at its end on a full disk; `WriteIn` is what they share |
| `Seek`, `Truncate`, `Extend` | `fat32_seek`, `fat32_truncate` to fewer and to more bytes |
| `TransferFails`, `Crash`, `CrashInTruncate` | a failed transfer; the machine stops, anywhere or between the two halves of a truncation |

The refinement mapping (`File` in `FatFile`) reads the file from the disk,
through the chain, and lays the buffer over it if it is dirty (`Contents`); what
is saved is the same without the buffer and at the entry's length (`OnDisk`).
`IsByteFile` is the abstract specification under that mapping.

The code does not keep the promise in every case. `events` collects the calls
and failures after which it does not, and the mapping ends the promise
(`Break`) there:

| event | where |
| --- | --- |
| `unflushed` | a seek or a read while the buffer is dirty drops or overwrites it (`fat32.c:651`, `798`) |
| `appended` | a write at the end of the file, inside a sector that is not in the buffer, takes the sector for zeroes (`fat32.c:736`) |
| `boundary` | a seek to the start of a cluster (`fat32.c:796`) |
| `behind` | a truncation before the position: the handle's cluster and buffer stay where they were (`fat32.c:860`) |
| `extended` | a truncation to more bytes allocates nothing (`fat32.c:821`) |
| `full` | a full disk (`fat32.c:702`) |
| `io` | a failed transfer: the cluster has moved on, the position has not (`fat32.c:644`, `652`) |
| `torn` | a crash between the table and the entry of a truncation |

What is left is the sequential use of a file, which is how the test at
`kernel/kmain.c:582-596` uses it, reading and seeking in a file with nothing
unwritten, and truncating at or behind the position, with crashes everywhere.

### `NameMap` and `Directory` - names, copies and the listing

`NameMap` is what a caller is promised: a map from names to files, each with its
attributes and its cells. A call that answers TRUE has done what it is for; one
that answers FALSE has changed nothing, unless it is one that makes a file. A
copy is there with nothing in it until it ends, and then has all of the file and
what it takes to fill the last sector.

`Directory` is the code. State on the disk: `slots`, the entries of the root in
the order of its chain, `used`, the files that have a cluster, `data`, the cells
written to each. In memory: `mounted`, `handle`, the one file a caller has open,
`lister`, the handle the root is listed with, `job`, the copy, move or listing
in progress. `answer` is what a call told its caller; `seen` and `kept` are
history: what the listing returned, and which files of the first cluster have
been there since it began.

Nearly every call writes one sector of the directory, or none, and is one
action; the others are one action per pass of their loops:

| action | code |
| --- | --- |
| `Mount`, `Umount` | `fat32_mount`, `fat32_umount` |
| `Create`, `CreateAstray` | `fat32_create_file`, `fat32_create_dir`, and the file that comes of copying the root; the same with an entry outside the root or in a later cluster of it |
| `Open`, `OpenNew`, `Append1`, `Close` | `fat32_open` of a file there is and of one there is not; a cell of `fat32_write`; `fat32_close`, with the size it writes to the slot |
| `Delete` (`Erase`), `Rename`, `SetAttributes` | `fat32_delete_file` and `fat32_remove_dir`, `fat32_rename`, `fat32_set_file_attributes` |
| `Tell`, `Refuse` | what `fat32_get_file_info`, `fat32_find_file`, `fat32_file_exists` and `fat32_get_file_size` answer; FALSE from any call, before it changed anything |
| `StartCopy`, `CopySector`, `CopyEnds`, `CopyStops`, `MoveEnds` | `fat32_copy` and `fat32_move` |
| `OpenRoot`, `ReadDirReturns`, `ReadDirGoesOn`, `ReadDirEnds`, `ReadDirFails`, `CloseRoot` | `fat32_open` of the root and `fat32_read_dir`, a sector at a time |
| `ReadDirAstray` | the same after a sector of the table that could not be read: outside the root, with anything for an outcome |
| `TransferFails`, `Crash` | a transfer of a copy fails; the machine stops |

Names are sequences of character codes and `name_to_83` is computed, so that
different paths come to the same name and a first character may say "deleted".
The refinement mapping (`FileMap`, `OpenName`) finds each name the way the code
does. `sound` becomes false, and the promise ends, where the driver does not
cope: a search that answered "absent" because of a failed read, so that there
are two entries of a name; an entry that could not be marked after its chain
was freed; an entry written astray; a handle whose slot or file is another's.

A sector of the table that cannot be read reads as the bad-cluster mark, and
searches and listings go on with it as a cluster, that is with the first sectors
of the disk. For a listing that is `ReadDirAstray`, for an entry that is written
there `CreateAstray`; that a search finds its name there is left out.

What else a deleted entry holds is left out, since nothing reads it.

### `Ide` - the disk driver and its drives

State of the hardware: `medium`, what two drives hold; `drive`, their busy,
data-request and error bits with the command they are at; `selected` and `regs`,
the registers. `Serve`, `Store` and `Fail` are what a drive may do in its own
time, or never. A busy drive takes no notice of what is written to its
registers. State of the driver: `pc` and `polls`, where it is and what is left of
`timeout`; `call` and `result`, the call in progress and what it returned.

Each look at the status register and each group of register writes is a step, so
that a drive may finish, or fail, between any two. `Poll` is a look that learns
nothing; `NotReady`, `IsReady` and `NoDrq` end the two waits; `Select`,
`Params`, `Command`, `ReadData`, `WriteData` and `Flush` are the rest of
`ide_read_sectors` and `ide_write_sectors`. They differ as the code does: a read
goes on after a wait that failed, a write returns; a read selects the slave, a
write the master; the outcome of the flush is not looked at. Sectors are moved
whole. `asked` is a history variable: every sector some call was to write.

`events` has `timeout`, a wait that ran out and left the drive at work, and
`unreported`, a drive's failure at the last sector of a write or at the flush,
which the driver has no way to see. The properties say which of them they
survive.

### `Input` - interrupts, keyboard and mouse

Hardware: `irr`, `isr` and `masked`, the requests, services and masks of both
PICs (line 2 of the first is the second one, the mouse is line 12); `full`, the
one output buffer of the PS/2 controller, `last`, what reading it empty returns,
`reply` and `config`, its configuration byte; `kqueue`, `mqueue`, `held` and
`streaming`, what the devices have to send. The processor: `boot`, how far
`kmain` is in `Steps`; `registered`, `enabled`, and `stack`, the handlers in
progress. The drivers: `shift_pressed`, `caps_lock`, `mouse_cycle`,
`mouse_packet`.

| action | code |
| --- | --- |
| `PicRemap`, `TimerInit`, `KeyboardInit` | the calls of `kmain`, in its order |
| `AskConfig`, `GetConfig`, `MouseWrite`, `MouseRead`, `SetMasks` | `mouse_init`, one conversation with the port at a time |
| `Sti` | `kmain`'s own masks, and `sti` |
| `Take`, `Unhandled`, `SendEoi` | the interrupt gate, `idt_handler` without and after a handler, and `iretq` |
| `TimerCallback`, `KeyboardCallback`, `MouseHandler` | the handlers; the timer's has an end-of-interrupt command of its own |
| `LoadReply`, `LoadKey`, `LoadMouse`, `Strike`, `Move`, `Tick`, `Spurious` | what the devices, the user and the PICs do |

Where hardware differs the model leaves the choice open: whether the controller
raises its line for its own answers, and whether a PIC forgets a request whose
line falls before it is taken. The polling loops of `mouse_init` end with a byte,
or without one (`timeout`), or with one meant for somebody else (`stray`): a
key struck while the mouse is set up is read as its answer. What was misread as
the configuration is written back, so it may be any. A request left from that
conversation, or a shared buffer, may let the keyboard's handler read the
mouse's byte (`stolen`), since it does not look whose it is. With the buffer
empty, such a request makes it read the last byte once more. `events` has these
three; after any of them packets may be out of step for good, as the code has
nothing to put them back.

The firmware is taken to have left the keyboard and its interrupt on; nothing in
the kernel turns them on. A packet is three numbered bytes: what they say is
left out, and so is the tick count.

### `Terminal` - the shared cursor and the pointer

Places are counted in glyphs: `col` is `cursor_x` over 8 and `row` counts 18
pixels. `screen` says who drew the glyph at a place. `Put` is `term_putc`, and
what a round of `term_puts` does when nothing comes in between: glyph, end of
line, scroll check. A key (`Letter`, `Enter`, `Backspace`) is
`on_keyboard_pressed` with everything it prints, in one step, since interrupts
are off in it.

The main thread prints its greeting with interrupts on, and the cursor is no
`volatile` variable and not protected: `Look`, `Draw`, `Fetch`, `Store`, `Wrap`,
`Scroll` and `Newline` are what it reads, keeps in registers (`x`, `y`) and
writes back, with a choice wherever the compiler may use the register or the
variable. A key in between is lost from the cursor, or its glyph is drawn over;
`early` says that one was struck before the greeting was finished. The window is
there from the start: that a key struck between `sti` and
`draw_terminal_window` is painted over is one more case of `early`.

`on_mouse_update` puts back what it saved (`restore_mouse_background`), saves
what is behind the new place (`save_mouse_background`, in `saved`) and draws the
pointer there, two places wide and two high (`CursorAt`); where it can be is one
of `Spots`. Nothing else in the kernel knows of the pointer. Whatever is drawn
under it is undone by the next move, and a move in the middle of a glyph may save
half of it: `inWay` says that this has happened. The first packet may come
before the window is drawn, hence the initial states with a pointer under it.

### `Boot` - from the firmware to the kernel

`pc` is where the loader is. `image` and `base` are what `load_kernel` made of
the file; `modes`, `mode`, `refused` and `best_mode` the graphics protocol and
the loop over it; `screen` the size in the kernel's parameters. The firmware's
memory map is its `key` and its `count` of descriptors; `map_key`,
`memory_map_size` and `memory_map` are the loader's, a descriptor being the pair
of its map's key and its number, so that old ones are told from new ones.

| action | code |
| --- | --- |
| `LoadFile`, `LoadFileFails`, `PlaceKernel`, `PlaceFails` | `load_kernel` with `load_file` |
| `AllocParams`, `ChooseMode`, `SetMode`, `DescribeMode` | the first half of `boot_kernel` |
| `AllocMap`, `AskSize`, `AskSizeFails`, `GetMap`, `GetMapOverwrites`, `Exit` | the second half, with the rows doubled in `Exit` |
| `MapChanges` | the firmware allocates or frees: for its timers, or for the console the loader prints to |

Three things are left open because the code leaves them so. A failing call in
`load_file` is remarked on and execution goes on with a file that is not open or
a buffer that was given back (`undefined`). The memory map's buffer is allocated
before its size is known, so the map is written over whatever follows it:
something that matters (`GetMapOverwrites`) or not. And nobody looks at the
status of the `GetMemoryMap` in the loop: if the map has grown past the size of
the first call the buffer is left alone, and whether the key is told is up to
the firmware (`KeyIfTooSmall`); if it is, boot services end with an old map in
the buffer, if not, the loop never ends. Hence the premise of `MapInForce` and
of `Starts`: the map has not grown past that size. If it has shrunk, the map in
force comes first in the buffer and what the kernel reads behind it is left from
before.

### `FlatMap` and `Paging` - the page tables

`FlatMap` is what a caller of `vmm_map` relies on: a map from pages to the frame
each was last mapped to, with rights. A call maps its page, or does
nothing, which it may only as long as there is no memory for a table (`short`, which
is no page free, or no root); other pages stay as they are. A page has no more rights than
were asked for, and all of them as long as everybody asks for the same: upper
levels of the tree have the rights of whoever came first.

State of `Paging`: `free`, the clear bits of the allocator; `entry[f][i]`, what
a page that is a table has at an index, and `level[f]`, of which level it is;
`kernel_pml4` and `cr3`; `mapped`, how far the loops of `vmm_init` are; `call`,
the `vmm_map` in progress with its depth and the table it is at; `tlb`, what the
processor remembers. `asked` and `events` are history.

| action | code |
| --- | --- |
| `AllocRoot`, `InitMap`, `Switch` | `vmm_init`: the root, a call of its two loops, `vmm_switch_table` |
| `Map` (`Begin`) | a caller of `vmm_map` |
| `Descend`, `MakeTable`, `NoMemory` | `get_next_level`: the table is there, is made, cannot be made |
| `WriteEntry` | the last level, and `invlpg`: one step, which is an abstraction. On the one processor there is, a lookup between the two finds what was just stored, or what it remembered before |
| `FollowNull` | `vmm_map` with a table at address 0 |
| `Lookup` | the processor translates an address, at any time |
| `OthersAlloc`, `OthersFree` | other callers of the allocator, between calls |

`get_next_level` returns NULL when there is no page, and nobody looks: page 0 is
taken for a table, whatever it holds. If it holds something that looks like an
entry the kernel follows it to anywhere (`wild`); the properties hold until then
(`Sane`). The mapping takes `map` to be what the processor finds from the root
(`Translation`), and `request` to be the call in progress.

### `LineHistory`, `Shell` and `Strings`

`LineHistory` is a line and a list of lines: typing, erasing, entering, going
back and coming forward. `Shell` is `shell_process_char`: `input_buffer`, the
ring (`history`, `history_count`, `history_pos`), `history_index`, and
`escape_state`, how far an arrow's sequence has come. `output` is what a command
prints. At the other end is a VT100 (`terminal`: its columns, and whether a
character behind the last one goes to the next row or sticks in the last column):
`shown` is the row of the cursor, `cursor` its column, `above` the text of the full
rows before it, as one. `Put` prints on it, `Cleared` is `ESC [ K`, `Left` a
backspace, `Refresh` is `shell_refresh_line` and `Prompt` a prompt on a row of its
own. `astray` says that since the line was last put whole a character has stuck at
the margin, or one was erased in the first or last column of a row, which `\b`
cannot leave: `LineShown` promises nothing then, until the next prompt or line
brought back. `Escape`, `Escaped` and `Arrow` (with `Up` and `Down`) are the escape
sequences; `Enter` (`Save`, then `Answers`) saves and runs a line; `EnterNothing`,
`Erase`, `Type` and `Ignore` are the other keys. The mapping takes `lines` to be
the ring from its oldest line (`Listing`) and `back` to be the distance of
`history_index` from `history_count`.

Commands are abstracted to what they print: `history` the list, `echo` its
words, any other one line. `Argv` is the splitting into words.

`Strings` has no state: the numbers that `string.c`, `shell.c`, `serial.c` and
the loader's `wsprintf` write and read, `shell_printf` with widths and flags, the
comparisons and copies. Its assumptions, which TLC evaluates, say how they
belong together: `NumbersComeBack` and `SignsComeBack` (what one writes another
reads, and all write the same), `Columns` (the width of a directive), `StringsCompare`
and `CopyIsExact` (a `memcpy` moves its bytes exactly unless the areas overlap
the wrong way round).

### `Drawing` - pixels, glyphs, text

Operators without a state, too: `put_pixel`, `clear_screen`, `draw_rect`,
`put_char`, `put_chinese_char` as the sets of pixels they write in a frame buffer,
with coordinates that wrap; `utf8_to_unicode` and `print_string` as the glyphs
of a text and where they are. Assumptions: `RectsAreClipped`, `ClearIsComplete`,
`GlyphsAreWhole`, `CodePointsComeBack`, `TextIsWhole`, `CutTextGoesOn`.

## 4. What is checked

| run | properties | bounds |
| --- | --- | --- |
| `pmm` | `KernelAndBitmapSafe`, `SingleOwner`, `PagesComeBack`, `AlignedMapsAreSafe`, `CounterFollowsBitmap` | three clients, four memory maps of up to 48 pages, one with regions that end inside a byte, runs of 1, 3 and 7 |
| `pmm_long` | `RunsAreFree` is violated | the same, runs of 8 and 10 |
| `heap` | `BlocksApart`, `ContentsKept`, `HeadersKept` | 56 bytes, sizes 1, 8, 9, 17 and one that never fits |
| `fat_table` | `NoCycle`, `NoCrossLink`, `ReferredIsAllocated`, `NothingLost`, `MirrorLag`, `OpsFinish` | clusters 2..5, two sectors of table, two slots, one handle, one failure |
| `fat_file` | `IsByteFile`, `OwnSectorsOnly` | clusters 3..5, one or two sectors of two cells in each, files of up to five cells |
| `directory` | `IsNameMap`, `ListedOnce`, `KeptWhole` | names of one character, four paths, a root of two clusters of one sector of two entries, two files |
| `ide` | `GoodReadsAreRight`, `GoodWritesLand`, `OnlyAskedWritten`, `CallsReturn` | two drives of two sectors, calls of one and two sectors, two polls |
| `input` | `ServiceEnds`, `PacketsInStep`, `ShiftReleased`, `NoForeignEoi`, `BytesAreTaken` | two shift keys, one byte in the keyboard, packets of three |
| `terminal` | `TextFits`, `BlankAhead`, `PromptKept`, `PointerLeavesNoTrace` | five columns, three rows, a line of seven characters, four places for the pointer; for `Drawing` three frame buffers and texts of up to five characters |
| `boot` | `MapInForce`, `BestMode`, `Starts` | up to three modes of five sizes, maps of up to four descriptors, four changes |
| `paging` | `TablesApart`, `TlbFresh`, `IsFlatMap` | three levels of tables of two entries, six frames, two pages and two sets of rights, one translation remembered |
| `shell` | `LineShown`, `IsLineHistory` | lines of two characters after a prompt of one, terminals of two columns (that wrap, that stick) and of three (that wrap), a ring of three, four characters remembered (two while the screen is astray); for `Strings` eight bits and strings of three characters |

Type invariants are no run's business: those of `Pmm`, `Heap`, `Input`, `Ide`,
`Paging`, `Shell`, `Terminal` and `Directory` and, for what is on the disk, of
`FatTable` are proved; for the other modules they are stated for the reader.

Why the bounds are enough. A byte of the bitmap is eight pages, so the maps hold
two to four bytes above the kernel: runs that start and end inside a byte, cover
one and cross two all occur, and three clients fill the memory. `KernelPages` is
8 rather than 4096 and `PageBytes` 1 rather than 4096, so that the bitmap is
several pages long and has to be protected. `LastPage` lets `pmm_alloc_page`
meet the address check. The 56 bytes of heap hold three blocks of the smallest
size, and the sizes are just below, at and above a multiple of 8; the heap runs
full. The volume has three data clusters, enough for a chain to be cut in the
middle and to be extended while another file is deleted, and it runs full; the
table has two sectors of two entries each, so that the mirror may lag in one and
not in the other.

`fat_table` uses `FairSpec`: weak fairness of `Progress`, the steps of the
operation in progress. The kernel calls the driver and waits, and the driver
waits for nothing but the disk, whose waits are bounded
(`kernel/drivers/ide.c:53`, `74`), so an operation begun goes on; no fairness is
assumed of callers, failures or crashes. `OpsFinish` would not hold for an
entry written through a `parent_cluster` of 0, 1 or the bad-cluster mark:
`add_directory_entry` loops for ever there; `Parents` leaves it out and the
hazard list keeps it. The constraint `FewEvents` follows behaviours up to their
second unrecovered event; the first one and everything after it until the
second are explored. `CHECK_DEADLOCK FALSE`: with the disk full, the slots taken
and no handle open on anything the driver has nothing to do, as any server
without a request.

For contents, two cells in a sector distinguish its first cell, its last and a
write that ends inside; with one and with two sectors in a cluster both the next
sector of a cluster and the next cluster occur; five cells are three clusters of
one sector, or two of two with the last one half full. Other files hold any
subset of the other clusters. The constraint `UntilBroken` follows behaviours up
to the first event, since the promise ends there: the step that ends it is still
checked. After a `boundary` seek it goes on for the reads behind it.
The two stamps are interchangeable, and symmetry is used for them; no property
of that run is a liveness property.

For names, `a` and `A` are two paths for one name, `b` is another, and 0xE5 is
the character that marks a deleted entry. A root of two clusters of one sector
of two entries each has a first and a second sector, a boundary between
clusters where `fat32_read_dir` goes wrong, and it fills up. Two files are a
source and a target, and a third that is refused; the one the volume is
formatted with has three cells, a sector and a half, so that its copy ends in the
middle of one. `WhileSound` follows behaviours as long as the promise holds, and
checks the step that ends it. `OneHandle` keeps the listing and the open file
apart, which share nothing but the slots: every change to the slots during a
listing still happens by other calls. `FewAttributes` allows one entry with
attributes, and none while there is a handle: attributes only decide whether an
entry is found and opened, and one entry meets every such decision.

For the disk, a call of two sectors has a first and a last one, and every wait
of it may run out. `Timeout` is 1, for 99999: one look in vain, and a last one.
Drives that finish never, at once or in between are all there, since their steps
interleave with the looks. The buffers written are `<<v>>` and `<<v, w>>`, so
that a sector in the wrong place is told from one in the right place. `FairSpec`
is weak fairness of the driver alone: the processor executes its next
instruction. Nothing is assumed of the drives, so `CallsReturn` says that the
bounds on the polling loops are enough.

For input, two shift keys are what `ShiftReleased` needs: with one of them it
could not matter which was let go last. `caps_lock` and letters do not act on
anything the properties look at, so the run leaves those keys out. The controller
holds one byte and the keyboard keeps another, so that bytes of both devices
wait for each other, and every interrupt of one meets every state of the other.
`FewEvents` follows behaviours up to their second event. `FairSpec` is weak
fairness of the processor alone; the devices owe nothing. `Tick` does not come
again before the one before it was served and whoever waited meanwhile had its
turn: the timer has the highest priority and its handler takes microseconds of
the millisecond between ticks (`kernel/kmain.c:114`), so it does not starve the
others. Without that `BytesAreTaken` would fail for a processor that does
nothing but serve ticks.

For the terminal, six units of width are five columns and one outside, where a
narrow glyph, a wide one after it and a wide one that does not fit all occur;
the answers to commands are wider than a line and together longer than the
window, so that it wraps and scrolls in each of them, and the line of input is
longer than the row. The greeting has a narrow glyph, wide ones and a line feed.
Of the pointer's four places one is on the greeting, one overlaps with that, one
is across the window's right edge and one elsewhere.
The `VIEW` forgets the screen once a key was early or the pointer was drawn
over: no property looks at it from then on, and the screen has no influence on
what the terminal does. The texts of `Drawing` are made of a character of each
length of UTF-8 there are glyphs for, and 31 for the largest number lets every sum
that wraps do so.

For the boot loader, five sizes are one that is too small, the least, one as wide
and higher, the target and one that is larger: three modes in any order contain
every tie, and a mode behind the target that would beat it. Four changes let the
map grow, shrink back, and change without changing its length, before, between
and after the loader's calls. `FairSpec` is weak fairness of the loader, which
waits for nobody. `MaxChanges` stands for the firmware coming to rest, as it
must: a firmware that allocates between every two calls keeps the loader in its
loop for ever, and no loader could do better. `CHECK_DEADLOCK FALSE`, since the
loader ends: in the kernel, back in the firmware, or somewhere undefined.

For page tables, three levels have a root, a table between, and a last one; with
two entries in each, `vmm_init` maps page 0 and, for the frame buffer, page 2,
which share a table of the middle level. Page 0 is mapped anew, page 5 needs two
tables more: six in all, as many as there are frames. `vmm_init` starts with any
set of them free, so that memory runs out at the root, at each level, or never.
Two sets of rights are one that includes the other. The processor remembers one translation, of any page,
as long as it likes. `UntilWild` stops where page 0 was followed; `FewOthers` lets
other callers hold one page once there is a root. `CHECK_DEADLOCK FALSE`: with no
caller the kernel has nothing to map.

For the shell, lines of two characters hold a word, two characters of one, a
blank before or behind; the ring of three fills up and goes round. Escape
sequences are broken off at both places. `ShortLines` follows behaviours while
all the remembered lines together have four characters: three lines of different
lengths, longer ones followed by shorter ones and the reverse; two while the screen
is astray, when `LineShown` is silent. With the prompt a line is three
characters long at most: on two columns it goes on in a second row or sticks, on
three it fills its row and the cursor stays behind the last column. `WordsOfLines`
looks at the splitting alone, in lines of up to five characters with three
words. For `Strings` all numbers of eight bits stand for those of 32; nothing in
the code depends on the width but where it ends.

### What the code does otherwise

* `pmm_long`: a run that ends on a byte boundary leaves its last byte of the
  bitmap clear (`kernel/pmm.c:223-226`: the `memset` stops before the last
  byte, and the tail mask is not used). Its last eight pages are handed out
  again. The comments at lines 209 and 222 promise the whole run.

Visible in the modules, and no run of its own:

* Page allocator: `pmm_init` clears from the start of a region to the end of its
  byte whatever the length of the region (`kernel/pmm.c:84-85`), so reserved
  pages behind it become allocatable. `AlignedMapsAreSafe` is about the others.
* FAT32, clusters and positions: on a full disk `fat32_write` links the last
  cluster to the bad-cluster mark, since it tests for 0 (`fat32.c:702`) and
  `find_free_cluster` answers `0x0FFFFFF7` (line 156). After a seek to the start
  of a cluster a read returns what is in the cluster after it (lines 796, 643).
* FAT32, names: the root directory never grows (398-405). A search whose read
  fails answers "absent" (306-308), and a second entry of the name is made.
  `fat32_close` writes the size of its file to a slot that may be another file's
  by then (435). Read-only files cannot be opened for reading and can for
  writing (568). A name that begins with 0xE5 is created as a deleted entry.
  `/` is not stripped from a path, so `/TEST_DIR/test1.txt` and
  `/TEST_DIR/test2.txt` are one name and the copy of `kernel/kmain.c:661-669`
  has its source for a target. A copy's size is rounded up to 512, and a
  failed read is taken for its end (1224-1228). `fat32_read_dir` reads the first
  sector of a cluster it has left instead of that of the next one (1003).
  `fat32_remove_dir` does not ask whether the directory is empty, and
  `fat32_umount` forgets no handle. Copying `/` makes an empty file and answers
  TRUE (538, 1202). Where the table cannot be read a listing goes on outside the
  root (1008), and a search and a new entry do, too (342, 395).
* Disk: `ide_write_sectors` writes to the master (0xE0, `ide.c:177`), and
  `ide_init` and `ide_read_sectors` use `defult_device`, the slave (0xF0), so
  that with two drives nothing that was written is read back
  (`OnlyAskedWritten` of `Ide` says which drive changes).
* Page tables: a table that cannot be allocated is taken to be at address 0
  (`kernel/vmm.c:24`). The comment of line 16 gives every table "Present" and
  "Writable", the code the flags of the first caller. `framebuffer_size`, which
  `vmm_init` maps by, is never set by the loader.
* Shell: a line brought back that is shorter than the one shown leaves the end of
  the longer one on the screen behind the cursor (`kernel/shell.c:373-386`), and
  what was typed before is gone. A line and its prompt may be longer than a row
  (255 characters and 80 columns): the carriage return (line 376) and the
  backspace (line 492) stay in the cursor's row. So a line brought back leaves the
  earlier rows of the one before standing above it, a character in the last
  column is not erased where it stands, and erasing ends at the start of the row
  while the shell's line goes on getting shorter. On a terminal that does not
  wrap, all that is beyond the margin is one character. A line that begins with a blank has an empty
  first word. The last word there is room for keeps its blanks.
* Numbers and strings: `shell_printf` pads a negative number with zeros before
  its sign, and looks at the end of its buffer only between directives
  (`kernel/shell.c:207`, `286`). `shell_itoa` writes the sign last (nobody calls
  it); `lltoa` cuts to an `int`; `strncpy` with a source of `n` characters or more
  does not end where it should. The loader's callers use `%08x`
  (`boot/efi_utils.c:344`, `366`), which `wsprintf` does not know.
* Drawing: a rectangle whose edge wraps is not drawn at all; a glyph less than its
  width before the largest number passes the check (no caller gets there); a text
  that is cut inside a character is read past its end; characters of four bytes
  are four question marks.
* Boot loader: the kernel is told of twice as many rows as the mode has
  (`boot/efi_utils.c:697`), so that drawing goes past the frame buffer.
  `BestMode` says so: the size the kernel gets is that of the mode in force, or
  VGA's, with the rows doubled. (The pitch is doubled, too, and left out.) The
  firmware is to write the memory map to a buffer of no bytes (line 658).

## 5. What is proved

All theorems hold for every value of the constants that the modules' assumptions
allow.

`MemoryProofs`, the page allocator. `TypeCorrect`; `KernelAndBitmapStaySafe` (`KernelAndBitmapSafe`);
`PagesHaveOneOwner` (`SingleOwner`) and its action form `ShortRunsAreFree`;
`PagesDoComeBack` (`PagesComeBack`); `OnlyUsableOnAlignedMaps`
(`AlignedMapsAreSafe`). The argument for a single owner: what a client holds is
marked, because the masks cover a run of fewer than eight pages completely, and
an allocation takes clear bits only. For the kernel: `pmm_init` marks it, an
allocation starts above it, and a free above it is of a page that somebody held,
which the invariant says is not protected. The lemmas on the byte masks
(what `SetByRun` covers, what `ClearedByRegion` leaves) carry all of it.
`CounterIsExact` (`CounterFollowsBitmap`): taking a page, and giving back whatever
was given, changes the counter by as many bits as it changes in the bitmap,
modulo the width of the counter.

`MemoryProofs`, the heap. `BlocksStayApart`, `ContentsAreKept` and `HeadersAreKept`, under
`SizesFit`: no sum of the heap size and a requested size reaches `Word32`. The
inductive invariant is the conjunction of the three with the type: disjointness
needs the rounded size to cover header and request, contents need the header's
size to be right when a block is freed, and headers need blocks disjoint.

`FatTableProofs`. `DiskTypeCorrect`; `ChainsEnd` (`NoCycle`);
`ClustersHaveOneOwner` (`NoCrossLink`); `ReferredStaysAllocated`
(`ReferredIsAllocated`).
`NoCycle` holds in spite of every failure: the strengthening says a link is only
ever written to a cluster that was free when it was found, that is one that
points to nothing. The other two rest on `RefsInv`: the references of the disk
together with those the operation in progress still holds (the rest of a chain
being freed, the cluster being appended) are one to a cluster, and all but the
ones named there are allocated. `MirrorLagsBySectors` (`MirrorLag`): the tables
differ in at most one sector for each failure, and
the invariant (`Lag`) leaves out the sector just written to the first table, whose
copy is the operation's next step.

`NoClusterIsLost` (`NothingLost`): what is marked in the table is referred to. The
invariant is `Kept`: as long as nothing failed (`events = {}`), every allocated
cluster is referred to by the disk, by a handle or by the operation in progress
(`Claimed`, with `Held` for the latter); an operation that frees a chain holds
the part that is still to be freed, and one that cuts it the place where it is cut
(`NothingDropped`); and the first cluster of an open file is that of an entry
(`HeadsLive`). A truncation walks a chain to the place where it is cut; that each
cluster on the way is referred to is by induction on the steps of the walk
(`WalkLands`, see below).

`InputProofs`. `TypeCorrect`; `ServedOneAtATime`; `ServicesEnd` (`ServiceEnds`);
`EoiIsOwn` (`NoForeignEoi`). The invariant `OneAtATime` says that at most one
handler is in progress, that interrupts are off while it is, and that what is in service is
its own: the gates are interrupt gates, so nothing nests. The timer's second
end-of-interrupt command, the dispatcher's after a spurious interrupt and its
commands to both PICs then find nothing of anybody else's to end (`EoiEnds`).
With trap gates `EoiIsOwn` would not hold.
`PacketsStayInStep` (`PacketsInStep`): the byte in the controller and those the
mouse has still to send go on where the packet being put together stops
(`StreamInv`), from the moment the mouse was told to report. `ShiftIsReleased`
(`ShiftReleased`): of the shift bytes on their way the last one says what the
keys are, and with none the flag does (`ShiftInv`). A request left over makes
the handler read a byte it has already seen: `AgainInv` says that this is one that
changes nothing, being an answer to `mouse_init` or the byte acted upon last.

`IdeProofs`. `TypeCorrect`; `OnlyAskedIsWritten` (`OnlyAskedWritten`);
`GoodReadsAreTrue` (`GoodReadsAreRight`); `GoodWritesAreThere`
(`GoodWritesLand`). The invariant is the conjunction of what is known of the
events, the call, the drives, the medium, the sectors read and those stored.
Only the selected drive is ever busy, so a write's command never meets a busy one;
without a wait that ran out nobody is busy between calls, so that what
a read finds in the drive's buffer is of its own command.

`MemoryProofs`, the page tables. `PagingTypes`; `TreeOfTables` (`TablesApart`). The strengthening
is `CallInTree`: the call in progress is at a table of its level, and what is a
table is not free. A new table is a page that was free, so no entry pointed to
it; entries of the last level are no links, so that what callers map has no
influence on the tree.
`TlbStaysFresh` (`TlbFresh`) and `ImplementsFlatMap` (`IsFlatMap`): what the
processor finds, walking from the root, is what was last mapped, and every step of
`vmm_map` is a step of the flat map or none that it sees; a call that ends without
mapping its page does so while no page is free, or without a root. The invariant is
`MapInv`: besides the tree, a call is at the table the walk for its page comes
through (`CallOnItsWay`), all rights on a walk were asked for (`RightsAsked`), and
what the processor remembers is what the walk gives (`Remembered`). The lemmas say
what a write to one entry does to every walk: an entry of an upper level that was
empty gives no walk a result it did not have, and one of the last level is met by
the walks of one page only, since tables are in one place.

`ShellProofs`. `TypeCorrect`; `ScreenAgrees` (`LineShown`), for every prompt and
width of a row, on terminals that wrap and that stick: from each prompt and each
line brought back until the screen is `astray`, prompt and line are what the rows
hold before the cursor. The lemmas say where `Put` leaves the cursor and what is
before it, whether the text fits, fills its row or goes on; `ImplementsList`
(`IsLineHistory`): the shell implements the list, for every size of the ring and
of the line. Each key is a step of `LineHistory` under the mapping; the lemmas are
about what becomes of the list when a slot of the ring is written, and which
slot a place in the list is.

`BootProofs`. `KernelGetsMapInForce` (`MapInForce`). Keys are never used twice
(`KeysInv`), so a loader that holds the key in force has read the map since its
last change; `ReadInv` adds that it was read whole or did not fit.

`BestModeChosen` (`BestMode`): `ModeInv` says of the loop over the modes that
its choice is what the whole list up to `mode` gives (`SoFar`), less those that
were refused, and that the screen is the one that was set last. From then on the mode in force is the
only one remembered, and the kernel gets its size, or VGA's, with twice the rows.

`TerminalProofs`. `TerminalTypes` (`TypeOK`); `TextStaysInside` (`TextFits`);
`NothingIsOverwritten` (`BlankAhead`); `BackspaceSparesText` (`PromptKept`);
`PointerIsNoEraser` (`PointerLeavesNoTrace`). `CursorInv` holds whatever comes in
between and however the compiler keeps the cursor: it says at which steps of
`term_puts` the cursor may be past the end of a row or of the window, and that the
test to come will find out, whether it looks at the register or the variable.
`TermInv` is about what is drawn, as long as no key was early and the pointer was
let alone: the registers hold what the variables do, and of keys none came before
the greeting was out (`RegistersInv`); nothing is outside the window or from the
place on where the next glyph goes (`BlankInv`); and as far back as there are
characters typed there is no text (`TypedInv`), which is why taking one back
erases none. A handler's answer, of any length, is by induction on its characters
(`PutAllGood`): after each the cursor is where any character fits, with blanks
ahead.

`DirectoryProofs`. `DirectoryTypes` (`TypeInv`); `ListingIsComplete`
(`ListedOnce`); `ImplementsNameMap` (`IsNameMap`); `MoveKeepsFile`
(`KeptWhole`). They assume of the volume that it was formatted with entries of
different names and clusters (`FormattedAssumption`).
For the listing, `ListInv` says that of the slots of the first cluster behind the
reader each that was there all along has been returned, in the order of the slots.
For the refinement the invariant is `World`, which holds as long as `sound` does
(`DirInv`): the slots have each name once, before the first unused one; each file
belongs to one entry, and is as long as its entry says (`Fine`); the open handle
is on the one entry of its file, unless that was deleted, so that the size
`fat32_close` writes is that of its own file (`HandleOk`); and a copy or move in
progress is between two entries of different names that are still there, with as
much copied as its target says (`JobOk`). Without the last part a
pass of a copy could not be told from a change to another file. Each call has a
lemma that says what it does to the map (`MapOf`), and these rest on what a change
to one slot does to it: an entry that appears adds its name, one that goes takes
its name away, one that is renamed does both, and a change to the cells of a
file changes the one name it is under. With that every step is one of `NameMap`,
or none. `MoveKeepsFile` follows: the source stays
untouched until its target has all of its cells, and goes in one step.

Induction over data. The library's induction theorems cannot be used (section 6),
but that a well-founded set has least elements can (`WFMin`): `Smallest` says that
of the numbers, and `UpTo` that what holds of 0 and passes from each number to the
next holds of n. What is proved by them is about recursive functions (the hops of
a chain, the levels of a walk, the modes of a list, the characters of a text),
which `Walk`, `Span`, `Chosen` and `PutAll` define, and not about RECURSIVE operators.

## 6. What is only model-checked, and what is not modelled

Only model-checked:

* Liveness under fairness, which is out of the prover's reach: `OpsFinish`,
  `CallsReturn`, `BytesAreTaken`, `Starts`.
* `IsByteFile` and `OwnSectorsOnly`: their mapping follows chains and lays a buffer
  over what is on the disk; they are next in the plan.
* The assumptions of `Strings`, `Drawing` and `WordsOfLines`, on bounded inputs: the
  loops they are about are RECURSIVE operators and folds, of which nothing can be
  proved for every input. The library's induction theorems take an operator as
  a parameter, which the provers cannot instantiate; section 5 says what is done
  instead where it is needed.

The FAT modules take a transfer to succeed or to be reported as failed. `Ide`
shows where that is too much: a drive's failure at the only sector of a write
is not seen (`unreported`; the FAT driver writes sector by sector), a read
after a wait that ran out may return another command's sector, and reads and
writes go to different drives. The FAT modules say what happens above a disk
without these.

Not modelled:

* Memory: `CounterFollowsBitmap` says nothing of `pmm_alloc_blocks`, whose counter
  does drift; writing through the NULL bitmap to page 0 is modelled as the bitmap
  living there; sums that wrap in `kmalloc`; the heap's range, which is not
  reserved in the page bitmap, so `Heap` and `Pmm` are not composed (`mem_init` has
  no caller). Page 0 as a table is one outcome of many (`wild`).
* FAT32: subdirectories, which the driver creates but never searches, and their
  listing; mounting another volume, the volume's label and
  `fat32_print_info`; the arithmetic from clusters to sectors, which adds the start
  of the partition twice (lines 66, 98) and is right only where that is 0, as
  in the one mount the kernel has; a handle left open by a `fat32_open` that failed;
  two handles on one file's contents; a file whose first cluster is shared.
* Disk: requests for zero sectors, which nobody makes (the FAT driver asks for
  one at a time); a channel without drives; `ide_check_drive` and `ide_identify`,
  which only probe.
* Input and terminal: processor exceptions, which print and stop; the tick count
  and `sleep_ms`, which nobody calls; what a mouse packet says; keys other than
  characters, enter and backspace; the disabled tests of `kmain.c`.
* Shell: `hexdump`, `ls` and the resets, which print or stop the machine; a row of
  the terminal that scrolls away above.
* No property of a run depends on the detail of `Strings` and `Drawing`: what is
  said of them is in their assumptions, which TLC evaluates in the runs `shell` and
  `terminal`.
* Drawing, serial, strings: colours, the fonts' bitmaps, setting up the serial port
  and waiting for it.
* The boot loader's messages. Segment descriptors, a table written once. Types,
  headers and fonts, which are vendored, generated, or data.
