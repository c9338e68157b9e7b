# ELF-DOS: a formal model

ELF-DOS is a single-tasking operating system for the CDP1802, written in
assembly, with its build tools in Python.  A kernel at `$0100` gives programs
some fifty entry points: a FAT12/FAT16 file system on several drives,
directories with long names, redirection, batch files, and a loader.  The BIOS
supplies the console and the sector transfers `f_ideread` and `f_idewrite`,
which may fail.  The kernel is linked, checked and split on the host, and its
upper half may be burned into ROM.

There are no threads and no interrupts.  What is hard here is not concurrency
but state that outlives a call and is shared by all of them: one cached FAT
sector for every drive, one directory iterator and one directory buffer for
every call, buffers and cursors in file control blocks, a heap whose
bookkeeping lies between the program's data; the memory below the stack, which
six routines reserve and give back; transfers that fail, or power that
fails, between any two of the sector writes an update takes; memory that
survives a reset; and text laid out by rules that interact.

This directory holds TLA+ models of the parts where that state lives, TLC runs
over small instances, and TLAPS proofs for any instance.

* `PROJECT.json` lists components, runs, mutants, the source lines every
  definition stands for, hazards, findings and theorems.
* To check a run: `tlc -workers 2 -config FatCache_two.cfg MCFatCache.tla`.
* To check the proofs: `tlapm M.tla` for `FatCacheProofs`, `FileIOProofs`,
  `DirectoryProofs`, `SessionProofs`, `MdvProofs`, `KernelImageProofs`,
  `Fat12Proofs` and `HeapProofs`.

## 1. The system

| component | source | state it keeps | operations | what makes it correct |
|---|---|---|---|---|
| FAT layer | `kernel/fat.asm` | `fat_cache`, its tag (`fat_csec`, `fat_cache_drive`), `fat_dirty`, the active BPB, `fat_next_free` | `fat_get`, `fat_set`, `fat_alloc`, `fat_flush`, `_switch_drive` | an ordered store of entries per volume; a cache hit is as good as a read; "disk full" is true |
| drive tables | `kernel/kinit.asm` | `drive_present`, `drive_bpb_table`, `cur_drive`, `drive_cur_dir` | `kernel_drive_invalidate`, `kernel_setdrive`, `kernel_setcurdir`; MOUNT, UMOUNT write the tables | nothing cached survives a change of the medium |
| open files | `kernel/file.asm` | the FCB (cursor, position, size, flags) and its one-sector buffer | `file_open`, `file_read`, `file_write`, `file_seek`, `file_close`, `file_delete` | a file is a sequence of bytes; no cluster has two owners, now or after a restart; none is lost |
| directories | `kernel/dir.asm`, `kernel/file.asm` | `dir_clust`, `dir_sect`, `dir_cur_lba`, `dir_eptr`, `dir_eleft`, the LFN being put together, `dir_buf` | `dir_open`, `dir_read`, `dir_save_state`, `dir_restore_state`, `dir_create`, `dir_remove`, `file_rename`, `file_setattr`, `file_touch`, `file_stat` | one change of the name tree per call; names unique; a listing misses and repeats nothing |
| paths | `kernel/path.asm`, `kernel/kinit.asm` | `cur_drive`, `drive_cur_dir` | `path_resolve` | a path leads to a directory of its own drive |
| loader, shell restart | `kernel/kinit.asm`, `kernel/loader.asm` | program area (`prog_size`, `mem_base`), argument block, error level | `run_loop`, `prog_run`, `prog_run_shell` | the shell always comes back, with its reservations intact |
| redirection, high memory | `kernel/redir.asm` | `mem_top`, the patched console vectors, a buffer, a file for each direction | `_redir_setup`, `_redir_teardown`, `_himem_reserve`, `_himem_release` | vectors and reservations restored on every exit; text arrives once and in order |
| batch files | `kernel/batch.asm`, `kernel/batch_mod.asm` | the batch file's position, arguments, the loaded module | `batch_start`, `batch_readline`, `batch_goto` | its memory and that of its arguments is its own while it runs, and given back |
| kernel build | `tools/check_kernel_margin.py`, `tools/split_kernel.py`, `tools/rom_info.py`, `Makefile`, `elfdos-sys.sh` | files that outlive a failed step of make; the sectors of the card; a ROM burned some time ago | link, check, split, install, burn | only what fits is passed; what is split is put together again |
| boot | `boot/*.asm`, `progs/sys.asm`, `progs/ksave.asm` | contiguous kernel sectors, image in non-volatile memory | MBR, `krnboot`, SYS, KSAVE | what boots is a whole kernel |
| Markdown viewer | `progs/mdv.asm`, `tools/mdvref.py` | the row being built and where it may be broken; the block being read; open emphasis and links | `put`, `finish`, `render_inline`, `line`, `flush` | no row too wide, nothing lost, every row can be shown alone |
| FAT12 prototype tools | `tools/fat12-proto/*.py` | a disk image as one FAT | read and write entries | they and the kernel mean the same bytes |
| libraries | `lib/*.asm` | heaps, environment, loaded modules, YMODEM sessions, edit lines | `malloc`, `free`, `mod_load`, send and receive, globbing | no overlap of blocks; a transfer completes or says it did not |
| programs | `progs/*.asm` | none in the kernel | FORMAT, CHKDSK, FDISK, COPY, XCOPY, shell, editors, ... | clients of the calls above |

**How they interact.**  Programs call the kernel through its jump table; one
call runs at a time, to its end.  The file and directory code switches to an
FCB's or a path's drive (`_switch_drive`), reads and writes data and directory
sectors directly, and reaches the FAT only through the FAT layer.  All of them
share the cached FAT sector, the BPB fields and the allocation hint; the
directory calls share iterator and `dir_buf`, also with a program that is in the
middle of listing a directory.  MOUNT and UMOUNT write the drive tables and tell
the kernel with `kernel_drive_invalidate`.

**What is hard to test** is listed with its lines under `hazards` in
`PROJECT.json`: stale cache tags and hints, flushes that fail half way, the order
of FAT, directory and data writes, cluster and sector boundaries, full disks,
iterators that are clobbered, read errors taken for ends.

## 2. Plan

| step | modules | what | state |
|---|---|---|---|
| 1 | `FatStore`, `FatCache`, proofs | the FAT layer as an ordered store | checked; all its safety properties and the refinement proved |
| 2 | `Volume`, `ByteFile`, `FileIO`, proofs | open files over that store | checked; all its safety properties and the refinement proved |
| 3 | `NameSpace`, `Directory` | directories over that store | checked; proved: types, that directories keep their clusters, that no scan meets junk, that names are unique |
| 4 | `Streams`, `Session`, proofs | reservations at the top of memory, redirection, loader, batch files and the kernel's loop as one machine: nesting and every error exit | checked; reservations, routing and the refinement proved |
| 5 | `Drives` | drive letters, `drive_cur_dir`, `path_resolve`, composed with MOUNT and UMOUNT | to do |
| 6 | `Heap`, proofs; `Bump`, `ModLoad`, `Ymodem`, `Glob` | `heap_malloc` in bytes: split, coalesce; then the bump heap, loaded modules, YMODEM sender and receiver over a line that loses and garbles, globbing over the shared iterator | `Heap` proved; the others to do |
| 7 | `Chkdsk`, `XCopy` | repair of the states that step 2 and 3 leave after failures; the walk of a tree with saved iterators | to do |
| 8 | `Fat12`, proofs | packing of FAT entries and the kind of a FAT, kernel against tools | proved; 8.3 names and checksums, clock words to do |
| 9 | `MdvWrap`, `MdvInline`, `Mdv`, proofs | the Markdown viewer | checked; the width of rows proved |
| 10 | `KernelLink`, `KernelImage`, proofs | link, check, split, install, burn, boot | checked; proved |

Abstract specifications: `FatStore` (an ordered store), `ByteFile` (files as byte
sequences), `NameSpace` (a tree of names), `Streams` (what a line types and
reads).  Theorems: for each of the components the type invariant and the one
safety invariant that its clients rely on; then the refinements.

## 3. The FAT layer: `FatCache` and `FatStore`

The state is the code's, variable for variable: `fat_csec`, `fat_cache`,
`fat_cache_drive`, `fat_dirty`, `fat_next_free`, `active_bpb_drive`, the active
BPB (`bpb`, the volume its fields describe), `drive_present`,
`drive_bpb_table`, and the disk with each FAT copy of each volume.  `call` holds
the registers of the call in progress; a call is one step per sector transfer or
change of the cache, because that is where a failure or a restart can come.  The
state of the cache decides which step is next, as in `_fat_load_sector`: a dirty
sector is flushed copy by copy (`WriteCopy`), the wanted one read (`LoadSector`),
and then it is a hit (`Get`, `Set`, `Probe`).

A FAT entry is two cells.  On FAT16 both are in one sector; a FAT12 entry may
straddle two and is then read and written in two parts, with an eviction between
them.  The twelve bits are not packed here (`Fat12` does that).

`FatStore` knows nothing of caches, drives and copies: a volatile and a durable
FAT per volume; the volatile one changes by one cell of the entry being stored,
the durable one is only ever replaced by the volatile one as a whole, a restart
goes back to the durable one.  So after a restart there are all updates up to some
moment and none after it.  The file and directory code relies on just that when
it calls `fat_flush` before it writes a directory entry, and `FileIO` and
`Directory` are written against this specification: `fat` and `fat_dur`.

| run | instance | shows |
|---|---|---|
| `FatCache_two` | two FAT12 volumes with 2 and 1 clusters on two drives, two copies of each FAT; mounts, remounts, unmounts, invalidations; one failing read, failing write or restart | `TypeOK`, `CacheCoherent`, `ReadsSeeWrites`, `FullMeansFull`, `CopiesAgree`, `IsFatStore`, `CallsReturn` |
| `FatCache_lossy` | a failing write | violated: `CleanMeansWritten` |
| `FatCache_remount` | a remount of a drive that is not the active one | violated: `AnswersTrue` |

*How far the properties reach.*  Two things are recorded in `faults`, which no
action looks at.  `lost`: `_switch_drive` has counted a sector as clean that it could
not write.  `stale`: MOUNT has given a drive another partition while the FAT sector
cached under the drive's tag was the old partition's.  `kernel_drive_invalidate` returns
at once when another drive is active, so the sector is kept (`"kept"`); if another
sector takes its place first, nothing has happened, and if the drive becomes active and
finds it, the old partition's entries are read and written as the new one's
(`"used"`).  From `lost` or `"used"` on (`Trouble`) nothing is promised; up to there
all properties hold, and so while a sector is kept and not used.  What the
code does in these two cases is shown by the two violated runs.  `CopiesAgree` does
not depend on `stale`, and ends with a restart, which may come between two copies.

*Bounds.*  One failing transfer or restart to a behaviour (`OneMishap`; the theorems have
no such bound), and no step after `Trouble`.  A cached sector has one tag; two drives and two
sectors are enough to hit, to miss, to evict, to find the tag of another drive and to keep
a sector over a remount.  The volumes differ
in size so that the shared hint points past the end of the smaller one.  One
straddling and one plain entry are the two cases of FAT12; the plain one is the
FAT16 case.

## 4. Open files: `FileIO` and `ByteFile`

`fat` and `fat_dur` are the FAT as `FatStore` gives it; `dirent` the entries'
first cluster and size on the disk; `data` the data sectors; `fcb` the control
blocks with `FCB_CCLUST`, `FCB_CSECT`, `FCB_BOFF`, `FCB_FPOS`, `FCB_FSIZE` and the
buffer with its valid flag (`file_write` writes a sector as soon as it has changed
it, so no buffer is ever dirty).  Actions follow the procedures: `SeekTo` is
`_fcb_seek_to`, with its detour over the byte before the target;
`Resolve` the pending step to the next cluster; `Advance` `_fcb_add_chunk` and
`_fcb_advance_after_chunk`; `file_write`'s first cluster (`WriteFirst`: allocate,
flush the FAT, note the number in the FCB), its growth by a cluster and its loop over
sectors; `file_close`'s four steps (size, trim, free, flush).

`ByteFile` is what a program sees: a file is a sequence of bytes, an open file a
position in it; a step reads or writes some bytes of one file and no step
changes another.

| run | instance | shows |
|---|---|---|
| `FileIO_bytes` | one file, one FCB, two clusters of two sectors of two bytes, requests of up to 2 bytes, one failing read | `TypeOK`, `CursorOK`, `NoLostClusters`, `IsByteFile`, `CallsReturn` |
| `FileIO_shared` | two files, two FCBs, two clusters of one byte, one failing read, and either one failing write or one restart | `CrashSafe`, `NoCrossLink`, `IsByteFile` |

*Bounds.*  Two bytes per sector and two sectors per cluster make the ends of a
byte, a sector and a cluster three different events, and a request of two bytes
crosses each of them, starts and ends in the middle of a sector.  Two clusters
are a file with one link, and a full disk.  `MaxMarks = 1`: at most one byte of
the disk and the buffers is not blank.  The kernel moves bytes without looking
at them, so a byte that ends up in the wrong place shows with one mark as well as
with several.  In `FileIO_shared` the volume is as small as two files can
compete for; the constraint `Either` drops what comes after a failing write and a
restart together, where the properties claim nothing.

*Files that a restart has cut short.*  `file_close` writes the entry before it flushes
the FAT, so a restart between the two leaves an entry with more bytes than its chain
has.  `file_open` does not look, and neither do `file_seek` and `file_read`: they take the mark
at the end of the chain for a cluster and go on in whatever sector that is.  Such files
are opened, read as far as they go, written and deleted like the others.  A walk that
would pass the end of the chain (`Reaches`, `GoesOn`) is the step `LeaveChain`; it sets
`adrift`, and the model ends there (`Unfollowed`).  `CursorOK` says that this does
not happen before the first restart; the other properties hold until it does.

*Assumptions.*  A file opened for writing is not open or deleted or renamed by
another FCB at that time (`Available`): the kernel keeps no table of open files
and leaves it to programs.  `file_write` does not test whether an FCB was opened for
writing, and is modelled as it is; a program that writes through one opened for reading
has the file to itself, too.
`fat_alloc` returns any free cluster, not the first from the hint.  A
directory sector and a data sector are written as a whole or not at all.  `Sync`,
by which the FAT layer may flush its sector at any moment, is taken only when a
restart is still to come, since nothing else sees it.

## 5. Directories: `Directory` and `NameSpace`

`slots` holds the sectors of the root and of the clusters, each a sequence of
entry slots: `End`, deleted, dot, an LFN slot, a short entry, or what a former
owner left (`Junk`).  `pos` is the iterator, `buf` is `dir_buf`, `call` what the
call in progress keeps, `list` a program that lists a directory and saves its
place between two `dir_read` calls.  A call is a scan (`Load`, `PassSector`,
`ScanEnds`, the `Found...` actions) and what follows it; creating an entry
(`_file_create`) chooses a short name, fills the sector that has no room, goes to
the next, grows the directory by a cluster, inserts; a rename inserts and then
marks the old entry; removing a directory scans it first and frees its chain at
the end.  A read that fails ends a scan as the end of the directory does
(`ScanFails`): the code has one outcome for both.

A call that fails between linking a cluster to a directory and clearing it, or a
restart then, leaves there what the cluster held before, and `dir_read` takes such
bytes for entries, whatever they are (`dir.asm:313`; `file.asm:2799` tells how it
happened).  What comes of it can be anything.  `JunkShows` says that a scan would run
into such a sector, `exposed` (history) that it has come to that, and the model ends
there (`Unfollowed`).  `NoJunk` says that it does not come to that while nothing
fails; `DirsSafe`, `IsNameSpace` and the theorems hold up to that moment.

`NameSpace` is a tree of names in which every call makes one change at once;
a rename makes two, the new name first.

| run | instance | shows |
|---|---|---|
| `Directory_calls` | 3 slots to a sector, 2 root sectors, 2 clusters of one sector; nothing fails | `TypeOK`, `NoJunk`, `NamesUnique`, `IsNameSpace`, `Answers`, `ListingRight` |
| `Directory_mishaps` | 2 slots, 2 root sectors, 2 clusters of two sectors; reads, writes and restarts that fail, as `Scenarios` says | `DirsSafe`, `IsNameSpace`, `CallsReturn` |
| `Directory_cluster` | long names of one beginning in a directory of two clusters | violated: `ShortNamesUnique` |
| `Directory_lost` | a rename in a root of two sectors with a failing read | violated: `RenameKeeps` |

*Bounds.*  A behaviour has one scenario, which says what calls and names its
programs use and how many transfers fail and restarts happen.  The scenarios
together cover every action; without them the product of all calls, names and
failures is out of reach.  With three slots a long name (two slots) fits once
into a sector and then no more, so sectors fill up, are passed and the directory
grows; with two slots it fills one.  Two of the names are long and cut to the
same short name.  `MaxTail` is 2, enough to find the first tail taken and the
second free.

*Assumptions.*  A failing read leaves the buffer as it was, the best case.  What
a first read that fails finds in buffer and position is any place where an earlier
scan can have stopped (`LeftBehind`).  LFN slots of a name are in one sector, as
`_file_create` puts them.
The search for collisions has no cap of 64 sectors.  A program does not remove
the directory it is listing.  Files have no clusters here, and a path is resolved.

## 6. The Markdown viewer: `MdvWrap`, `MdvInline`, `Mdv`

`tools/mdvref.py` calls itself a byte-exact model of MDV's renderer; it is what
is modelled.  `MdvWrap` is its `Wrap` and `Out`: a row under way (`row`), the
place where it may be broken (`row.brk`), the style that the terminal has and the
one wanted; `Put` is `Wrap.put` with its cases one by one, among them the break at
the last blank with the word carried to the next row (`PutAfterBreak`) and the
break within a word (`PutAfterSplit`).  `MdvInline` is `render_inline`, one turn of
its loop per step: escapes, code spans, emphasis with its search ahead
(`FindEmphClose`), links, images, autolinks.  `Mdv` is `Doc`: each line of a
document is classified (`LineKind`) and ends, begins or continues a block;
`flush` turns blocks into operations (`todo`), which are rendered in order.

A row's cells are characters and escape sequences; a character has a number
(`said`, history), so a property can say which characters a row shows, in what
order and in which style.  Characters are classes: a letter, a blank, each mark
the grammar knows, a control character, a continuation byte of UTF-8.

| run | instance | shows |
|---|---|---|
| `Mdv_docs` | 30,085 documents: each text over some alphabet up to a length, or three lines of every kind; rows of 5 columns | `RowsFit`, `TextFaithful`, `RowsStandAlone`, `WordsWhole`, `LettersKept`, `EmphasisCloses`, `Printed` |

*Bounds.*  `W = 5` and `RowBytes = 30` stand for 20 columns at least
(`mdvref.py:700`) and 900 bytes; `MaxIndent` and `MaxDigits` are 1 instead of 8 and
9.  What matters is that the widest prefix leaves a column for text
(`WidthAssumption`), that a text of eleven characters is broken twice, and that a
row can run out of bytes before it runs out of columns.  The alphabets are those
of one construct each, with every text over them: all ways in which its marks can
nest, cross or stay open.

*What the properties leave out.*  `EmphasisCloses` speaks of texts without links and
addresses and without three marks in a row (two words of one and two marks may meet, as in
`*a**b**`, but `***` opens or closes both styles at once), `LettersKept` of texts without
a link's target: section 13 says why.

## 7. From sources to a running kernel: `KernelLink`, `KernelImage`

`KernelLink` holds what is decided of a set of sources: the expressions
`check_kernel_margin.py` evaluates, the buffers it measures, its floor and ceiling
and the control blocks in a page (`MarginOK`); what the assembler and linker make
of the same sources (external); the constants as `split_kernel.py` reads them.
`KernelImage` is the machine: a developer edits sources, make links and checks
(and, run again, goes on after a failed check), `split_kernel` slices and counts,
the image is installed on the card or its upper half is burned; `krnboot` loads
sector by sector, tests whether `NVK_BASE` is RAM or ROM, places its stack, copies
the last sector through a buffer, looks for the signature and sets up the kernel's data
(`boot_init2`).  Of that, what it computes is not modelled but where it writes: to some of
the tables of drives and patched slots in the volatile region (`BootData`, any of
them), to the buffer it reads the partition table and the volumes into, and last to the
words below `PROG_BASE`: `IO_NBREAD_TARGET`, `BOOT_UNIT`, `IO_TYPE_TARGET`,
`IO_READ_TARGET` (`Relay`), which the check keeps free of the kernel.  A partition table or volume that cannot be read, or no shell, ends in
`Init2Fails`, with some of that written.
Memory keeps its contents over a reset, ROM over everything; a write to ROM starts
a write cycle, in which the chip cannot be read.

| run | instance | shows |
|---|---|---|
| `KernelImage` | 17 sets of sources, edited once, on 5 machines; memory of 64 addresses | `MarginHolds`, `LoadedAsLinked`, `NothingElseWritten` |

*Bounds.*  The memory map is the real one scaled down (sectors of 4 bytes, pages of
8): volatile region, relay words, `PROG_BASE`, krnboot, non-volatile region and ROM
in their order.  Each of the sources is laid out well or wrong in one way: over
the relay words, over krnboot, over `NVK_BASE`, beyond `NVK_TOP`, a control block
across a page, a buffer at the end, a krnboot that grew, no signature, constants
that only one of the tools can read.  One edit is enough for every pair of an older and a
newer set, on disk, card, RAM and ROM.  The machines have all of the upper region
in RAM, all in ROM, the ROM's edge in the middle of it, or a BIOS that is wrong about
where RAM ends.

*Assumptions.*  `SourceAssumption`: the linker gives a public name one address, and
assembler and check agree on the constants and lengths that are checked.
`MapAssumption`: the regions of `kernel.inc` and `memmap.inc` lie in their order,
the words from `IO_NBREAD_TARGET` ($0C8B) on more than a sector below krnboot
($4400 .. $4DFF), `NVK_BASE` ($BC40) above it; `IO_NBREAD_TARGET` is defined with
`PROG_BASE`, the only way the check sees it; and what `boot_init2` finds through
`DRIVE_DATA_PTR` and the jump table lies in the volatile region.  krnboot's own
variables and stack are left out of `touched`.  `MachineAssumption`: krnboot runs in RAM, and the BIOS counts that RAM (or so
little that krnboot gives up).  Programs that write into memory while they run are not
modelled.

## 8. FAT entries in bytes: `Fat12`

Pure operators.  `KernelGet` and `KernelSet` are `fat_get` and `fat_set` in bytes
and sectors, with the second sector that an entry over a boundary needs and the
half of a byte that two entries share; `RefGet` and `RefSet` are `sim12.py`'s
reference over the whole FAT; `Get12`, `Get16`, `Set16`, `IsFat12` are `fatx.py`'s;
`KernelCount` and `MaxClust` are krnboot's calculation, in words of 16, 24 and 32
bits, from which the kernel takes which FAT a volume has.  `sim12.py`, `simb7.py`
and `simswd.py` try these with random values in a CPU simulator; here the
agreement is proved for all of them, so there is no run.

## 9. The heap: `Heap`

`lib/heap_malloc.asm`, in bytes: `mem` is the arena with each block's SIZE and a
free block's NEXT in it, among the bytes a program writes (`Use`).  A call is one
step per block it looks at (`TooSmall`, `Below`) and one that changes the list
(`Split`, `HandOver`, `Insert` with both merges).  Arithmetic is that of 16-bit
registers.  `live`, `free` and `tiny` record what has been given out, what is in the
list, and that a block of 0 or 1 bytes has been cut off; no guard of the code reads
them.  A program may ask for any number of bytes, 0 included
(`heap_malloc.asm:57`).  The properties, `Apart`, `AllJoined`, `FailsRightly` and
`DataKept`, hold until `tiny`: a block too small for NEXT is given out, and
`heap_free` then writes over the block behind it (section 13).  A request of 0 or 1
that is refused, or is given a whole block, does no harm and is covered.  They are
proved (section 12) and so have no run; the constants are numbers and sets, and a
configuration with `Base = 248`, `Last = 261`, `Requests = {0, 1, 2, 3, 5}`,
`Data = {255}`, constrained to `~tiny`, has 1,046,334 states.

*Assumptions* (`ArenaOK`): address 0 is not in the arena, which has room for a
block; a program frees what it got, once, and writes within it.

## 10. From line to line: `Session` and `Streams`

`Session` is the kernel's loop.  `run_loop` clears the redirection slots
(`RunLoop`) and loads the shell, from the cached place of its entry or else by its
path, through `prog_run`; the shell takes a line from the keyboard or from the batch
file under way (`LastLine` is the line that is not there), starts a batch file
(`StartBatch`) or returns with the name of a program and of what its output and input
are (`ShellReturns`); `ProgRun` loads it; `_redir_setup` opens output and input
(`OpenOut` to `NoIn`, one action for each way it goes and each way it fails); the
program types, reads and reserves memory; `Teardown` is `_redir_teardown`.  A step is
what happens between two points at which something can fail.

Each variable is the code's: `mem_top` and `mem_base`, LOADER_ARGS's copy of `mem_top`
(`args_top`), what the batch file keeps, the flags and handles of the two directions,
the characters in `redir_obuf`, the three jump-table slots.  `fcbs` are the open
control blocks by address; the second lies where the code computes it, at `mem_top + 1`,
and a block across a page is refused as in `file_open`.  What the model adds is
what the code does not write down: where the shell put the arguments of a batch file
(`args_at`) and what a program has reserved (`own`).

`Streams` is what a command line with `>`, `>>` and `<` promises, without buffers, slots,
control blocks and memory: what is typed goes to the file the line names, once and in
order, what is read is that file's text, and the next line finds the files as they
were left.  A transfer that fails may cost as much of the end as one buffer.  The
mapping adds the buffer to the end of the file it will be written to (`Text`);
where a file is read is where the control block stands (`Pos`).

| run | instance | shows |
|---|---|---|
| `Session_lines` | 20 addresses, pages of 4; two files, two characters; shells of 3 and 9 bytes, programs of 2 and 12; one transfer that fails | `TypeOK`, `HimemSafe`, `VectorsMatch`, `IsStreams` |

*Bounds.*  The memory is the real one scaled down: a control block of 2 bytes and a
sector of 1, a buffer of 2 characters, paragraphs of 2, a module of 2 bytes that takes 5
because it begins on a page.  The
large shell leaves room for the module and not for the arguments, the large
program leaves room for a second control block only without a batch file, and is cut
short under one; the second control block would lie across a page under a batch
file with arguments, and not otherwise.  Three characters in both files together (`MaxText`)
are a buffer, flushed, and one more, or one to read beside a buffer written.  With one file more, or one more failure, nothing new
meets: a line has at most two files.  Symmetry: files and characters are
interchangeable.  524,641 states; deadlock is checked, and `Halt` is the loop
in which the kernel stays when there is no shell.

*Assumptions.*  `Machine`: the memory holds the batch module, which `/autoexec.bat` gets
before anything tests it.  Words do not wrap: the stack's 128 bytes lie above
`mem_top`, more than the rounding adds.  A program gives back what it has
reserved before it returns, has one reservation at a time, and starts no batch file.
The output and input of a line are different files.  A reset in the middle of a line
starts from the beginning and is not modelled.  A `file_close` that cannot rewrite
the entry belongs to `FileIO`.  A nested shell (the shell run as a program) is the one
thing that breaks the loader's assumption that its control block is idle when a batch
module is loaded; it is not modelled (section 13).

## 11. Fairness and the end of behaviours

The processor runs one call from its beginning to its end; programs run only
between calls.  So the one assumption is `WF_vars(Kernel)`: a kernel step that
can be taken is taken.  No fairness is assumed of programs, failures or
restarts.  `CallsReturn` says that each call ends, whichever transfers fail: the
scan of `fat_alloc` wraps once, a write on a full disk gives up, a scan of a
directory ends.  For MDV the assumption is `WF_vars(Work)`, for the same reason:
the program goes on while it has something to print; reading the next line is not
required.  `Printed` says that it gets done, for every text.  `Session` assumes no
fairness: a program may run for ever.

Deadlock is not checked where the system really stops: when a document has been
printed, and when every edit has been made and the machine has halted or hung.

## 12. What is proved

All theorems hold for every value of the constants that satisfies the
assumptions (`FatConstants`, `FileConstants`, `VolumeConstants`,
`WidthAssumption`, `SourceAssumption`, `SizeAssumption`, `MapAssumption`,
`MachineAssumption`, `Layout`, `Devices`, `Machine`), which TLC evaluates for
the instances, or, for `Heap`, `ArenaOK`, which the theorems name.

* `FatCacheProofs!TypeCorrect`: `Spec => []TypeOK`, with `CallOK` (which says
  what arguments each call in progress can have) to make it inductive: an entry
  is looked up only while a BPB is set, within its volume.
* `FatCacheProofs!AnswersRight`, `DiskFullTrue` and `CacheTrue`: `Spec => []P` for
  `ReadsSeeWrites`, `FullMeansFull` and `CacheCoherent`, for any mounts, remounts, failing
  transfers and restarts, until a switch ignores a failed flush or a sector kept over a
  remount is used (`Trouble`).  The invariant `SafeUntil` is types and, until then,
  `Coherent` and `CallProgress`.  `ReadsSeeWrites` says nothing
  of a cached sector that nobody has looked at yet; `CacheCoherent` does, for a sector
  that stays in the cache while drives come and go: clean means equal to the disk of
  the drive in its tag, unless a remount has kept it.  `CallProgress` is what a call has established so far (the
  cluster numbers `fat_alloc` has passed, the first half of an entry).
* `FatCacheProofs!CopiesTogether`: `Spec => []CopiesAgree`, for any number
  of copies, drives and failing writes, until a restart or a switch that ignores a failed flush
  (`Mild`).  The invariant `CopyInv` adds what a flush has done so far
  (`CopiesWritten`: the copies below `call.copy` hold the sector).
* `FatCacheProofs!ImplementsFatStore`: `Spec => IsFatStore`.  `Vol` maps the
  cached dirty sector onto the disk; each step is a `Put`, a `Sync`, a `Restart` or
  a stutter, failing writes and remounts included, until `Trouble`; after that `FatStore`
  allows anything.
* `FileIOProofs!FilesApart`: `Spec => []NoCrossLink`, and `RestartSafe`:
  `Spec => []CrashSafe`.  `IInv` adds to ownership in `fat` (`FatSole`) and on the disk
  (`DurSole`) that a cluster in a register (`call.c`) is in use and nobody's yet
  (`CallHolds`), and that a file being written has one FCB (`Exclusive`).
  `DurSole` is stronger than `CrashSafe`: it holds even for first clusters known
  only to an FCB, because `file_write` flushes the FAT when it allocates a first
  cluster, long before `file_close` writes the number into the entry.  Both hold until a
  cursor leaves a chain that a restart has left too short (`LeaveChain`); the files
  with such chains are open to every call before that.
* `FileIOProofs!CursorsAlways`: `Spec => []CursorOK`, for every size of sector and
  cluster and every length of chain, and `TypesAlways`, up to the limit `Either`.  The
  invariant `CursorInv` says of each open FCB that, before the first restart, its chain reaches as far as its size
  (`Covered`, and `EntriesLong` of the entries), which is why no cursor leaves it; that its cluster is the one of that number in its chain (`Placed`) and
  that a cursor behind the last sector has nothing loaded (`Steady`); of the call in
  progress where its FCB stands (`Working`).  A read, a write or a seek moves along
  the chain; what others do to `fat` leaves the chain alone, because of
  `FilesApart`'s invariant.
* `FileIOProofs!NothingLost`: `Spec => []NoLostClusters`, for any history in which
  nothing failed and nothing was restarted.  The invariant `LostInv` accounts for each
  cluster in use: it is in a file's chain or in a register of the call in progress
  (`Held`).  That needs chains to be no longer than sizes (`Tight`), except while an FCB
  knows more than the entry (`Unsettled`: the size has changed, or `file_write` has
  linked a cluster and not written to it), and that what an entry and its FCB say fits
  together at each step of `file_close` (`Paired`).  `TightTrim` and `TightCapacity` are
  the arithmetic of the trim: the count of clusters that `file_close` keeps is right at
  the ends of clusters, too.
  What these proofs need of chains (`ChainSame`, `ChainShift`, `ChainEnds`, `CutChain`:
  a link set, cut or freed changes no chain that does not pass it) is proved by the
  smallest counterexample (`Least`).
* `FileIOProofs!ImplementsByteFile`: `Spec => IsByteFile`, for every size of sector,
  cluster, file and request, any number of files and FCBs, full volumes and reads that
  fail at any moment; after a write that fails or a restart `ByteFile` promises nothing
  (`Astray`).  `CursorInv` says where a cursor is; that is not enough, because the same
  byte is known in up to three places: the sector, a buffer, and, for the size
  and the first cluster, an FCB and a directory entry.  `BytesInv` says that they agree:
  a valid buffer is its sector (`Buffered`: also the buffers of other FCBs
  of the same file, which only readers can have); an FCB whose size has not changed says
  what its entry says, (`Matching`).  A file's bytes are a function of FAT,
  sectors, first cluster and size (`Image`), so a step that changes one of these is
  compared with each file: `ChainRemains` (no link below a file's size changes, since no
  chain meets another; of a trim, that it cuts behind the last byte), `ImageKept`,
  `SameContent` (every file that is not the call's), `WrittenByte` (of the one written
  to: the bytes of the chunk, and none besides, even in the sector that is rewritten
  around them).  Then each action is a step of `ByteFile` or one that nobody sees
  (`OpenSeen` to `DeleteSeen`).  TLC checked `BytesInv` on both runs before it was proved.
* `DirectoryProofs!TypesAlways`: `Spec => []TypeOK`, for every number of clusters,
  sectors to a cluster and slots to a sector, and whatever fails.  The invariant `Core`
  says of the iterator and of the positions that a call keeps that they are on a sector
  of a directory there is, inside it or just behind its end (`PosIn`, `Over`); of the call
  in progress what names, clusters and offsets each of its steps has (`CallIn`), and of a
  listing the same (`ListIn`).  It holds up to the moment junk shows, for the
  specification ends there.  What a sector number stands for (`SectorAtType`), which
  directories the tree can hold (`LiveIn`) and what a scan passes (`ScanStep`) are
  lemmas of their own.
* `DirectoryProofs!DirsSafeAlways`: `Spec => [](... => DirsSafe)`, for every size of
  volume, name and directory and whatever writes fail and restarts come, until junk
  shows (`exposed`), in every
  scenario without both `mkdir` and `rename`: a directory that is renamed has two
  names for a while, and after a restart possibly for good.  (The runs' scenarios keep
  the two apart as well.)  `DirsSafe` speaks of the directories a path leads to; the
  invariant speaks of the sectors.  `Volumes` says of all short entries anywhere that
  two never name one directory, and that the cluster an entry names is the first of a
  chain and begins with "." in both FATs, `fat` and `fat_dur`, in which chains never
  meet (`Chains`).  `Progress` says what each stage of a call relies on: a scan holds
  the sector it is on (`Searching`); an entry never goes over the "." of a directory,
  since a scan ends behind it and a sector that is reached by a link or cleared is
  nobody's first (`Room`, `Behind`); a new cluster has no name before it is clear and
  flushed (`Fresh`); a chain is freed when its name is gone (`Removing`).  `Alloc`,
  linking and freeing keep chains apart (`AllocKeeps`, `LinkKeeps`, `FreeKeeps`), and
  `LiveNamed` goes from the sectors to the paths.
* `DirectoryProofs!NoJunkAlways`: `Spec => [](... => NoJunk)`, for every size of volume,
  as long as nothing fails and the machine is not restarted (as in the run
  `Directory_calls`), again without both `mkdir` and `rename`.  Where `NoJunk` speaks of
  the sectors a scan reaches, the invariant `CleanInv` speaks of every sector of every
  cluster that is in use: it is clean, but for those that a call has still to
  clear (`Dirt`: of a cluster just allocated, the ones not yet written, and the sector
  the entry is about to go to).  So there is no junk behind an End either.  `Handled`
  keeps what a write that does not clear puts back (the buffer, read from a clean
  sector) and that a scan goes on in clusters that are in use.  Without
  the condition it is not true: a cluster whose clearing fails stays in use with junk in
  it, and when it was to make the directory longer, it is already linked in (`LinkNew`,
  `LinkUnflushed` come before `ClearSector`).
* `DirectoryProofs!NamesUniqueAlways`: `Spec => [](... => NamesUnique)`, for every size of
  volume, sector and directory and every set of names, as long as no read fails and the machine is not restarted, and until
  a failing write lets junk show (`exposed`), once more without both `mkdir` and
  `rename`.  `NamesUnique` speaks of what a scan finds; the invariant `NamesInv` speaks
  of all chains of clusters, from the sector of an entry to those behind it (`Before`).
  `Entered`: no two entries on one chain have one name (`Distinct`), the parts of a
  long name stand before their short entry (`Whole`), there is nothing of an entry
  behind an End (`Ended`) or in a free cluster, and no chain comes back to itself.  A
  scan has passed no entry of the name (`Seeking`), so where the new entry goes nothing of
  that name comes before, and behind that nothing at all (`Landing`); that goes for
  a sector that is only linked in, too.  A new cluster has nothing of an entry
  (`Newest`), a rename's old entry stays where it was found until it is marked (`Kept`),
  and that marking makes no other name readable (`Whole` again: parts of a long name go
  with their entry).  What lies before a sector is the least set of clusters closed
  against links (`LeadTo`), since a recursion over chains could not be reasoned about.
  (In the run `Directory_calls` writes do not fail either.)  A read
  that fails ends a scan like the end of a directory does (`Directory_lost` shows
  what comes of that).  After a restart a cluster may be free on the disk that has
  entries in it, because the flush of the FAT failed, and it is linked in before it
  is cleared.
* `SessionProofs!HimemAlways`: `Spec => []HimemSafe`, for every size of memory, page,
  module, shell, program and request.  The invariant `IInv` is that reservations nest
  (`Nested`): under the batch module lie the arguments, under those the second control
  block, under that the program's own memory, and `mem_top` is below all there are; each
  of the inner ones exists only while its owner runs, so whoever gives memory back
  is the last to have taken it.  `Below` says that the program loaded ends at
  `mem_base` whenever something can be reserved, which is why `_himem_reserve`'s one
  comparison is enough; `ShellPlain`, that the shell is never redirected, so that no
  second control block lies over the arguments that it is about to look for.
* `SessionProofs!VectorsAlways` and `TypesAlways`: `VectorsMatch` and `TypeOK`.  Both
  follow from `Routing`, whose invariant `RInv` says what each stage of a line leaves in
  flags, slots and open control blocks (`Routed`), which `_redir_setup` fills one
  direction at a time and its error exits undo, and that nothing is buffered unless
  there is an output file (`Quiet`).  `HimemAlways`'s invariant is needed for the control
  blocks: two that are open lie at different addresses.
* `SessionProofs!ImplementsStreams`: `Spec => IsStreams`, for every length of
  buffer.  A character put into the buffer is at the end of the file's text already, a
  flush is a stutter, and one that fails cuts off what was in the buffer.
* `MdvProofs!MdvRowsFit`: `Spec => []RowsFit`, for every set of documents and every
  width the assumption allows.  The invariant `IInv` says of the row under way that
  its columns are counted right, that the place to break lies in it, and that what
  would be carried over a break fits behind the prefix (`WrapInv`); of the blocks
  read and not yet printed that their prefixes are no wider than `MaxIndent` and
  `MaxDigits` allow (`DocOK`, `OpsOK`).
* `KernelImageProofs!MarginAlways`: `Spec => []MarginHolds`.  The invariant is that
  each image names one of the sources and was made from both its halves; what
  remains is that `MarginOK` implies `LaidOut`, page arithmetic for the control
  blocks included.  `CountsRight`: sectors and bytes of the last one, as
  `split_kernel` counts them, are what krnboot needs to copy just the image.
* `KernelImageProofs!LoadedAlways` and `WritesAlways`: `LoadedAsLinked` and
  `NothingElseWritten`.  Both follow from `KInv`: what is on the card, in ROM and in the
  burner's file is the image of one of the sources (`Installed`, `BurnedIs`, `KnvOK`),
  and `Boot` says how far krnboot has come: which sector its loops are at (`Loops`),
  which bytes are in place and what the buffer holds (`Contents`), what was written
  (`Touches`) and, with sources that passed the check, that krnboot and its stack are
  out of the way (`GoesOn`).  With a machine whose ROM begins inside the non-volatile
  region the copy may be wrong only while the chip is in a write cycle, and krnboot
  does not get past that.  The rest is arithmetic: `ImageIs` (slicing and padding
  move each byte to a known place of the file; the signature is found only at
  `NVK_BASE`, so `split_kernel`'s value of it is the assembler's), `VolSector` and
  `NvSector` (where a sector of the card comes from), `BurntIs` (the hex file's
  records tile the half), `WriteDoes` (a write does not wrap around).
* `Fat12Proofs`: `GetRight` and `SetRight`: kernel and tools read and write the same
  entries of every FAT12 FAT; `LinkKept`: what is written is read; `NeighbourKept`:
  the entry that shares a byte is not changed; `Fat16Right`; `KindRight`: krnboot's
  calculation in short words gives the tools' count of clusters, so both take a
  volume for FAT12 or not together, if its numbers fit (a root directory of whole
  sectors, a data area that begins below sector 65536, an end below 2^24).
* `HeapProofs!HeapApart`, `HeapJoined`, `HeapFails`, `HeapKeeps`: the four properties
  of section 9, until `tiny`.  `IInv` is what makes them inductive: free blocks, given blocks and the
  one being freed tile the arena end to end (`Tiled`), NEXT leads from each free
  block to the next in the order of addresses (`Chain`), no two free blocks are
  neighbours (`NotAdjacent`), and a search stands where `IsNext` says.  `Merge` and `Cut`
  say what joining and splitting do to a tiling, `ListWith`, `ListWithout` and
  `ListSwap` what they do to the list, `SizeSet` and `NextSet` that a write to one
  field changes no other.  That the list holds all free blocks is what `HeapFails`
  needs, that the blocks fill the arena what `HeapJoined` needs.

Beyond the assumptions on constants, how far a theorem reaches is in its own statement
or in the property it names.

**Only model-checked:** liveness (`CallsReturn`, `Printed`), since fairness and
`ENABLED` are beyond the prover; of directories
what calls and listings say (`IsNameSpace`, `Answers`, `ListingRight`);
of MDV what is shown rather than how wide it is (`TextFaithful`, `RowsStandAlone`,
`WordsWhole`, `LettersKept`, `EmphasisCloses`).

## 13. Where code and comments disagree

Four disagreements are kept as runs and described under `findings`:
`_switch_drive` forgets a sector it could not write; `kernel_drive_invalidate` keeps the
clean FAT sector of a drive that is not active over a MOUNT, where it is found by its tag;
a failing read in `file_rename` loses entries; the search for short names misses the first
clusters of a directory.

Others were seen with the model and are not kept as runs.  The model follows the
code in each of them:

* `_redir_setup`, when the second file cannot be opened, leaves K_TYPE's slot patched,
  and an output to NUL active, until `_redir_teardown` (`redir.asm:809`; its header says
  that neither slot is repatched, `kinit.asm:315` that the flags are clear).  Nothing
  is typed before the teardown.
* The second control block lies wherever `mem_top + 1` is.  `file_open` refuses it if it
  crosses a page (`file.asm:585`; the comment at `file.asm:554` says that every source
  aligns its blocks), so whether `< a > b` works depends on what is reserved.
* A program larger than the room for it is loaded as far as it goes, and run
  (`loader.asm:103`).
* `batch.asm:67` calls `prog_fcb` provably idle when a batch module is loaded; it is the
  output file of a shell that runs as a program with `>`.
* `file_close` clears DF after the last flush and so reports success when a write
  failed (`file.asm:3305`; its header promises DF = 1).
* The lookup before a new entry takes a read error for "not there"
  (`file.asm:644`), so an entry can be put where no scan comes.
* `dir_remove` takes a read error for "empty" (`file.asm:4650`; the comment at
  `file.asm:4541` says the opposite).
* A directory that grows has its new cluster linked and flushed before it is
  cleared (`file.asm:2796`); a failure in between leaves old contents in it.
* The new name of a rename and the old one refer to the same clusters until the
  second step; if that fails, deleting either frees the other's data
  (`file.asm:4715` calls it harmless).
* A clean 8.3 name is not compared with the short names made up for long ones
  (`file.asm:2277`; the comment at `file.asm:2222`).
* MDV: the mark that closes emphasis may be found inside a link's address or an
  autolink, which is then skipped; the emphasis stays on to the end of the block
  (`mdv.asm:41`: "an unmatched * or _ stays literal").  Of
  `***a*a***` the single mark closes one of the two styles, the last three are then printed as
  they are, and the other stays on (`mdvref.py:338`).  A code span over a link's `]`
  leaves the link's style on.
* A failed margin check leaves `kernel.bin`; make, run again, goes on without it
  (`Makefile:502`; `check_kernel_margin.py:21` "this check runs on every kernel
  build").  The check passes a kernel without signature or with contents behind
  `kvol_end`, which are cut; constants defined by other constants, and buffers that
  are not public, are not seen by it; `eval_expr` drops characters it does not know,
  where its docstring says that it raises.
* `nvhdr.asm:22`, `split_kernel.py:8` and `rom_info.py:10` say that RAM is loaded only
  when the signature is absent; krnboot always loads it.  A ROM burned from other
  sources is believed if its version is the same.
* krnboot rounds the number of root directory sectors down, `fatx.py` up.
* `heap_malloc.asm` lets a request of 0 succeed ("0 is legal", line 57), and of 1;
  `heap_free` writes NEXT over the next block's SIZE when such a block comes back
  (line 378), and a request that finds no better place cuts one off (187-213).  The
  theorems about the heap end at that moment (`tiny`).
* `bump_alloc`, with the arena filled to its last byte, takes the room left for 65535
  bytes and grants every later request (`heap_bump.asm:125`; its header promises
  RF = 0).

## 14. What is not modelled

Paths, drive letters and current directories, the bump heap, the calls into loaded
modules, YMODEM, line editing, the disk and file programs (section 2 says which are planned; the others are straight-line code and
terminal handling).  Of the shell and of batch files, what the lines say: variables,
labels, the search for a program, the expansion of arguments, echo; error
levels.  Of boot, what `boot_init2` computes (section 7 has where it writes), SYS and
KSAVE.  Of the host tools, the CPU simulator of `tools/fat12-proto`, its counts of
instructions and its reading of directories.  Within the modelled parts: sector
addresses (clusters and indices stand for LBAs), characters of names, times,
attributes other than read-only, MDV's pager and its buffers, the contents of
registers a call does not keep, and the console.
