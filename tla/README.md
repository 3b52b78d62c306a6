# Models of the FSO programs

This directory is a TLA+ development about the programs of this repository, the
exercises (`Fichas/`) and homeworks (`HM1` to `HM4`) of an operating systems
course: what each program keeps, what it does in which order, what makes it
correct, checked with TLC on small instances and, for the properties that matter
most, proved with TLAPS for every size.

The repository is not one program. The part with most logic is the final project,
a file system on a simulated disk, and it gets most of the attention. The others that
have a state to keep correct, the threaded programs, the paging simulator, the shared
board and the shells, have a module each.

## 1. Inventory

| part | sources | state | operations | what is hard |
|---|---|---|---|---|
| file system | `HM4_Proj_Final_pares/proj/proj/fs.c` | superblock cached in `rootSB`; superblock, bitmap, directory blocks and data blocks on the disk | `fs_format`, `fs_mount`, `fs_umount`, `fs_lsdir`, `fs_debug`, `fs_open`, `fs_create`, `fs_read`, `fs_write` | calls of several disk writes and a program that can be killed between them; the cache; block boundaries; a full disk or directory |
| simulated disk | `disk.c`, `bitmap.c` | image file, stdio buffer, number of blocks | `disk_init`, `disk_read`, `disk_write`, `disk_close`, `bitmap_set`, `bitmap_get` | the last block written stays in the stdio buffer; the image can be reopened with another size |
| shell | `fso-sh.c` | a command, a host file and an offset while it copies | one call per command; `do_copyin`, `do_copyout` | a store that fills up in the middle of a copy; a last chunk shorter than, or as long as, the buffer |
| queue of blocks | `Fichas/Ficha06/lab6/lab6/blockqueue.c` | circular buffer, `used`, two indices, three semaphores | `queue_init`, `queue_put`, `queue_take` | every interleaving of the threads; asserts; a spin loop with the mutex taken |
| threaded copy | `lab6/mtcopy.c` | two files, two threads | `reader`, `writer`, `main`, `terminate` | termination by a block of size 0; any thread may end the process; errors of stdio that come late |
| paging simulator | `HM3/HW3/mmu.c` and its first version | page table, frame table, access bits, hand, statistics | translation, page fault, replacement | two tables that must stay inverse to each other; a loop that ends because it clears bits |
| bounded buffer | `Fichas/Ficha05/lab5/lab5/demo.c` | circular buffer, a mutex, two condition variables | `produz`, `consome`, the loops of `produtor` and `consumidor`, `main` | lost wake-ups; waits that return without a signal |
| shared board | `Fichas/Ficha07/.../stocks/` | a table in shared memory, two semaphores | `publish`, `check_board`, `print_board` | the two semaphores exclude nobody from each other: a reader in the middle of an update |
| counting in turn | `HM2/conta.c` and drafts | whose turn it is, a mutex | `counts_thread`, `counts` | letters stored while others are compared; progress only if the mutex is fair |
| parallel count | `Fichas/Ficha04/lab04/` | an array, a counter, a mutex | `count3s_thread`, `count3s` | lost updates; slices that must cover the array once |
| shells | `Fichas/Ficha02`, `Ficha03` (`sish.c`) | child processes, a pipe, the table of processes | commands, pipes, background, `exit` | `wait` returns any child; pipe ends left open; zombies that fill the table |
| command timing | `HM1/tempo*.c` | none | fork, exec, wait, print | only I/O |
| first file system | `Fichas/Ficha09/lab09/lab09/` | superblock, inodes | mount, open, read | does not compile as it is |
| demos | `Ficha01`, `Ficha06/timing.c`, `Ficha07/*.c`, `Ficha08/ls.c` | none | single library calls | only I/O |

How they interact: `fso-sh.c` calls `fs.c`, which calls `disk.c` for blocks and
`bitmap.c` for bits, all in one thread; the image file outlives the process.
`mtcopy.c` calls `blockqueue.c` from two threads. `stocks.c` and `client.c` share a
table in memory, and the shells their children and the pipes between them. The others
stand alone.

What makes the parts correct:

* file system: no block in two places and every block in use marked, whenever the
  program dies; entries and bytes that are listed exist; names are unique; the
  cache says what the disk says; without kills, a store of named byte sequences.
* queue: first in first out, bounded, no assert fails, nobody waits for ever.
* copy: the output is a beginning of the input; exit status 0 means all of it.
* paging: the tables are inverse to each other, FIFO with second chance.
* bounded buffer: the text comes out as it went in, and no signal is lost.
* shared board: a client that prints while the board is shifted misses no transaction.
* counting in turn, parallel count: every number once and in turn; the count of one thread.
* shells: the prompt comes back when the foreground command has ended and not before;
  no pipe end stays open that keeps a program from ending.

PROJECT.json lists the hazards, each at its line, with the properties that cover it.

## 2. Modules

| module | models or states | built on |
|---|---|---|
| `FsLayout` | on-disk structures, the functions of `fs.c` that only look at them | |
| `FileSystem` | `fs.c` over `disk.c` and `bitmap.c` | `FsLayout` |
| `FileStore` | what the file system promises: numbered, named byte sequences and free blocks | |
| `FsProperties` | invariants, the inductive invariant, the mapping to `FileStore` | `FileSystem`, `FileStore` |
| `FsDirectoryProofs` | proofs that hold of any image: types under every kill; owners of blocks, names, bounds, the cache, what a kill loses, on volumes whose format was completed | `FsProperties` |
| `FsStoreProofs` | proofs for disks of one size: contents; without kills, the bitmap and the refinement of `FileStore` | `FsDirectoryProofs` |
| `FsoShell` | `fso-sh.c` as a client of the store | `FileStore` |
| `BlockQueue` | `blockqueue.c` | |
| `BlockFifo` | what a queue promises | |
| `QueueProperties` | invariants and the mapping to `BlockFifo` | `BlockQueue`, `BlockFifo` |
| `RingProofs` | lemmas: a circular buffer is a sequence | |
| `QueueProofs` | proofs | `QueueProperties`, `RingProofs` |
| `MtCopy` | `mtcopy.c` | `BlockQueue` |
| `CopyProofs` | proofs about `mtcopy.c` and about the copy commands of `fso-sh.c` | `MtCopy`, `FsoShell`, `QueueProofs` |
| `PageTables` | tables and translation, common to both versions of the simulator | |
| `Mmu`, `MmuFirst` | replacement in `mmu.c` and in `mmu1ªversão.c` | `PageTables` |
| `SecondChance` | FIFO with second chance on a queue of pages | |
| `MmuProofs` | proofs | `Mmu` |
| `CharBuffer` | `demo.c` of lab 5 | |
| `CharBufferProperties` | properties and the mapping to `BlockFifo`, the same as lab 6's | `CharBuffer`, `BlockFifo` |
| `Turns` | `conta.c` of HM2 | |
| `CountThrees` | `lab-04p.c`, and what `lab-04s.c` returns | |
| `SharedBoard` | `stocks.c` and `client.c` of lab 7 | |
| `ProgramProofs` | proofs about these programs but the board | the modules above, `RingProofs` |
| `Processes` | fork, exec, pipe, wait and exit, and the programs the user runs | |
| `Sish`, `SishFirst` | the shells of lab 3 and of lab 2 | `Processes` |
| `ProcessProofs` | proofs about the board and the shells | `SharedBoard`, `Sish`, `SishFirst` |
| `MC...` | values for TLC | |

### File system

`disk` is what `disk_read` returns, `stable` what the image file holds.
`disk_read` and `disk_write` both start with `fseek`, which writes the stdio
buffer out; a write then stays in the buffer. So `stable` is `disk` without its
last write, until the next access. `Kill` puts `disk` back to `stable` and clears
everything in memory; `Quit` is `disk_close`, which writes the buffer; `Start` is
`disk_init` with any of the sizes, cutting the image or filling it with zeros.

A block is a C union. In the model it remembers how it was last written (`kind`)
and `AsSuper`, `AsBits`, `AsDir`, `AsData` are how the code reads it; a block of
zeros reads as an empty superblock, bitmap or directory. Where the code would read
as a directory, or as the bitmap, a block that was last written as something else, the
model stops in `pc = "astray"`: what follows depends on bytes it does not keep. That is the only
place where it stops. In particular it goes on when `alloc_block` hands out a metadata block:
the directory is written over the superblock or the bitmap (`CreateInNewBlock`, `CreateDirent`), and
`CreateSuper` puts the superblock back in block 0. An access to a block the disk does not have
aborts in `sanity_check` (`Abort`; `LoadFails`, `WriteBlock` and `Read` can meet it, through a stale
dirent in block 2 of a disk that was cut). Names are values; a name in `LongNames` is one of more
than `MAXFILENAME` characters, stored without its end and found by no `strcmp`.

A call that writes the disk several times is several actions, one for each
`disk_write`: `FormatSuper`, `FormatBitmap`; `CreateInBlock` or
`CreateInNewBlock`, `CreateDirent`, `CreateSuper` or `CreateAborts`; `WriteCall`,
then `WriteAlloc` and `WriteBlock` for each block, `WriteDirent`. `pc` says where
the call is and `frame` holds its arguments and locals. Every other call is one
action. `ret` is what the last call returned, for the refinement.

### Shell

`FsoShell` runs `do_copyin` and `do_copyout` as loops of calls to `FileStore`,
whose steps show how a write fails in the middle. `report` is what the function
returned and the number of bytes it printed. `fwrite` and `fclose` in `do_copyout` give bytes to
a host system that may fail to keep any of them (`HostKeeps`); the code looks at neither
result, and `lost` counts the bytes, for the property only. That the store behaves as
`FileStore` is what `ImplementsFileStore` checks of `fs.c`.

### Queue and copy

Every statement of `queue_put` and `queue_take` that another thread can notice is
an action: wait, enter, copy, update of the indices, leave, post. `at` is the
statement a thread is at. `MtCopy` puts the loops of `reader` and `writer` around
these steps and adds `main`, the failures of the library calls and `exit`.
`unflushed` is the stdio buffer of the output file.

### Paging

An address is its page. `os_handle_pagefault` is a step for every turn of its
loop: `UseFree`, `Spare`, `Evict`. `MmuFirst` is the version that searches for a
free frame first and only then turns the hand.

### Bounded buffer

`CharBuffer` follows a thread through `produz` and `consome` with `doing`: lock, test of
the while, wait, wake, use, signal, unlock. `pthread_cond_wait` gives the mutex back
(`Waits`) and takes it again (`Locks` from "wake"); a thread leaves "wait" because the
other signals (`Signals`) or unasked (`WakesUnasked`).

### Counting in turn and parallel count

`Turns` keeps in `lines` every line of the output. The loop of `counts_thread` is lock,
compare (`SaysHello` or `NotItsTurn`) and unlock; `StoresLetter` and `CreatesThread` are `counts`,
which stores letters without the mutex while the first threads compare. In `CountThrees`
`count++` is a read and a write (`Loads`, `Stores`), and the array is arbitrary.

### Shared board

An entry of the board is its sequence number and its deal, the rest of the transaction. Copying
one is two steps in either order. Printing one is two steps, the number first and then the deal, which
C leaves open: a client can see the number of one transaction with the deal of another that
was there later, and the other order, or a deal read in pieces, is not modelled. `NoneSkipped` is
about numbers only, so the order does not matter to it. `quiet` is a history variable: nothing was published since the client got its
semaphore. `stocks.c` does not compile as it is; the module says which two words it reads
otherwise.

### Shells

`Processes` is the kernel's side. A child is forked, running or a zombie and holds pipe
ends; a program ends by itself, at the end of its input, or when nobody can read its output,
and which of these it is depends on the pipe ends open in every process. `Pids` and `Pipes` are the limits
of the tables. `Sish` and `SishFirst` are the shells: what they read, each `fork`, `pipe`, `close`
and `wait`, and their ends, after which children go on without a parent.

## 3. Runs

| run | question | instance |
|---|---|---|
| `FsCrash` | on volumes whose format was completed (`SpecFormatted`), what is true of the running system and of the image whenever the program is killed, with the inductive invariant `ContentsInv` | 5 blocks of 6 bytes, 2 dirents to a block, 2 pointers to a dirent; 2 names |
| `FsAbort` | with every kill, also those that lose the bitmap of `fs_format`: types, blocks on the disk and metadata blocks that are never written as file data, when the assertion aborts, directories have two blocks, the size of the disk changes, `sanity_check` aborts and a name is too long to be found again | 1 dirent to a block, 2, 4 or 5 blocks, writes of up to two blocks, 2 names, one of them long |
| `FsStore` | without kills: does `fs.c` implement `FileStore`, leak no block, return from every call | as `FsCrash`, one payload of two kinds of bytes written at offsets 0, 2 and 4, so that writes overlap, grow a file and cross a block; reads of 5 bytes |
| `FsAssertion` | fs.c:169 `assert(ent == rootSB.rootdir.size / DIRENTSIZE - 1)`; violated | 1 dirent to a block |
| `FsMisplacedDirectory` | fs.c:333-335, the number `fs_open` returns denotes the entry; violated after a kill | as `FsCrash`, every kill |
| `FsLostBitmap` | fs.c:118 and 223, the directory is in an unused data block, not in block 0 or 1; violated after a kill that loses the bitmap of `fs_format` | 1 dirent to a block, 5 blocks, every kill |
| `Queue` | is `blockqueue.c` a bounded queue under every interleaving | 2 producers, 2 consumers, 2 slots, 2 blocks |
| `MtCopy` | does the copy end, with the right output and status | 4 files of 0 to 4 blocks, 2 slots |
| `Mmu` | tables, statistics, policy, both versions | 6 pages (2 never valid), 3 frames, 9 accesses |
| `Shell` | what `copyin` and `copyout` copy, whatever the host system fails to keep, and that they end | 2 names, 2 host files of up to 4 bytes, store of 2 blocks and 3 bytes to a file, buffer of 2 |
| `Programs` | the six programs of labs 2 to 5 and 7 and of HM2, one to a behaviour: is `demo.c` a queue that loses no wake-up, does `conta.c` count in turn and end, does `lab-04p.c` count what `lab-04s.c` counts, what do clients of the board see, do the two shells wait for their foreground command only, and does every program they start end that can | buffer of 2 and a text of 5; 3 threads that count to 2; every array of 4 with 1 to 4 threads; 3 rows, 2 clients, 3 transactions; 3 processes, 2 pipes, 9 lines: commands, missing programs, pipes of two and three, with and without background |
| `ShellCopyin` | fso-sh.c:57, returns 1 if ok, 0 if error; violated when the disk fills | 1 host file |

Why the bounds are enough. The file system's instances reach a full disk, a full
directory and a largest file, writes that start at, end at and cross a block
boundary, a dirent block with a free and with no free slot, and a second kill
after a restart; the full directory is reached in `FsAbort`, where two entries fill it, and a write
that would exceed the largest file is refused in `FsCrash` and `FsAbort`. 5 blocks are two for metadata, one for the directory and
two for data; two names and two pointers let two files or two places of one file
compete for a block. The queue fills up, empties and wraps around, with two threads
of each kind at every statement. Four valid pages compete for three frames, long enough for the hand to pass
every frame twice. The buffer of `demo.c` is full and empty with a thread waiting for either, and its
indices go round more than once. With three threads of `conta.c` one can take the mutex twice between
two others; of four numbers of threads three divide the array of `lab-04p.c`, so the refusal is reached too. Three
transactions on three rows leave entries unused, used and pushed out, and two clients are at
different entries of a shift. Three processes and two pipes let a command of the background
still run, or be a zombie, while a pipe is made, and fill both tables. `MaxBlocks` bounds the disk, `MaxAccesses` the trace, `MaxTransactions` the file of transactions; the
other constants are sizes of the code, made small.

Deadlock is checked in `Queue`, `FsStore`, `Shell` and `Programs`; in the last the only step of a
program that has ended, or of a shell that has ended with all its children, is `Ended`, so one that stops before
its end is a deadlock (the board's clients never end). The other systems may stop: after `astray`, at the end of the
process, or at the end of the trace.

Symmetry: the names are interchangeable in `FsCrash`. In `FsAbort` one of them is longer, and
the runs with liveness properties use none.

Fairness. `FsStore`: weak fairness of the steps inside a call, because the only
thread of the program is running then. `Shell`: the same of the steps inside a
call or a copy. `Mmu`: of the page-fault loop. `MtCopy`: of every thread. A
semaphore wait under weak fairness is enough there: the file is finite, so a thread
cannot be overtaken at `m` for ever. `Programs`: of the threads of `demo.c` and `conta.c` and of their
`main`, weak; of taking the mutex, strong. In `demo.c` a thread may wake unasked and lock
and unlock again and again, and in `conta.c` a thread whose turn it is not does so by design, so
weak fairness would let the others wait for ever: strong fairness is what these programs need of
`pthread_mutex_lock`. Unasked wake-ups are never assumed to come. For the two shells of `Programs`: weak fairness of the
shell and of every child, which a scheduler that runs every runnable process gives. A shell at
the prompt waits for the user, and nothing is assumed of the user who types commands.

The paths FsStore leaves out: kills (a client that is killed sees what `FsCrash`
says) and directories of more than one block, which `fs.c` cannot build without
aborting (`FsAssertion`).

## 4. Proofs

All are about the specifications the runs check, for every value of the constants
allowed by the assumptions of their modules: `LayoutAssumption`, `ClientAssumption`,
`ShellAssumption`, `MmuAssumption`, `QueueAssumption`, `CopyAssumption`, `CharAssumption`,
`TurnAssumption`, `CountAssumption`, `BoardAssumption` and `ProcessAssumption`, which say that
sizes are natural numbers, positive where the code needs it, and that files are sequences; and
`EnoughLetters`, that the threads of `conta.c` have different letters, none of them `'\0'`.
(`Programs` chooses the program a behaviour is of; the theorems are
about each program by itself.)

### File system

`Spec` has every kill. The kills that lose the bitmap of `fs_format` leave a volume whose metadata blocks are
free, and of these volumes little can be promised (section 5, `FsLostBitmap`). `SpecFormatted` has all kills
but those: `Kill` only when the image has no superblock, or one with blocks 0 and 1 marked
(`MetadataMarked(stable)`). The theorems say which of the two they are about.

* `ImageInv` is inductive under `Spec` and gives `TypeCorrect` and `WritesNeverOverMetadata`
  (`WritesSpareMetadata`, checked by `FsAbort`): whatever kill there was, while `fs_write` runs both metadata blocks are
  marked, so it takes neither for a file. The reason: blocks are handed out from 0 on, so a block past the metadata
  can only have been handed out when both were marked (`MarkedFirst`), and marks are not taken away but
  by a directory written over the bitmap, which happens only when no such block is in use yet (`CreateMarked`). A dirent that
  `fs_write` accepts was read from a block past the metadata.

The rest is about `SpecFormatted`: three invariants, each with the one before it as its first conjunct (`FsCrash`
checks the third), then a fourth and a fifth that stand beside them, and the refinement they lead to.

* `SharingInv` (`FsDirectoryProofs!BlocksHaveOneOwner`) gives `ReferredBlocksMarked` and
  `BlocksNotShared`: every block referred to is marked, no block is in two places, none is a metadata block. Neither is
  inductive. `SharingInv` has the facts about the directory's blocks that make them so (`TypeInv`,
  `FsDirectoryProofs!DirectoryBlocksExist`: `ImageInv`; a formatted disk has its metadata marked (`FormatComplete`); so a
  directory block in use is past the metadata, in the cache and in both images (`RootOK`), and so is the block
  `fs_create` has taken (`InCreate`)). The pointers of
  all slots count, not only of valid ones, because `fs_create` makes valid a slot that may hold
  old pointers (`Sound`); this holds of the directory in memory and of both images, and the
  directory on the disk is a part of the one in memory (`CacheSound`); the block `fs_create`
  has just taken is marked and nobody holds it (`CallSound`); the dirent `fs_write` works on
  owns its blocks (`FrameSound`). The last is conditional, because after some kills
  `getDirentByInumber` reads a block that is not the directory's.
* `DirectoryInv` (`FsDirectoryProofs!DirectoryKeepsItsShape`) gives `NamesNotShared`,
  `SuperblockCached`, `ReferredBlocksExist` and `KillLosesLittle` (`FsAbort` checks `BlocksOnDisk`, the property of the
  third, also with the kills the theorem leaves out). It adds: every number stored
  lies on the disk (`Bounded`), also in slots that are not valid; names that can be found differ,
  also in entries the superblock does not count yet (`NamesDiffer`); cache and disk
  agree but for the entry being added (`Coherent`); the name `fs_create` is about to write is in no entry
  (`CreateFits`); the dirent in `fs_write`'s frame is the one on the disk but
  for blocks taken since (`WriteFits`); and what is on the image but not in the stdio buffer, call by
  call: while `fs_write` works the directory is all there, between calls one entry of it may be old
  (`LittleLost`).
* `ContentsInv` (`FsStoreProofs!ContentsKeepTheirShape`) gives `EntriesExist` and `BytesBelowSizeWritten`. It
  adds that every slot below the directory's size is valid and every byte below a valid file's size
  was written (`Complete`), and that `fs_write` has filled its file up to where it is
  (`WriteFills`). These theorems have a hypothesis, `DiskSizes = {n}`: the image is always opened with
  the same number of blocks. `disk_init` cuts a file that is longer than the disk it is asked for, so an
  image opened once with fewer blocks has lost what was beyond them, whatever `fs_mount` says
  afterwards; the first two invariants survive that, this one cannot. `fs_mount` refuses a volume of another
  size, so this is what a user does who wants to see the files again.
* `VolumeInv` (`FsStoreProofs!NoBlockLost`) gives `NoLeak`. The bitmap is exactly the
  metadata, the directory, the pointers of its slots and those of the call in progress (`BitmapExact`); slots
  that were never used have no pointers, and the directory is in block 2, where `fs_write` looks
  for it (`OneBlock`); an `fs_write` that has taken a block has taken the only one it lacked, past the
  end of the file, so it can only end by writing the dirent (`TakesOne`). The hypotheses are those
  without which it is false: no kill (`SpecNoCrash`); calls of at most a block, as one of more can fail after it
  took its first; the assertion of `add_dirent` holding (`[]AppendedIsLast`), as the abort leaves a new directory
  block marked; one size of the disk.
* `FsStoreProofs!KeepsThePromises`: `fs.c` implements `FileStore` (`ImplementsFileStore`), one step of
  the code at a time. The mapping of `FsProperties` reads the store off the disk: the
  files are the entries the superblock counts (`Files`; the one `fs_create` is adding does not count yet),
  the free blocks those the bitmap says (`Free`), the call in progress is its frame (`Request`). `ContentsInv`
  and `VolumeInv` tell what the directory and the bitmap look like, and `StoreInv` what only the mapping
  needs: the volume has the size of the disk, the entry appended has the name asked for and no bytes, and the bytes
  `fs_write` has passed are in the blocks of its dirent, where the client wanted them. There is a lemma for each
  call: a call that looks finds what the store has (`StoreOpen`, `StoreList`, `StoreRead`), and a call that is refused
  may be (`StoreCreateFails`, the second case of `StoreWriteBegins`). The first block of an `fs_create`, or the block of a
  `fs_write`, is one free block less (`TakesBlock`), and a call fails for lack of space only when
  none is left (`NoFreeBlock`). A copied block is the same bytes laid over the file and over no other
  (`StoreWriteSome`, with `WriteOthers`), and the dirent, when it is written at the end, makes the file grow
  by the bytes that were already there (`StoreWriteEnds`, with `WriteWhole`). The superblock makes the new
  file visible (`StoreCreateEnds`). On the way `NeverAstray` shows that no call takes a block for what it is not, or is
  beyond the disk.
  The hypotheses are those of `NoBlockLost`, the names all fit (a name that does not is created and never found), and
  `MaxBlocks <= BLOCKSIZE`: on a disk of more blocks two share a bit, and `alloc_block` says full
  when it is not. Section 5 has both; `FsStore` checks the refinement on an instance that meets all of them.

### Queue and copy

* `QueueProofs!QueueConsistent` and `QueueNeverOverrun`: at most one thread is in the
  buffer, every slot is counted by a semaphore, a thread or a block, and no assert fails. The argument
  counts threads: `At(S)` is the set of those at the statements `S`, and each step moves one thread
  from one set to another. `QueueIInv` adds to `QueueInv` that what is in the slots and in the
  arguments are blocks (`Contents`).
* `QueueProofs!QueueImplementsFifo`: each call takes effect on a first-in first-out queue
  when it updates the index. `RingProofs` has the step the proof turns on: between the get index and
  the put index a circular buffer is a sequence, a put appends to it, a take removes its head.
* `CopyProofs!CopiesInOrder` and `ExitZeroMeansCopied`: at every moment the output file, the stdio
  buffer, the block the writer has taken, the queue, the block the reader is giving and what it has not read,
  one after the other, are the input with the special block at its end (`CopyInv`). A step moves a block
  from one of these to the next; the two that do it in the queue are `QueuedPut` and
  `QueuedTake`, lemmas about `blockqueue.c` alone. Errors of the C library cut this sequence, which is why
  `ExitZeroCopied` speaks of runs without one and `OutputIsPrefix` of all.
* `CopyProofs!CopyinKeepsPrefix` and `CopyoutCopiesWhole`, of `fso-sh.c` on the abstract store: names
  stay different, and while a copy is under way the file written (or the host file) is exactly
  the other one up to the offset, the host file of `copyout` if no byte of it was lost (`CopyingIn`, `CopyingOut`). So what
  `copyout` promises is less than fso-sh.c:26 says (section 5): the whole file was read, and is
  there if the host system kept it. An `fs_write` in progress
  writes at the end of the file, so nothing shows of it until it returns, or when it fails.

### Paging

* `MmuProofs!MmuInvAlways`: the tables are inverse to each other (`TablesAgree`). What is
  missing to make it inductive is that the page of a fault is in no frame and that the hand
  stands at the first free frame while there is one (`MmuInv`, with `HandAtFree`).
* `MmuProofs!StatisticsFit`: a fault fills a frame or swaps a page out, never both.
* `MmuProofs!FifoWithSecondChance`: the queue of `SecondChance` is the ring of frames read from the hand
  on, without the free ones. To turn the hand past a referenced page moves the head of this queue to its end,
  to load a page at the hand and go on appends it: lemmas `QueueTurns` and `QueueLoads`. The
  proof needs that access bits are set on used frames only.
* `MmuProofs!SameAsFirstVersion`: `mmu.c` implements its first version, by a
  refinement mapping that keeps the first version's hand at 0 until memory is full.

### The other programs

* `ProgramProofs!SignalsNeverLost` and `CharsAreFifo`: the same of `demo.c` as of `blockqueue.c`, from
  `CharInv`: one thread inside the mutex (`OneInside`), `NoLostWakeup`, and the put index `ocupados`
  slots after the get index.
* `ProgramProofs!OutputInTurn`: a thread that compares a stored letter with one that is not stored
  yet finds them different, because a letter is not 0 (`LettersStored`); so only the thread whose
  turn it is prints. `Round(q)` adds what makes the number right: the threads before the current one have
  counted q + 1 times and the others q times.
* `ProgramProofs!ParallelCountExact`: the counter is the number of threes at positions some
  thread has passed (`Counted`), each of which lies in one slice; at the end they are all.
* `ProcessProofs!ClientsSkipNone`: numbers fall by at most one from an entry to the next and
  entries only grow (`Falling`); what is written of the entry `publish` is at equals the
  entry above it (`Shifting`); what a client has printed is at most what stands there now (`Reading`).
* `ProcessProofs!QuietClientsRight`: the board is exactly what the transactions make it, the rows below the
  one being written by one transaction more (`BoardExact`); and an undisturbed client at entry i
  of `check_board` has found an error exactly when fewer than i transactions are complete (`ClientChecks`).
* `ProcessProofs!WaitsForForeground` and `FirstWaitsForForeground`: from invariants that carry the pid
  from the fork (over the closing of the pipe, in lab 3) to the wait.

Only model-checked: everything under fairness (`CallsReturn`, `CopyEnds`,
`ProcessEnds`, `FaultEnds`, `TextPrinted`, `AllCounted`, `ProgramsEnd`, `PromptComesBack`), which the proof system
does not handle.

## 5. What the code does otherwise than it says

* fs.c:169: the seventeenth file aborts the program, after its entry is on the disk.
* fs.c:385 and 535: `fs_read` and `fs_write` look for the directory in blocks 2, 3, ...
  and not where the superblock says. A kill in the first `fs_create` is enough to
  make the two differ.
* fs.c:226: `fs_format` writes the superblock first and the bitmap last, and the bitmap stays in the stdio
  buffer until the next access. A kill at the prompt, after `fs_format` returned 1, leaves a superblock that mounts and a
  bitmap of zeros. The next `fs_create` gets block 0, writes the directory there and the superblock over it: the superblock
  is its own directory, and the file created is lost (`FsLostBitmap`).
* fs.c:129: one bit stands for block `i` and block `i + BLOCKSIZE`, so on a disk of more than
  `BLOCKSIZE` blocks `alloc_block` says full (fs.c:119) when it is not.
* fs.c:161 and 108: a name of more than `MAXFILENAME` characters is stored and never found, so it
  can be created again although fs.c:351 says it can't exist. One of exactly `MAXFILENAME` is stored without its end, and
  found only while the byte after it, the low byte of the file's size, is 0.
* fso-sh.c:86: a copy that stopped because the disk is full is reported as done.
* fso-sh.c:47 and 50: `copyout` looks at the results of neither `fwrite` nor `fclose`, so on a full host disk it returns 1
  and says all bytes were copied, although fso-sh.c:26 says 0 in case of error. `CopiedOutWhole` asks for the whole host file
  only when the host system kept every byte.
* mtcopy.c:44: `fread` never returns a negative number, so a read error ends
  the copy as if the file were over; mtcopy.c:67: the result of `fclose` is not
  looked at. `ExitZeroCopied` leaves both cases out (`failed`); `OutputIsPrefix` does not.
* stocks.c:88: clients should not see inconsistent tables. They do: `publish` and `print_board`
  take different semaphores, so a table can repeat a transaction or show the number of one
  with the deal of another. `NoneSkipped` is what remains true.

Other behaviour worth knowing, which no comment contradicts: `fs_lsdir` prints the slot in the
block, not the number; `do_copyout` empties the host file before it knows whether the other
exists; `fs_write` compares size + length, not offset + length, with the
largest file, so a file that is nearly full cannot be overwritten. `check_board` reports errors as long as two
entries or more are unused, and none with one unused entry (`QuietTableRight`). Background commands stay
zombies until a foreground command waits: when they fill the process table the shell of lab 3
ends with status 1, and that of lab 2 goes on but can fork nothing again, so it also never waits.
An empty line makes the shell of lab 3 read `argv[-1]` (sish.c:166), a blank one makes that of lab 2
compare a null pointer. With more than 191 threads the letters of `conta.c` go round,
and one may be 0 or another thread's: `EnoughLetters` excludes it. A second `stocks` finds the semaphores of the first and ends, as they are
opened with `O_EXCL`.

## 6. Not modelled

Parsing of command lines, messages and listings; errors of `fopen`, `ftruncate`
and `fseek` on the image; a disk of fewer than 2 blocks, which `disk_init` accepts and `fs_format` aborts on;
a name of exactly `MAXFILENAME` characters; a read error of the host file in `copyin` (`fread` returns 0, and
the copy ends as if the file did); the 32-bit product in `disk_init`; a second process on
the same image. In the queue, the length of a block beyond being 0 or not. In the paging
simulator, the offset inside a page and the messages. In the shells, how a line becomes words,
and signals. On the board, a client started before the board exists. In `demo.c`, the pauses.

Parts without a module:

* the file system of lab 9: `fs.c` does not compile (`dirent_load` calls `fs_read` with two arguments), so
  there is no program to be faithful to; what it would do to an image is only reading;
* `mmu - Cópia.c`, an unfinished copy of the simulator that does not compile, and `HM2.c` and
  `HM2_v2.c`, drafts of `conta.c`;
* `tempo*.c` of HM1: one child at a time, timed; the last version does not compile;
* the demos of labs 1, 6, 7 and 8: single library calls, no state to keep correct.

## 7. Plan

Done: the file system with its disk and shell, the queue and the copy, the paging simulator, the
bounded buffer, the board, the two counting programs, the shells of labs 2 and 3; the theorems of section 4.

Left:

* The file system of lab 9, if a version that compiles is added.
