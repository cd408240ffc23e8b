# A TLA+ model of zpaq-std

zpaq-std is a journaling, deduplicating archiver: each `add` appends one
*version* to a `.zpaq` archive and never changes the versions before it. The
program is one C++ file, `src/zpaq-std.cpp` (line numbers below are its own),
with third-party compressors beside it. The specifications in this directory
cover the parts in which a mistake loses data without a message: the deduplication
and the threads that compress the blocks of a version; the way a version gets onto the
disk while the process may be killed, run out of space, or be stopped by control-C; and
the three ways back, each with threads and a cache or a budget of its own: `x`, the
restore of an image (and `pp`), and `mount`.

Run `tlc -config <run>.cfg <module>` for the runs of `PROJECT.json`, and `tlapm`
on the eight modules with theorems (`*_proofs`, `SumLemmas`).

## 1. The system: inventory

| Component | State it keeps | Operations | Where |
|---|---|---|---|
| Semaphore | an int (or kernel count), a mutex, a condition | `init`, `wait`, `signal` | 113670-113745 |
| CompressJob | ring of `CJ` buffers (state, in, out, method), `front`, semaphores `full`/`compressed` per buffer, `empty`, `compressors`, `csize` | `appendz`, `compressThread`, `writeThread`, the joins of `add2`, `rp_compressore` of repack | 169420-169637, 229700-229850, 254868-254872, 256702-256709 |
| read_archive | where it reads, `block_offset`, `ver`, `ht`, `dt`, error counts | c, h, i blocks, damaged blocks, `-until`, incomplete transactions | 198395-200640 |
| add2, OutputArchive | the archive file, its write position, `header_pos`, `cdatasize`, `archive_end`, `g_archivefp` | append position, first header, flushes, tables and index, final header, `close`, cut of an older tail | 125088-125641, 254358-257230 |
| my_handler (control-C) | `g_cc_stop`, `g_flush_busy`, `g_transazionecompleta`, `g_starting_zpaqsize` | wait for the flush, take the handle, roll back, banner | 179447-179807 |
| trim | the archive | cut a dead tail (`-kill`) | 176568-176700 |
| HTIndex, fragmentation, deduplication | hash index of the fragments, the rolling hash, the block being filled | `find`, `update`, the loop of `add2` | 169665-169725, 254868-256700 |
| ExtractJob | state of every block (READY, WORKING), the one open output file, RAM budget and permits, fragments done per file | `decompressThread`, `franzpermesso`, full-disk flag, dates at the end | 171287-173315, 191971-192068 |
| JidacBackend (mount) | offsets of the blocks, sessions, history of every name | `scan`, folder of a version, data of a file | 163625-163979, 164013-164033 |
| MountCache | index of blocks (loading or loaded), LRU, free readers, prefetch queue | `fetch`, `prefetch`, `worker`, destructor; `mount_read` | 164201-164350, 164401-164466, 164790-164800 |
| franzimage, pp | bounded cache of blocks, job queue, blocks asked for, three conditions | `worker_routine`, `do_prefetch`, `wait_and_get_block`, `process_gc`, shutdown; pp's loop | 140521-141449, 241055-241412 |
| -chunk parts | parts of a strict size, the list that control-C deletes | `scrivipezzi`, `nuovopezzo`, roll back | 125362-125440, 179568-179616 |
| -append | header written first, sizes of the first pass | two passes and their comparison | 256793-256889 |
| backup, testbackup | numbered parts, their index, a pid file | create, check, stale owner | 193686-194513 |
| repack, crop, consolidate, sum... | whole archives | sequential commands | 229700 ff. |
| libzpaq | `Compressor` and `Decompresser` states, ZPAQL machine, predictors | compress, findBlock, decompress | 98600 ff. |
| USB test | a queue, a writer and a reader | write, verify | 224822 ff. |
| franzen, SFTP; console, listings, VSS; `compressors/` | ciphers, network, text, other people's code | | |

**How they interact.** `add2` hands filled blocks to `CompressJob` with
`appendz`; its `writeThread` writes them through `OutputArchive`, whose `flush`
is the only place where bytes reach the file. `add2` joins the threads, then pairs
`csize[i]` with the i-th block of its list to write the h blocks, writes the i blocks,
goes back to the header, closes and cuts. `my_handler` interrupts that from outside: it
stops flushes with a flag, waits for one in progress with a counter, takes the file
with an atomic exchange, and truncates. A later process sees only the file, through
`read_archive`, which also tells the next `add` where to write, or through the
`scan` of mount, which has a reader of its own. `x` gives the blocks of the
archive to threads that share the output file under `write_mutex`; pp and the restore
of an image have one main thread that writes, and workers that decompress ahead of it;
a mount has the threads of the file system, and workers that read ahead.

**What is hard.** A compressThread per buffer, a writer and the main thread on one mutex and
2n+2 semaphores, working on the buffers with the mutex released; a POSIX semaphore that tests its count once; a ring that must
keep an order nobody sends; a commit by rewriting a header in place, over what an
earlier dead `add` has left; writes whose result nobody looks at; a handler that runs
on the interrupted thread (POSIX) or on another one (Windows).

**What makes each component correct.**

- *Semaphore*: no signal is lost; nobody goes on without a count.
- *CompressJob*: an ordered bounded FIFO; a buffer has one owner; sizes match
  blocks; at the end all is written and every thread ends.
- *read_archive and add2*: a reader finds exactly the versions committed; a crash
  adds a whole version or none; an old version is never written over; after a success
  the archive reads without an error.
- *my_handler*: what the banner says is what a reader finds; the roll back is exact;
  one side closes the file.
- *HTIndex*: `find` returns the first fragment with that hash whenever there is one,
  through every growth; what files point to is what was read from them. *ExtractJob*: a file
  counted complete is whole; a block has one thread; the RAM is within its budget; damage
  costs only the files that have it. *mount*: its tree is read_archive's. *MountCache*: no
  block is loaded twice at once, a reader has one user, the bytes are counted right, a
  waiting read is never starved by prefetch.
  *franzimage, pp*: the main thread waits for ever for no block (it may: section 3); what it believes
  asked for is on its way; the bytes are counted right.
  *-chunk*: after control-C no part of the run remains. *-append*: a header that lies
  never survives. *backup*: one owner at a time.

The hazards of `PROJECT.json` list, line by line, what a test would hardly reach.

## 2. The modules

```
Semaphore  <-- CompressPipeline --INSTANCE--> BlockFifo   (abstract)
                 ^-- CompressPipeline_proofs
ArchiveFormat <----------- MountScan <-------------- Journal --INSTANCE--> VersionLog  (abstract)
                              ^-- Readers_proofs <------- Journal_proofs --> Journal
MountCache <-- MCMountCache      Extract <-- MCExtract      ImageCache <-- MCImageCache
    ^-- MountCache_proofs           ^-- Extract_proofs          ^-- ImageCache_proofs
Dedup <-- MCDedup
    ^-- Dedup_proofs
SumLemmas: used by Readers_proofs, MountCache_proofs, Extract_proofs, ImageCache_proofs, Dedup_proofs
```

| Module | Models | Abstractions |
|---|---|---|
| `Semaphore` | the class, as operators on a record (`val`, `blocked`, `woken`); `Build` picks POSIX or Windows | mutex sections are one step; no spurious wakeups |
| `CompressPipeline` | main thread, a compressThread per buffer, the writeThread; one action per critical section and per stretch of unlocked work | a block is its number; a compressed block is the sequence of blocks in it |
| `BlockFifo` | what the queue promises | |
| `ArchiveFormat` | the file as cells (a block is its tag and its body), and `read_archive` over it | one fragment per d block; an i block is one file; names are numbers |
| `Journal` | an `add`, step by step, with kills, full disk, control-C and `trim -kill`, and the next `add` over what is left | a flush is one block, in two steps; a position counts cells |
| `VersionLog` | what the archive promises | |
| `MountScan` | the scan of mount over the same cells, its folders, and the data of a file at the offsets it has reckoned | as `ArchiveFormat` |
| `MountCache` | the clients of `mount_read`, `fetch`, `prefetch`, the workers, the destructor | one open file per client; blocks are numbered as they follow each other in the file; a read is within one block |
| `Extract` | `decompressThread` from the open of the archive to its end, `franzpermesso` | a file is the sequence of its fragments, a write is a run of them; a block's cost in RAM is a number |
| `ImageCache` | `worker_routine`, and the main thread of pp and of the image | a cached block is its size; looking for the blocks ahead is one step, as only the main thread fills the queue |
| `Dedup` | `HTIndex`, bit for bit in its probes and its growth; the fragments and blocks of add | a hash stands for its data; where a block ends is a free choice |

*CompressPipeline and the code.* `q[i]` is `q[i]` of CompressJob: EMPTY, FULL,
COMPRESSING, COMPRESSED, WRITING; `mpc`, `cpc`, `wpc` are the places of the threads
between two critical sections. `sem.wait()` is a step that passes, or one that sleeps and
one that wakes: between signal and wakeup another thread may come first, as in the code.
`Compress` runs outside the lock and touches `in` and `out`; `WriterWrite` as well.
`MainFill` is appendz's loop from `front`, and where no buffer is EMPTY it drops the
block, as the code does with its assert compiled out. Client `"repack"` polls `csize`
before each appendz; Client `"add"` does not. `ProcessExits` is the `exit(1)` of both catches; that of
writeThread returns instead after a control-C (169632-169635), when the handler ends the process.

*Journal and the code.* `Begin` is a new process: it reads the file and seeks to where
`read_archive` stopped. `FlushBegin`/`FlushEnd` bracket what `flush_guard` counts;
`EndBody` seeks back and prepares the final header, `EndHeader`, `ReleaseHandle`,
`CloseArchive` and `Cut` are the end of `add2` in its order, `Complete` sets
`g_transazionecompleta`. `Kill` is a process killed at any step; the bytes handed to the
system stay. `versions` and `before` are history variables: what was committed, and the
file as this add found it. A version is *committed* once its final header is on the disk.

*Dedup and the code.* `ht` leaves out the unused `ht[0]`, so that `ht.size()` is
`HtSize`. `index` is the table `t` and `htsize`; `Probe` is `h ^ i` on the real bits, so that
collisions, the growth at three quarters and the second filling are those of the code. `Turn` is
one turn of the loop of update(); `Update` makes `Turns` of them, which are more than it needs, and a turn
after the last fragment does nothing.
`Store` is the end of a block (`newblock`), the fragment put in `sb`, `ht.push_back` and
`htinv.update()`; `-sa` (`sa_force`) may store a fragment the archive has. What ends a
block (types, redundancy, sizes) is left to choice, which is more than the code does.

*Extract and the code.* A thread's places are the open of the archive (`Open`), the search for
a READY block from its last one round (`Look`, `Find`), the header of the block, the permit
(`TakePermit`; a thread that finds no room sleeps and looks again), `Decompress` with its outcomes
(`Skip` for any exception, `Killed` for bad_alloc), and `write_mutex` with the runs of every file
of the block (`NextFile`, `WriteRun`, `OpenFails`, `WriteThrows`). A run of zeros is not
written unless it ends the file. A disk that fills up is met in three places. An fwrite that
sees it sets `huge_errore` (173229; `g_diskfull` it does not set, whatever the comment at 87746-87750
says). On POSIX the output is a buffered stream, and what fwrite has taken may be refused
later, by the flush in the fseeko before the next run (173228: nobody looks, the seek moves nothing, and
the run goes where the stream stands, `stands` and `From`) or in the fclose (122613-122624, its
result dropped): the file is in `lost`, counted and dated with a part missing, and nothing is said of it. And a file that
cannot be created on a full volume sets `g_diskfull`. Any other open that fails (172994, 173029) is passed
over with nothing set (173045): `unopened`; that file's count shows it at the end, where extract()
lists the files that are not complete. A thread without memory ends among the files, also at the close, when all is
written (`WriteThrows`).

*MountCache and the code.* Each action is a section under `mu_`, the decompression
between `FetchTake` and `FetchLoaded` or `FetchThrows` runs without it. A slow worker may
take a block whose read-ahead is stale: that is in the code, and in the model. Both
conditions may wake without a signal here (`FetchSpurious`, `WorkerSpurious`): the waits are loops.

*ImageCache and the code.* pp's loop (240940-241436) and the class franzimage (140784-141450)
are twins: the map names the lines of the second. Where they differ the model follows
pp: after a block that came out empty `process_gc` still runs (franzimage::leggi goes on without it,
141077-141082); `Collect` looks up a block that is listed twice and is gone, and ends in "crashed"
(franzimage looks first, 141430); and pp alone watches for a stall. A check every ten seconds, here
after any fragment, finds that a block was decompressed or done with (`moved`, `Progress`) or not
(`Warn`): then no block is asked for ahead (`MayLook`), and the third time in a row
all is reset, one lock after the other (`ClearCache`, `ClearJobs`, `AskAgain`, `Resume`), with the
workers at work in between. A signal wakes one sleeper.

## 3. What the runs check

| Run | Checks | Shows |
|---|---|---|
| `pipeline_add` | `TypeOK`, `AlwaysRoomToFill`, `SizesMatchBlocks`, `NothingLeftBehind`, `BufferHasOneOwner`, `RefinesFifo`, `Terminates` | on POSIX semaphores, with a codec or a write that may throw, the queue is an ordered bounded FIFO, drops nothing, and every thread ends, stolen counts included |
| `pipeline_windows` | `CompressorsBounded`, `RefinesLiveFifo` | on kernel semaphores at most `howmanythreads` blocks are compressed at once; driven by repack the FIFO makes progress |
| `journal_kills` | `TypeOK`, `ReaderSeesVersions`, `ReadsClean`, `MountSeesVersions`, `RefinesVersionLog` | killed anywhere (but see below), read_archive and mount find exactly the committed versions |
| `journal_media` | `FormerVersionsStay` | with kills and a disk that fills in the middle of any block, at every step the versions an add found are still there |
| `journal_controlc` | `BannerIsTrue`, `RollbackExact`, `ClosedOnce` | control-C at every step, its handler on the main thread: the banner is true, the roll back exact |
| `mount_cache` | `TypeOK`, `ReaderHasOneUser`, `LruIsWhatIsLoaded`, `BytesCounted`, `OneMaker`, `ReaderLeftForReads`, `PendingIsOnItsWay`, `Served` | no block is made twice, no reader is shared or lost, reads end and the mount can be taken down, whatever throws |
| `extract` | `TypeOK`, `CompleteIsWhole`, `BlockHasOneThread`, `RamWithinBudget`, `DamageCostsItsFilesOnly`, `Ends` | in whatever order blocks come, a complete file is whole, or something was said, or its own bytes were refused at a flush that nobody looks at; damage, and an open that fails, cost their own files; nobody waits for the RAM for ever |
| `image_cache` | `TypeOK`, `BytesCounted`, `PendingIsOnItsWay`, `ServedIfItFits`, `WorkersEnd` | through a reset and failed blocks the bytes are counted right and no block is awaited that nobody has been asked for; the main thread waits for ever in two cases only, the block does not fit (`HeldBack`) or every worker sleeps with another (`LockedOut`); the workers end |
| `dedup` | `TypeOK`, `FindsFirst`, `ReadsBack` | through collisions and two growths find() gives the first fragment with a hash, and files point to the data read from them |

Three runs end in a violation: each sets what the repository says of itself against
what the code does (the quotations are in the findings of `PROJECT.json`).

| Run | Violated | What happens |
|---|---|---|
| `mount_torn` | `MountKeepsComplete` | the c block of an add is cut by a full disk: mount's scan throws at it before the version before it, complete, is pushed, and that version is not there |
| `extract_memory` | `CountSaysWhich` | a thread runs out of memory after a run of fragments is counted and before it is written: all the fragments of the file are counted, and a part of it is missing |
| `image_stall` | `Served` | the awaited block does not fit beside those in the cache: its worker sleeps until there is room, the main thread, which alone makes room, waits for the block |

**Seen while modelling, not among the runs.** The properties are in the modules; the
change of a cfg that shows each is given.

- `AssertAfterWait` (`pipeline_add.cfg`): a thread that never slept takes the count of one
  that was woken; the assert of `Semaphore::wait` (113703, compiled out) fails, and one compressor
  too many runs. Nothing worse: the safety theorems below hold on this semaphore too.
- `ReaderSeesVersions` with `WindowKills = TRUE` (`journal_kills.cfg`): killed after the final
  header and before the cut of an older, longer tail, h and i blocks of the dead add follow
  the new version and are applied. The passing run leaves out exactly this window.
- `TailOverwritten` with `MediaFull = TRUE`: a c block cut by a full disk keeps its tag for ever
  under the versions that follow.
- `OutOfSpaceIsIncomplete` with `MediaFull = TRUE`: a full disk gives a committed version with holes,
  and not the incomplete transaction that message 97555 speaks of.
- `BannerIsTrue` with `Kills = TRUE` (`journal_controlc.cfg`): over an older tail, which
  `g_starting_zpaqsize` counts, the banner says the new version is gone while it is there.
- `ClosedOnce` with `ControlC = "other"`: with the handler on a thread of its own (Windows) both
  sides close the archive; its banner can also say "kept" of a version whose add goes on.
- `AnotherThreadTries` (`extract.cfg`, `Faults = {"memory"}`): the last thread gives its
  block back when the others have ended, and nobody tries it. The files are counted incomplete.
- A lost flush (`extract.cfg`, without `\/ p \in lost` in `CompleteIsWhole`): all fragments of a file are
  counted, it has its date, and its last bytes are not there; x says nothing.
- `LockedOut` (`image_cache.cfg`, without it in `ServedIfItFits`): the collection throws out a block that is
  needed again, both workers take later ones and sleep for room; the awaited block would fit, is
  first in the queue, and nobody takes it. The way out after 50 waits counts wake-ups, and there are none.
- `main = "crashed"` (`image_cache.cfg` with `Need` = 1, 2, 2, 2, 1, 3, 4, 5, `Size` = 3, 7, 3, 8, 8): a worker has a
  block in its hands while the reset clears the queue, the block is asked for again, used and collected,
  and the second copy comes late. Three accesses later, with the cache full, pp lists it as
  needed no more and as old, and looks it up when it is gone (241261): a null pointer.
- A spurious wakeup of `pthread_cond_wait` breaks the `if` of `Semaphore::wait` at once, so
  appendz finds no EMPTY buffer (169507); repack may still sleep in appendz although its polling is
  meant to avoid that (229719-229720), because `csize` grows before the buffer is EMPTY.

**Bounds, and why they are enough.** *Pipeline*: three buffers with four blocks: the ring
wraps, full and empty are both reached, and blocks of two turns lie in it at once. Two
compressors for three compressThreads: one must queue, so that a count can be stolen.
*Journal*: three adds: one that dies, one over its tail, one that reads both. Two d blocks and two
names: a dead add can be longer, as long as, and shorter than the one written over it, and
both of its tables may survive. A block is two cells, so that it can be cut in its middle;
the remainder of a write is at most one block. `journal_media` has one name and one d block:
the full disk can stop the write at any cell, and versions, tails and tables still meet.
The runs of `Journal` do not check for deadlock: after `MaxAdds` adds the system stops.

*MountCache*: two clients and two workers on two readers, so that prefetch may take all but
one; four blocks, a budget of two and a last block of three, so that the cache is over its
budget with one block alone; three reads. *Extract*: two threads, three blocks, two
files that share them: one goes back to an earlier block, one ends with a run of
zeros; a block larger than the whole budget; every fault at any point. Deadlock is not checked, because
`x` ends. `extract_memory` has the same files and lack of memory alone.
*ImageCache*: seven fragments, two blocks used again after others. The limit of 10 holds the first two
(3 and 7) and nothing more, and beside the first none of the later two (8): the collection throws
the first out when it is old, both workers can sleep with the later ones, and the first, wanted again, fits.
Three fragments in a row finish no block, so that two checks (`Warnings` 2 for the 3 of the code) can
find nothing moved and the reset comes, once (`Resets` 1). `ForceAfter` is 3 for 50: a worker
goes in by force, and can still sleep for ever when nobody wakes it. Only block 3 may fail, as any of
them is treated alike. `image_stall` has three blocks of 3, 4 and 3 with a limit of 7, the smallest where
the awaited one does not fit. *Dedup*: hashes that collide in the low two bits until
the table has grown twice, an archive of two fragments with one of unknown size, `Estimate` 1 so
that the table starts at two slots and grows to sixteen; five fragments read.

**Fairness.** `FairSpec` gives weak fairness to the main thread, to each compressThread
and to the writeThread: the scheduler runs a thread that stays able to run. A thread in
a wait that sleeps is able to run once it is signalled. No strong fairness is assumed. On the
POSIX semaphore a woken thread is always able to go on (it does not look at the count
again), so that a thief cannot starve it. `Ended`, the step of an ended process, is not fair.

In `MountCache` every client that is within a read, and every worker, is fair; that a client begins
a read is not. In `Extract` every thread is: the one that finds no room for its block
looks again every 20 ms (`franzpermesso`), so that it needs no signal. In `ImageCache` the main
thread as a whole and each worker are fair; a check for a stall is one of the main thread's choices, so that no
property can count on one. No spurious wakeup is taken to help a waiter there.

**Mutants.** Each property of each passing run has a change of one definition, the kind of
mistake an edit of the code would make (a missing end mark, a search from slot 0, a flush
that ignores the stop flag, a header that commits first), which makes that run fail.

## 4. What is proved

The theorems hold for every value of the constants, those with a condition on them under that
condition. Of the pipeline: any number of buffers,
compressors and blocks, both semaphores, both clients, with and without faults (assumptions
`PipelineAssumption` and `BuildAssumption`: at least one buffer and one compressor). Of the
others: `NamesAssumption`, `JournalAssumption`, `MountAssumption`, `ImageAssumption`,
`ExtractAssumption`, which say what the constants are, and that the sets of threads and readers are
finite and not empty where something is counted (`x` has at least one thread: 162064).

| Theorem | Module | States |
|---|---|---|
| `TypeCorrect` | CompressPipeline_proofs | `Spec => []TypeOK` |
| `BoundTheorem` | " | on kernel semaphores, `Spec => []CompressorsBounded` |
| `RoomTheorem` | " | `Spec => []AlwaysRoomToFill` |
| `OrderTheorem` | " | `Spec => []SizesMatchBlocks` |
| `EndTheorem` | " | `Spec => []NothingLeftBehind` |
| `OwnerTheorem` | " | `Spec => []BufferHasOneOwner` |
| `FifoTheorem` | " | `Spec => RefinesFifo`: the queue implements BlockFifo |
| `FormerTheorem` | Journal_proofs | `Spec => []FormerVersionsStay` |
| `ClosedOnceTheorem` | " | if the handler runs on the main thread, `Spec => []ClosedOnce` |
| `TypeTheorem` | " | `Spec => []TypeOK` |
| `ReaderTheorem` | " | `Calm => (Spec => []ReaderSeesVersions)` |
| `MountTheorem` | " | `Calm => (Spec => []MountSeesVersions)` |
| `CleanTheorem` | " | `Calm => (Spec => []ReadsClean)` |
| `BannerTheorem` | " | `Calm => (Spec => []BannerIsTrue)` |
| `RollbackTheorem` | " | `Calm => (Spec => []RollbackExact)` |
| `LogTheorem` | " | `Calm => (Spec => RefinesVersionLog)`: the archive implements VersionLog |
| `ReaderTheorem` | MountCache_proofs | `Spec => []ReaderHasOneUser` |
| `LeftTheorem` | " | `Spec => []ReaderLeftForReads` |
| `MakerTheorem` | " | `Spec => []OneMaker` |
| `LruTheorem` | " | `Spec => []LruIsWhatIsLoaded` |
| `PendingTheorem` | " | `Spec => []PendingIsOnItsWay` |
| `BytesTheorem` | " | `Spec => []BytesCounted` |
| `TypeTheorem` | " | `Spec => []TypeOK` |
| `PendingTheorem` | ImageCache_proofs | `Spec => []PendingIsOnItsWay` |
| `BytesTheorem` | " | `Spec => []BytesCounted` |
| `TypeTheorem` | " | `Spec => []TypeOK` |
| `BlockThreadTheorem` | Extract_proofs | `Spec => []BlockHasOneThread` |
| `PermitTheorem` | " | `Spec => []PermitsHold`: who holds a permit is counted |
| `RamTheorem` | " | `Spec => []RamWithinBudget` |
| `CompleteTheorem` | " | `Spec => []CompleteIsWhole` |
| `DamageTheorem` | " | `Spec => []DamageCostsItsFilesOnly` |
| `TypeTheorem` | " | `Spec => []TypeOK` |
| `FindTheorem` | Dedup_proofs | `Spec => []FindsFirst` |
| `ReadBackTheorem` | " | `Spec => []ReadsBack` |
| `DedupTypes` | " | `Spec => []TypeOK` |

*The argument for the queue.* None of the properties is inductive: that a buffer is EMPTY
when appendz looks for one depends on counts held in three other variables. The
invariant `QueueInv` numbers everything appendz is given as *items*, the blocks first
and the end marks after them. The writer is done with `Done` of them, and the other `Load`
lie in the ring from `front` on, so a buffer at distance `Offset` knows its item,
`Done + Offset + 1`. Then:

- `Counts`: `empty.val + [main is filling] + Load = QSize`;
- `Ring`: a buffer with `Offset >= Load` is `Free`; one with a block is `Filled`,
  `Compressing` or `Leaving`; one with a mark is `Filled` or `Passed`. Each phase fixes the
  buffer's state, what is in `out`, both tokens, and where its thread may be;
- `Waiters`: every semaphore but `compressors` has a single waiter, and a signal that has
  woken it leaves it its count. This is where the missing loop of `wait` turns out not to
  matter: counts can be stolen only on `compressors`, on which nothing here depends;
- `Written`: sizes and blocks up to now are the right ones, after `exit(1)` as well.

TLC checked the invariant on small instances before it was proved. The proof has a lemma per
step: `CompressorStep`, `FrontStep` and `CountsStep` say that the buffers and counts a step
does not touch keep their phase, `CompressThreadKeepsQueue`, `FillKeepsQueue`,
`WriterTakeKeepsQueue` and so on that the one touched goes to its next. `ModSmall`,
`AtOffset` and `NextOffset` are the arithmetic of the ring.

*The argument for the bound.* `BoundInv`: the counts left and the threads that compress are at most
`Threads`, and nobody is half-way through a wait. The second half is what the POSIX class lacks:
there a waiter between the signal and its wakeup finds its count taken, and compresses without one
(section 3).

*The argument for the former versions.* It has two halves.

The reader (`Readers_proofs`). `ReadUntil` is a recursive function; `ReadUntilIs` and
`RunExists` turn it into a sequence of reader's states, one per tag passed (`Runs`), on which
induction is possible. Along a run the position grows and the tables keep what they have
(`RunLater`). `SameVersion` and `NotFewer` then say: if a file g has the cells of f up to h, where
the reader of f would append, then a reader of g limited to a version of f goes through the same
states and stops with the same content, and g has no fewer versions, provided that (`Keeps`)

- `NoJoin`: the cell just behind h does not complete a block that is cut there in f;
- `TailSafe`: behind h the first tag is that of a whole c block, at which a limited reader
  stops, or no tag is followed by its body, so that all it does is count errors. Only an h or i
  block, whole and first behind h, would be taken into the last of the old versions.

The writer (`Journal_proofs`). `CutKeeps`, `WriteHeader`, `WriteAfterHeader` and `WriteTag` say which
writes and cuts maintain `Keeps`. A whole d, h or i block does so only if a whole c block stands at
`header_pos` before it, or if nothing follows (the block is then cut short by the full disk). That
this is always so is `WriteInv`: unless control-C has stopped the flushes, the first block
is at `header_pos`, and once it is flushed the header is whole, or the disk is full and the file ends
there (`Short`). A write that was begun when the handler came is
finished after it, but before the handler cuts (`PlaceInv`, last line), or goes where nothing
follows (`Beyond`). `IdleInv` carries it to the end of the process, where `trim` may cut. TLC checked the
invariant in all three journal configurations before it was proved; the theorem covers at once what
they check apart, and the windows they leave out (`WindowKills`, the handler on a thread of its own).

*The argument for the new version.* `Calm` is an assumption on the constants, the one the runs
`journal_kills` and `journal_controlc` make: the disk does not fill up, the handler of control-C runs on
the main thread, and an add may be killed (outside the window between the final header and the
cut) where there is no control-C. None of its parts can be left out: on one name, one d
block and two adds TLC refutes `ReadsClean` with a full disk, with kills in that window and with kills
beside control-C, and `ReaderSeesVersions` with the handler on another thread.

An archive is `Sound` for a list of versions if both its readers find them. For read_archive
(`ReadSound`, in `Readers_proofs`) that is: it comes, without an error and with every pointer
in its tables, to an offset behind which there is nothing or an unfinished c block, and finds at
each version what the list says. `ReadSoundIs` gives what `Read` and `History` return,
`ReadSoundSame` keeps an archive sound while it is the same up to that offset and has such an end,
and `ReadSoundNext` takes a whole version behind it into the list: `VersionRead` follows the reader
block by block (`NewHeader`, `NewTable`, `NewFile`), and `ReadingContents` says what the files hold
then, since the fragments are numbered from the old table's size on.

For mount the walk is a sequence of states as well (`ScanRuns`, from
`LoopExists`; `ScanIs` says that `Scan` is its end). That the folders are right is not inductive,
because the scan keeps every version at once and reads the data only when asked. `Mounted` says that
it comes to the same offset as read_archive, knows as many fragments, and `Shows` the versions
there, which takes three facts more: each fragment it knows has its block whole where the scan has
reckoned it, before that offset (`Readable`); no file has a fragment it does not know (`Linked`);
and no change is of a version yet to come (`Before`), or `jidac_touch` would replace one instead of
adding one. A walk in an archive that is the same up to there comes through the same states
(`ScanSameArrives`), reads the same data (`SeenSame`) and so shows the same (`MountedSame`). Over a
whole version behind it (`VersionScanned`, with a lemma per kind of block) the offsets of the data
are counted up from the header by the sizes in the tables; the old versions see the histories they
saw (`AtChanged`), a file that was not changed shows in the new version what it showed in the last
(`AtNext`), and a changed one its new data (`ShowsNext`). The one version that has no c block behind
it is completed at the end, or at an unfinished header, which ends the walk (`MountEnds`). TLC
checked `Mounted` in `journal_kills` and `journal_controlc` before the proof.

On the writer's side the invariant `GoodInv` says, beside `JournalInv` above, what is on the disk at each
stage: in the body, the first `Out` blocks of the plan at their places and nothing changed before
the first (`BodyInv`); with the body done all of them, and the header unfinished or final (`HeaderInv`);
then a whole version, and after the cut nothing behind it (`ShutInv`, `DoneInv`). `StopInv`: whom
control-C has stopped never goes on, and a roll back leaves the archive as it was, because without kills
an add begins at the very end (`Tidy`). A kill in the body leaves an unfinished header behind the old
versions (`KilledInBody`), later a whole version (`KilledSound`); and `Trim` cuts only what a reader does
not see (`TrimSound`). TLC checked each part on both configurations before the proof. With it the
versions between adds are `History(disk)`, and every step leaves them or appends what `VersionLog`
allows: that is the refinement.

*The argument for the close.* `CloseInv`: until a handler has rolled back, the archive was
closed once exactly if the add is past `close()`, and from `closing` on the handle is
no longer there for the handler to take.

*The argument for the mount.* The four properties are inductive together (`CacheInv`, with the
types): who decompresses holds a reader and the mark "loading" of its block, and gives both
back in one step under the lock, also when it throws. `ToMake` needs a block that is absent, so that
there is one maker, and two free readers from a worker, so that one is left. Only three steps move a
reader or a mark; the rest are `Quiet`, and one lemma settles them all. The LRU needs lemmas on what
moving a block to its front and cutting its end do to a sequence without repetitions.

What is asked for ahead (`AheadInv`, on top of these): no block is twice in the queue, with two
workers, or with one and in the queue. Only then may a worker that is done take its block out of
`pending_` without looking; a worker with nothing to do has no block.

*The argument for the image.* `PendingIsOnItsWay` says nothing in the one state between the two locks of the
reset, when the cache is empty and the marks are not yet cleared. `PendingInv` adds that a worker that looks for a job or sleeps for
want of one has no block in its hands (`IdleHasNone`): without it the next job would replace a block
that is marked as asked for. Every step then either hands a block on (queue, hands, cache), or takes
away mark and block together.

*The argument for x.* A thread owns the block it has marked until its turn ends (`TurnInv`);
a permit is taken once per turn and given back with it (`PermitPlace`), so that the count of permits
is the size of the set of holders, and a block over the budget is let in only when that set is empty.

For the files, `FilesInv` names a set D of places per file, those whose run is written and counted.
`data` is the size of D (`Counted`); each of D is in a block that was marked, and no thread counts a
place that another thread has, because blocks have one owner (`OfWritten`); unless a write failed or a
thread was lost, a place in D has its fragment on the disk or is a zero that a later write steps over
(`InPlace`); and of a block that is done, all the places are in D (`WrittenAll`), of one being written,
those before the thread's place (`WrittenSoFar`). A file is the result of the writes that reached it, also where
one stopped half-way or began in the wrong place (`WritesIs`); only those of the file itself, told (`huge_errore`)
or not (`lost`), take it out of `InPlace`. `CompleteIsWhole` is then that a D as large as the file is all
of it, and `DamageCostsItsFilesOnly` that at the end every good block is done (`NoneLeft`), but for the files that could not be opened.

*Sums and loops.* What is counted in bytes is a sum over a set. `SumLemmas` has induction over the
naturals and the finite sets, by the least element of a set of naturals (`WFMin`) instead of the
library's induction theorems, whose operator parameter the provers cannot fill. From it come the
value of `SumFunctionOnSet` and what an element more or less does to it; `BytesCounted` and
`RamWithinBudget` follow with one block added or taken per step. `LoopExists` turns the loop of a
model, a function on the first n numbers, into the endless sequence of states that induction is done
on.

*The argument for the index.* What a search finds is not inductive: it hangs on the order in which
the fragments came. `Holds` says what a table filled up to fragment n has: each of those before n
that is known, once, and on the way to it only fragments with lower numbers, no free slot
(`Reached`). Put in the first free slot the next one keeps that (`PutHolds`); that there is such a
slot is counting (`SlotIsFree`, by the pigeonhole principle) as long as the table is not crowded, and
that the search comes to it is that `h ^ i` is its own inverse among the numbers below a power of two
(`XorAlwaysWorks`, by induction on the digits). A table that has grown holds nothing, and is
filled from the first fragment on (`TurnIs`). That update() comes to its end is an induction on the tables
that can still be too small, and in each on the fragments left (`PassIs`, `PassesEnd`); the bound
`Turns` of the model is thereby proved to be enough for every archive, so that it cuts nothing off.
`FindIs` then compares the first stop of the search with the place of the first known fragment.
For `ReadsBack`, `BlocksOK` says that every block, also the one being filled, has from its first number on
the data of ht (`Right`), and that the blocks leave out no fragment since the old ones; `FilesOK`
that ht has, where a file points, what was read.

*Only model-checked*: liveness (`Terminates`, `RefinesLiveFifo`, `Served`, `Ends`, `ServedIfItFits`,
`WorkersEnd`), which the prover does not reach. Every safety property of the passing runs is
the statement of a theorem; those of the journal but `FormerVersionsStay` and `TypeOK` under the assumption
on the constants that the table gives, which their runs make as well.

## 5. What is not modelled, and why

Definitions that model `read_archive`, `add2`, `repack` and pp's loop are given in the map by the
function and its lines in `src/zpaq-std.cpp`, which are all past its line 198042.

- Power loss: no write is followed by an `fsync`, so after one the order of the blocks is
  the file system's. `Kill` ends the process; what it has written stays.
- A kill that cuts the 104 bytes of a c block: they go out in one write, and only a
  full disk is taken to cut them.
- The 3 s after which the handler no longer waits (179468), except for a write it has itself
  interrupted; the deletion of parts; the housekeeping around it (VSS, pid file, console).
- What stdio does with its buffer beyond the choice of when a refused byte shows; Windows, where the
  output of x is not a stream, and a write fails in WriteFile (the fault "flush" is POSIX's).
- Spurious wakeups in `Semaphore` (see above) and in `ImageCache`.
- Of `x`: -test, zip, -huge, sparse files, stdout, the RAM disk, and which files are wanted. Of the
  image: -recover. Of mount: attributes and the callbacks of FUSE and WinFsp. Of add: where the
  rolling hash cuts a fragment, and the analysis of its type.
- -chunk, -append in two passes, the backup commands, the USB test: see the components of
  `PROJECT.json`. They are sequential code on names, sizes and whole files; a model would restate it.
- The plain `add` of the ANCIENT builds (251855-254268), compiled only where `add2` is not,
  and not compared with it step by step; encryption, `-index`, archives of several parts, streaming
  archives, VFILE attributes.
- libzpaq's arithmetic and the bundled compressors: functions from bytes to bytes. Text,
  console, listings, registry: no state a property is about.
