# NOAAPORT: a TLA+ verification project

This directory specifies, model-checks and proves properties of the NOAAPORT
programs in `src/`: `noaaportIngester` (one process, several threads) and the
older pair `dvbs_multicast` / `readnoaaport` (two processes and a shared memory
FIFO).  Both turn the NOAAPORT satellite stream into data-products of an LDM
product-queue.

## 1. Inventory

```
 multicast/file --> reader thread --> Fifo --> product-maker thread --> LDM product-queue
   (reader.c, fileReader.c,        (fifo.c)   (productMaker.c,          (ldmProductQueue.c,
    multicastReader.c)                         process_prod.c)           process_prod.c)
          main thread: start, SIGTERM/SIGUSR1, statistics thread, shutdown (noaaportIngester.c)
          every thread: message lists of the logging module (noaaportLog.c)

 UDP socket --> dvbs_multicast --> shared-memory FIFO --> readnoaaport --> LDM product-queue
                (dvbs_multicast.c)  (shmfifo.c)           (readnoaaport.c)
```

| Component | State it keeps | Operations | What is hard |
|---|---|---|---|
| Byte FIFO, `fifo.c` | ring, `nextWrite`, `nbytes`, `nreserved`, `closeIfEmpty`, three mutexes, two condition variables | `fifoWriteReserve`, `fifoWriteUpdate`, `fifoCopy`, `fifoRead`, `fifoCloseWhenEmpty` | the reserved region is written without the lock; one signal per change; shutdown with data left |
| Reader, `reader.c`, `fileReader.c`, `multicastReader.c` | descriptor, buffer, `byteCount`, `status` | `readerStart` loop, `readerGetStatistics`, `readerStatus` | ends holding `writeMutex`; is cancelled; counts under its own mutex |
| Product-maker, `productMaker.c` | headers of the frame at hand, product in progress (`prod`, `PNGINIT`, `heapcount`), counters | `pmStart` loop, `pmGetStatistics`, `pmStatus` | frames lost, doubled, reordered, malformed in the middle of a product; state that outlives the product it belongs to |
| Frame headers, `readsbn.c`, `readpdh.c`, `readpsh.c`, `readpdb.c` | none | decode a header out of bytes | widths, signs and lengths |
| Product insertion, `process_prod.c`, `ldmProductQueue.c` | fragment store, static list of open queues | `ds_init`, `ds_alloc`, `ds_free`, `prodalloc`, `process_prod`, `lpqGet`, `lpqInsert`, `lpqClose` | `realloc` under live pointers; duplicates; sharing a queue |
| Ingester, `noaaportIngester.c` | threads, `reportStatistics` with its mutex and condition, totals | `main`, `signal_handler`, `reportStatsWhenSignaled`, `reportStats` | signals in any thread, cancellation while holding locks, order of the shutdown, exit status |
| Logging, `noaaportLog.c` | one message list per thread, module lock | `nplClear`, `nplStart`, `nplAdd`, `nplErrno`, `nplErrnum`, `nplLog` | a list that is reused, a lock taken twice |
| Shared-memory FIFO, `shmfifo.c` | ring, `read`, `write`, three System V semaphores | `shmfifo_create`, `_attach`, `_put`, `_get`, `_empty`, `_detach`, `_dealloc` | locks and waits across processes, a process that dies or restarts, header and data stored one after the other |
| DVB-S programs, `dvbs_multicast.c`, `readnoaaport.c` | left-over bytes of the last message; the product in progress | socket-to-FIFO loop, `_shm_bufread`, `main` | restart of one of the two programs; records that do not fit |
| PNG output, `png_io.c` | PNG state, `memheap` offset | `png_set_memheap`, `png_header`, `pngout_init`, `pngwrite`, `pngout_end` | ends in the middle of an image |
| Naming, `wmo_header.c`, `redbook_header.c`, `gribid.c`, `grib2name.c`, `nport.h` and the `g2/`, `gempak/`, `tables/`, `wgrib.c` code they use | none | derive a product identifier from its bytes | text formats |

Vendored or generated code (`libpng/`, `zlib/`, `g2/`, `gempak/`, `tables/`,
`wgrib.c`, `configure`, the libtool files) holds none of the program's own
control logic and is left out.

What makes each component correct (sections 4 and 6 say how far the code is):

* **Byte FIFO.**  It is a queue: every byte is delivered once, in order.  What a
  writer fills without the lock never overlaps what is unread.  No wake-up is
  lost, the two sides never wait for each other, and closing ends every wait.
* **Reader and ingester.**  After the end of the input or SIGTERM the process
  ends, having handed on everything it had received; its statistics account for
  every byte, packet and product exactly once; a request for statistics is
  served; signals do not block threads for ever.
* **Product-maker.**  A product that is inserted is made of all fragments of one
  product, in order, and of nothing else, whatever frames are missing, doubled
  or malformed; state of an abandoned product never reaches a later one; counts
  of received and missed packets are what was received and missed.
* **Shared-memory FIFO.**  Records arrive whole and in order; at most one process
  is in the critical section; neither side sleeps while it could go on; what
  the two programs see survives a restart or is reset cleanly.
* **Insertion and logging.**  Pointers stay valid across growth; a thread's
  messages are its own and complete.

## 2. Plan

### Modules

Modules are written so that each stands alone and can be proved about:
parameters are CONSTANTS with named assumptions, an operation is one action (or
one per stretch of code that other threads cannot observe half done), invariants
are conjunctions of named parts, and no module declares a RECURSIVE operator.

| Order | Module | Models | State |
|---|---|---|---|
| 1 | `ByteQueue` | what `fifo.c` promises: a bounded queue of bytes with atomic operations that is refused once it is closing and empty | done |
| 2 | `Fifo` | `fifo.c` | done, invariants and refinement proved |
| 3 | `Ingester` (INSTANCEs `Fifo` for its three threads) | `reader.c`, the reads of `pmStart()`, `main()` from the first join on, SIGTERM | done, safety proved |
| 4 | `Statistics` | SIGUSR1, `reportStatsWhenSignaled()`, the counters and their mutexes, the cancellation of the statistics thread | done, invariants proved |
| 5 | `RecordQueue` | what `shmfifo.c` promises: a bounded queue of records | done |
| 6 | `ShmFifo` | `shmfifo.c` between two processes that live | done, invariants and refinement proved |
| 7 | `ShmRestart` (EXTENDS `ShmFifo`) | the same in finer steps: processes are killed, exit and start again, the FIFO is created anew under a reader, debug messages | done, types and the lock proved |
| 8 | `ProductMaker` | `pmStart()` frame by frame, the arena and heap of `process_prod.c`, the image writer, packet counts | done, safety proved |
| 9 | `FrameReader` | the search of `pmStart()` and of `readnoaaport` for frames in what is received, `readsbn()`, the lengths of `readpdh()` and `readpsh()`, and the three sources: `fifoRead()`, `_shm_bufread()`, `_fd_bufread()` | done, safety proved |
| 10 | `NoaaportLog` | `noaaportLog.c`: the per-thread message lists with their lock, cancellation and exit | done, invariants proved |
| 11 | an abstract product assembler | "whole products, of one source each, in order", implemented by `ProductMaker` | planned |
| 12 | `ldmProductQueue.c` | the shared list of open queues, its reference counts and its mutex | planned |

`MC...` modules give the constants values; the modules `...Proofs` hold the proofs.

### Proofs

Every safety property that a passing run checks is proved but one, `NeverTorn` of
`ShmRestart`, and so are the two refinements; section 5 says from which
assumptions.  What is left:

* `NeverTorn`: its invariant has to say what the ring is between the pieces of two
  calls of which one has been overtaken;
* the abstract product assembler (module 11) and that `ProductMaker` implements it,
  from the invariants of `OnlyWholeProducts` and `NoProductIsLost`;
* the safety parts of the liveness properties: what must be so whenever a thread
  waits, and that the signal handler never waits for a mutex that its own thread has.

## 3. The models

### `Fifo` and `ByteQueue`: `fifo.c`

Every variable of `struct fifo` that changes is a variable of the same name.  The
grain is that of POSIX threads: a thread acquires a mutex in one step
(`LockMutex`, `LockWriteMutex`, `LockReadMutex`), and what it does with
`fifo->mutex` until it unlocks it or waits is one step, which no other thread
can observe half done.  The exception matters: between `fifoWriteReserve()` and
`fifoWriteUpdate()` the caller's `read(2)` fills the reserved region without
`fifo->mutex`; `Fill` is a step of its own, in any order with the reader's.
A wait queue is the set of threads whose `pc` is `"write_wait"` or `"read_wait"`;
`pthread_cond_signal()` wakes one of them, any one, and `SpuriousWakeup` lets one
go without a signal.

| Function | Actions |
|---|---|
| `fifoWriteReserve()` | `Begin`, `TooLarge`, `LockWriteMutex`, `LockMutex`, `ReserveClosed`, `Reserve`, `ReserveWait` |
| the caller's `read(2)` | `Fill` |
| `fifoWriteUpdate()`, `fifoCopy()` | `LockMutex`, `WriteUpdate`, `Copy` |
| `fifoRead()` | `Begin`, `TooLarge`, `LockReadMutex`, `LockMutex`, `ReadClosed`, `Read`, `ReadWait` |
| `fifoCloseWhenEmpty()` | `Begin`, `LockMutex`, `CloseWhenEmpty` |

`ByteQueue` has no locks, regions or wait queues.  `QueueSpec` is the refinement:
the queue is `Unread`, the bytes from `nextWrite - nbytes` on around the ring.

### `Ingester`: `reader.c`, `noaaportIngester.c`, the reads of `productMaker.c`

The three threads use an instance of `Fifo`; a FIFO step of a thread is a step of
that instance, so that every interleaving inside `fifo.c` is there.  `at` is where
a thread is in its own code.  The reader thread reserves `reader->maxSize` bytes,
reads and ends at the end of a file, at an error, when it is refused, or when
SIGTERM's handler has cancelled it, which takes effect at a cancellation point:
in `read(2)` or in the `pthread_cond_wait()` of `fifoWriteReserve()`.  It has no
cleanup handler, so it ends with what it has locked.  The product-maker reads
one byte until it takes it for the start of a frame, then the parts of a frame
(`FrameReads`), going back to one byte whenever a check or a read fails.  There is a greatest of the
maxima that `reader->maxSize` may have (`MaxSizeAssumption`), so that what the FIFO
is asked for is bounded, as `Fifo` requires.

`main()` joins the reader thread and cancels and joins the statistics thread
(`MainCancels`), closes the FIFO (`MainCloses`), joins the product-maker
(`MainJoins`), makes the last report (`MainReports`) and returns.  What the
statistics thread does is in `Statistics`; here is what is left of it when it is
cancelled in the middle of a report that SIGUSR1 asked for: `left` is the lock it
dies with, `reader->mutex`, `productMaker->mutex` or that of the log.  The last
report needs all three, the product-maker the second to count and the third to
log (`MakerBlocks`).  The reader thread itself can die with the lock of the log
(`CancelInLog`).  `Sigusr1Blocks` is a handler of SIGUSR1 that waits for `mutex`
for ever: in a thread that has a lock that the report under way waits for, or in
any thread once the statistics thread has died or waits for a lock that never
comes free.  None of these is undone by the code, so a thread that is
`"blocked"` stays so.

### `Statistics`: `noaaportIngester.c`, `reader.c`, `productMaker.c`

The counting threads add under `reader->mutex` or `productMaker->mutex`
(`LockCount`, `Count`, `UnlockCount`); a report gets and resets each count under
that mutex (`LockStatistics`, `GetCount`, `ResetCount`, `UnlockStatistics`) and adds
to the totals (`AddTotals`).  The statistics thread makes `mutex` recursive by
initialising it again (`StatStart`), locks it and keeps it but for its waits.  The
test for a signal and the wait are two steps (`StatFindsNone`, `StatWaits`), for a
handler that was in `mutex` when the thread initialised it again is not kept out
by it: its signal falls between the two and is lost.  The
signal handler runs inside a thread, between any two of its steps, and blocks
that thread until it returns (`Sigusr1`, `HandlerLocks`, `HandlerSets`,
`HandlerUnlocks`).  `main()` cancels the statistics thread, which dies where it is
(`StatDies`), and makes the last report itself.  `occurred` and `unreported` are
observers: what was to be counted, and whether a signal is still unanswered.

### `ShmFifo` and `RecordQueue`: `shmfifo.c`

Two processes that live: `dvbs_multicast` puts and `readnoaaport` gets.  Steps are
the semaphore operations and, under the lock, the header, the data and the
notification.  That a `shmfifo_ll_put()` or `shmfifo_ll_get()` is one step, and
`checkLocked()` one with the semaphore call after it, is justified by
`AloneUnderLock`: nobody else operates on the ring or gives the lock back
meanwhile.  `ShmRestart` is for when that fails.  The ring holds the bytes of records, each of which knows its record
and its position in it.  `lock` and `lockPid` are what `semctl(GETVAL)` and
`semctl(GETPID)` return to `checkLocked()`.

| Function | Actions |
|---|---|
| `shmfifo_put()` | `PutCall`, `Lock`, `PutTooBig`, `PutWaits`, `Wake`, `PutHeader`, `PutData`, `PutNotifies`, `Unlock` |
| `shmfifo_get()` | `GetCall`, `Lock`, `GetWaits`, `Wake`, `GetHeader`, `GetData`, `GetNotifies`, `Unlock` |

`RecordQueue` puts and gets whole records.  `QueueSpec` is the refinement; a record
counts as in the queue from when its last byte is in the ring until that is got
(`RecordsIn`).

### `ShmRestart`: `shmfifo.c`, `dvbs_multicast.c -m`, `readnoaaport.c`

What `ShmFifo` leaves out: a process is killed at any place or exits, and begins
again; debug messages (`Debug`) are logged, which take the lock and give it back.
It extends `ShmFifo`, uses its variables, `Lock`, `Wake` and the arithmetic of the
ring, and takes its other operations apart where something can come between.

| Code | Actions |
|---|---|
| `shmfifo_lock()`, and the wait's `semop()` | `Locks`, `Wakes` |
| `shmfifo_unlock()`: `checkLocked()`, then `semop()` | `CheckUnlock`, `ReleaseLock`; `UnlockRefused`; `back` is where it returns to |
| `shmfifo_setpriv()`, `shmfifo_printmemstatus()`: the lock in passing | `PassingLock` and the unlock |
| `shmfifo_notify...()`: `checkLocked()`, then `semctl()` | `CheckNotify`, `SetNotice` |
| `shmfifo_put()` | `PutBegins`, `PutFindsNoRoom`, then each `shmfifo_ll_put()` in its two pieces: `HeaderPiece`, `HeaderRest`, `DataPiece`, `DataRest` |
| `shmfifo_get()` | `GetBegins`, `GetFindsEmpty`, `GetFindsTooLittle`, each `shmfifo_ll_get()` as the first `memcpy()` and what follows it: `CopyHeader`, `CopyHeaderRest`, `TestHeader`, `CopyData` or `CopyNoData`, `CopyDataRest` |
| killed, or `readnoaaport` exits | `Killed` |
| `dvbs_multicast` exits: `cleanup()`, `shmfifo_dealloc()` | `Exits`: semaphores and segment are removed, the reader's calls fail and it aborts |
| start again | `ReaderAttaches`; `shmfifo_create()`: the two stores of line 816 (`EmptyOne`, `EmptyOther`), SETALL (`SetSemaphores`), `shmfifo_setpriv()` |

Line 816 empties the ring without the lock, so it can come anywhere in a call of
the reader, also between the `memcpy()` at 383 and the `read += copysz` at 386;
whether that adds to the new or to the old value of `read` is the compiler's choice
(`CopyRest`).  SETALL (853) can come between the reader's `checkLocked()` and
`semop()`; the semaphore of the lock is 2 then, and both processes are under it.
`stale` is an observer: the reader's call was overtaken by line 816, or used a ring
that such a call has spoilt (`spoilt`), whose offsets are not those of one that
was emptied.

### `ProductMaker`: `productMaker.c`, `process_prod.c`, `png_io.c`

One step is one iteration of the loop of `pmStart()`, by where it ends: `Skip`,
`RejectHeader`, `PuntHeader`, `SkipOrphan`, `GiveUp`, `Refuse`, `Extend`,
`Complete`.  The iteration is composed as in the code: `Begun` opens a product
(`Opened`, `Abandoned`, `DsInit`), `Linked` allocates a fragment (`DsAlloc`) and
copies its data (`Filled`), `Finished` and `Made` are what is handed to the
product-queue.  The record `maker` has the variables that outlive an iteration,
under their names in the code where they have one (`psh`, `prod`, `heapcount`,
`heapsize`, `PNGINIT` as `png`, the arena's `nextfrag` and `maxfrags`).  `since` is an
observer for `CountsAddUp`: the first frame of the run number, what was counted
by then, and the last frame sent of those that arrived since.  What a sender does
is in the assumptions: a header is block 0 and a block is one of its product's
(`TransmissionAssumption`), and the blocks of a product are sent in order with no
other product between (`SenderAssumption`).  The bytes
of a block are cells that say which part of which product they are, so that a
product made of parts of two is seen.  `Counted` is the arithmetic on SBN
sequence numbers, including the widening of an `int` to an `unsigned long`.  The
network loses any frames and delivers up to `MaxLate` late or doubled.

### `FrameReader`: `productMaker.c`, `readnoaaport.c`, `readsbn.c`, `readpdh.c`, `readpsh.c`

What comes before `ProductMaker`: how the stream of bytes is cut into frames.
`pmStart()` and `main()` of `readnoaaport` have the same loop; they differ in the
source and in what a failed read leads to (`source`, `IgnoresFailure`).  A read is
one step, named for what is read; `Wanted` says where in `buf` it goes and how much
it asks for, as the code computes both from lengths in the headers before.

| Code | Actions |
|---|---|
| one byte until it is 255 | `FirstByte` |
| the other 15 bytes, `readsbn()` | `Accept` |
| not a header: `buf` is shifted to the next 255 (`IOFF`) or given up | `Shift`, `NoStart` |
| `readpdh()`, the rest of a long PDH | `ReadPdh`, `ReadExtra` |
| the PSH and its length, timing blocks | `ReadPsh` |
| the data block | `ReadData` |
| an amount that is refused; end of the FIFO, of the file; an error | `ReadRefused`, `ReadClosed`, `ReadEof`, `ReadFault` |

A read that fails may have got some cells before (`ReadFault`), and of the
shared-memory FIFO the next record may be gone with it, as `shm_debug` shows: the
reader goes on behind its end (`NextEnds`).

`begun`, `taken` and `handled` are observers: where the frame at hand begins, which
part of the input was taken for frames, and which frames were read whole.  What
is done with the data is `ProductMaker`'s.  An input is cells and the places of the
frames in it.  `WellFormed` says of one that frames follow one another from the first
cell to the last, with lengths that make sense and fit the FIFO and `buf`, and
that in those that the code skips no 255 comes after the headers; an input need
not be well-formed, and `HeadersAreFound` is about all of them.

### `NoaaportLog`: `noaaportLog.c`

One lock protects `ulog()` and the creation of the key; a thread's list is its own.
A step takes the lock or is what is done under it, but `ulog()` is one step per
message, so that a thread can be cancelled inside it (`Cancelled`) and a
signal handler that exits can log in the middle of it (`Exit`).

| Function | Actions |
|---|---|
| `nplStart()`, `nplErrno()`, `nplErrnum()`, `nplAdd()` | `Start`, `Errno`, `Add`, then `Lock`, `Clear`, `Vadd`, `VaddAgain` |
| `nplLog()` | `Log`, `Lock`, `LogNothing`, `PrintOne`, `Printed`, `Clear` |
| `nplError()` to `nplDebug()`, `nplSerror()` | `Say`, `Serror`, `Lock`, `SayOne`, `Said` |

A message is short or long: what matters is whether it fits the string of the
structure it gets (`TooSmall`), which is a reused one or a new one (`Next_`), and
what becomes of a new one after `EAGAIN` (`Enlarged`).  `said` is an observer: what
the thread has added since it began anew.

## 4. What is checked

Each run is a module and a configuration of the same name as the run.

| Run | Constants | What it shows |
|---|---|---|
| `fifo_order` | ring of 2, two writers, a reader, a closer, writes up to 2, reads up to 3, two byte values | the bytes read are those written, in order (`QueueSpec`); the unlocked fill does not touch unread bytes (`RegionsDisjoint`); a reservation is still current when the data is added (`ReservationIsCurrent`); no wake-up is lost (`WaitersHaveReason`); writer and reader wait for each other only in a ring that is too small (`NoMutualWait`) |
| `ingester_run` | ring of 3, reservations of 2 or 4 (refused), 5 bytes of input, file or multicast, with SIGUSR1 | the process ends when its input does, or when SIGTERM comes, unless the product-maker starves, the reader thread died with `fifo->mutex`, or a lock is never given back by a thread that was cancelled or is in the handler of SIGUSR1 (`EndsOrStarves`); all that was received is taken out (`AllHandedOn`); nothing is received after the close (`NoInputAfterClose`), which reaches the product-maker (`EndReachesMaker`); a reader thread that waits for room gets it (`ReaderIsServed`) |
| `ingester_sigterm` | multicast, no exception for the cancelled wait | violation: section 6, finding 1 |
| `stats_run` | two SIGUSR1 in the main thread | each addition is in exactly one place (`EachCountedOnce`), a signal leads to a report (`Sigusr1Reported`), statistics never stop the reader thread (`ReaderGoesOn`) |
| `stats_interrupted` | SIGUSR1 in the reader thread | violation: section 6, finding 2 |
| `shm_queue` | ring of 7, headers of 2, records of 1, 2, 3, 5 and 6, buffer of 2 | mutual exclusion although the lock is given up in the middle of a call (`AloneUnderLock`), whole records in the ring (`RecordsAreWhole`), no lost notification (`SleepersHaveReason`), the queue of records (`QueueSpec`); puts return, but for one of exactly the ring's size (`PutsReturn`), and what is put is got (`RecordsAreGot`) |
| `shm_restart` | ring of 5, headers of 2, two records of 2, buffer of 2, with deaths, exits, re-creation and debug messages | a process that lives does not leave the lock taken (`LockIsNotLeft`), whose semaphore is 2 at most (`RestartTypeOK`); a get that succeeds hands over the data of one record, but where line 816 has overtaken a get (`NeverTorn`) |
| `shm_debug` | the same, with debug messages and without deaths | violation: section 6, finding 3 |
| `product_maker` | three of seven products, one frame late or doubled, any lost | whole products (`ProductsAreWhole`), their own header record (`HeaderIsOwn`), nothing lost without loss (`NothingLost`), counts that hide no loss (`CountsAddUp`), no arena moved under a product (`FragmentsStayPut`) |
| `log_messages` | two threads of the ingester, cancelled in their two ways, or the one of `readnoaaport`; two short messages, a long one | a list is what was said (`ListsAreKept`), it is logged in one piece (`LogIsOrderly`), calls return unless a thread was broken off with the lock (`CallsReturn`) |
| `log_long` | the same | violation: section 6, finding 4 |
| `frames` | two of twenty pieces of input, then a frame that may be cut off; three sources | no header in the input is missed but inside a frame (`HeadersAreFound`), well-formed frames are all read and nothing else (`InStep`), the reader ends or waits for input (`ReaderEnds`) |

### Bounds, and why they are enough

* `Fifo`: what the code distinguishes is how requests relate to what is free, to
  what is unread, to the end of the ring and to its size.  With a ring of 2 and
  requests of 1 to 3 every relation occurs: regions that wrap (copied in two
  pieces) and that do not, rings that are full, requests that never fit.  Two
  byte values tell any two positions apart by some run.  The two writers contend
  for `writeMutex`.  `FifoProofs` removes these bounds.
* `Ingester`: 5 bytes through a ring of 3 wrap it, fill it, and stop inside a
  frame or at its end.  `InputBytes` bounds what arrives.
* `Statistics`: one addition per count and two signals (`MaxCount`, `MaxSignals`):
  a signal before, inside and after a report, and a second one while the first is
  unanswered.  A second addition would repeat the first: the steps of an addition
  do not depend on the count.
* `Ingester`, SIGUSR1: a handler may block any thread at any place that the locks
  of a report allow, once per thread; what a report does is checked in `Statistics`.
* `ShmFifo`: with its header a record of 6 exceeds the ring of 7 and is refused, one
  of 5 is exactly as large and is neither refused nor ever put; one of 3 fits the ring
  and exceeds the buffer; those of 1 and 2 go through, and as 7 is prime to their 3
  and 4 bytes, headers and data begin and wrap at every offset.  Two tags tell
  records of one size apart.  The writer may wait for ever in this run, for room for
  the record of 5 or behind one that is too large for the buffer, and the reader
  with it, hence `CHECK_DEADLOCK FALSE`.
* `ShmRestart`: records of 4 bytes in a ring of 5 wrap at every offset, in the header
  and in the data; a second record of the same size is what a mix of two would be
  made of.  More than one record in the ring at a time needs a larger ring, which
  takes TLC too long with deaths at every place; `shm_queue` has it without deaths.
* `ProductMaker`: three products of seven kinds (several blocks, one block, zipped,
  uncompressed image, text too large for its heap, two malformed headers), so
  that each is followed by each; the number of sequence numbers is small
  (`SeqSize`), so that they start at 0 again in every run, and `LongSize` is much
  larger, as 2^64 is than 2^32.  One late frame (`MaxLate`) is enough for a
  fragment of one product to turn up in another.  `HeaderIsOwn`, `NothingLost`,
  the exactness of `CountsAddUp` and `FragmentsStayPut` are stated for frames that come in order:
  with late or doubled ones they do not hold of the code (a fragment that is refused
  for want of heap, and comes again and again, uses up the arena, which `realloc()`
  then moves under the product).
* `NoaaportLog`: lists of up to three messages (`MaxSaid`), two calls per thread of
  the ingester and four of `readnoaaport` (`MaxCalls`): structures that are new, used
  before, and used before with a larger string, and a second list over the first.
* `FrameReader`: bytes are cells and headers have 4 of them (`SbnSize`, `PdhSize`)
  instead of 16, a cell for each field that the control depends on.  The twenty
  pieces are eight frames (first and later ones, long headers, no data, data that
  look like a header, frames that the code skips) and twelve that are malformed,
  cut short or noise; `MCFrameReader` asserts that an input is `WellFormed` exactly
  if all of its pieces are of the eight.  The last frame is whole, or cut in its data or its headers
  (`cut`).  One failing read (`MaxFaults`).  A piece that exceeds the FIFO
  (`FifoSize`) is refused.  `BufferAssumption` keeps a PDH inside `buf`, as the
  length in a well-formed SBN header does; what later reads put behind the end of
  `buf` is left out of the model, which does not keep it.

### Fairness

Safety runs assume none.  Liveness runs (`ingester_run`, `stats_run`, `shm_queue`,
`log_messages`, `frames`, and the two violations that are temporal) assume of the
code's scheduling:

* a thread inside a function goes on (weak fairness of its steps), and a mutex or
  semaphore that is free again and again is obtained (strong fairness of the
  locking step): POSIX promises no order among waiters, and without this nothing
  that takes a lock can be shown to end;
* the product-maker comes back for more, as the loop of `pmStart()` does; it is not
  assumed to find faults in frames or to find none;
* `readnoaaport` calls `shmfifo_get()` in a loop, and its loop over frames goes on;
* a file can be read to its end.

Nothing obliges the network to send, a caller to write or close, `read(2)` to
fail, a signal to come, a message to be logged or a process to die.

### Mutants

Each property of a passing run is violated when one definition is replaced by
the variant that stands before it in its module: `HasRoom_OffByOne`,
`Advanced_NoWrap`, `Overwrite_OnePiece`, `LockWriteMutex_NotExclusive`,
`Read_NoSignal`, `HasData_Strict`, `CloseWhenEmpty_WritersOnly` (`Fifo`);
`Refused_MidFrameOnly`, `MainCancels_NoJoin`, `MainJoins_NoJoin` (`Ingester`);
`AcquireCount_NotExclusive`, `ResetCount_Forgotten`, `UnlockStatistics_Forgotten`,
`HandlerSets_NoSignal` (`Statistics`); `Advance_NoWrap`, `Rewound_NoWrap`,
`Lock_NotExclusive`, `NoRoom_Full`, `BufferTooSmall_OrEqual`, `GetNotifies_Not`
(`ShmFifo`); `GetFindsTooLittle_Returns`, `DataFollow_NotAsked` (`ShmRestart`); `DsInit_NotEnlarged`, `IsLast_OffByOne`,
`InSequence_NumberOnly`, `Skip_ReadsHeader`, `Delta_Signed`, `Gap_OffByOne`
(`ProductMaker`); `Lock_NotExclusive`, `Enlarged_InUse`, `Enlarged_NeverKept`,
`Said_NoUnlock` (`NoaaportLog`); `Starts_TooFar`, `Starts_FromSecond`,
`Wanted_Nominal`, `ReadClosed_Retried` (`FrameReader`).  `PROJECT.json` says which
one goes with which property.

## 5. What is proved

The theorems hold for every value of the constants that the named assumptions of
each module allow: positive sizes and amounts, disjoint sets of threads, inputs
of the right kind.

**`FifoProofs`.**  `Invariance` is `Spec => []IInv`; the others follow from it.

* `TypeCorrect`: in particular `nextWrite`, `nbytes`, `nreserved` and the pointers
  that `fifoWriteReserve()` returns stay inside the ring.
* `RegionsStayDisjoint`, `ReservationStaysCurrent`, `NoLostWakeup`,
  `NoDeadlockInLargeRing`.

None of these is inductive alone.  `RegionsDisjoint` needs to know that at most one
reservation exists and is the caller's (`ReservationIsCurrent`), which needs that
`writeMutex` is held from the reservation to the update (`MutexesOK`), and what the
caller adds is at most what it reserved (`CallsOK`).  `WaitersHaveReason` needs that
at most one thread waits on each condition variable, since a waiter owns
`writeMutex` or `readMutex` (`MutexesOK` again), so that a single
`pthread_cond_signal()` wakes all there are (lemma `SignalWakesAll`).
`NoDeadlockInLargeRing` is arithmetic on the two reasons to wait.  `IInv` is the
conjunction of these six; the proof that a step keeps it has a lemma per action.

Its `Refinement` is `Spec => QueueSpec`: the FIFO implements the
byte queue.  Positions are counted from the oldest unread byte; bytes written from
`nextWrite` on leave unread bytes alone because the two regions fit the ring, so
adding is `\o` and reading is taking a subsequence (`OverwriteKeepsUnread`,
`OverwriteWrites`, `AppendUnread`, `DropUnread`).  What a writer filled in place is
still there when it calls `fifoWriteUpdate()` (`FilledInPlace`, part of `RInv`).  Each
step then is a step of `ByteQueue` or leaves its variables unchanged.

**`ShmFifoProofs`.**  For two processes that live, in every interleaving of their calls:

* `TypeCorrect`: offsets stay inside the ring, and the semaphores at 0 or 1.
* `OneUnderLock`: a process past `shmfifo_lock()` has the lock and is alone.
  `LockInv` adds to `AloneUnderLock` that each process is only where its own calls
  take it.
* `RecordsStayWhole`: between two calls the ring holds whole records, header and
  data, wherever they wrap.  The invariant says what the ring is at each place of a
  call (`Aligned`): whole records, and after a header was put or got, the one record
  that is half there.  It does not go from byte to byte: around each unread byte lie
  the others of its record (`Around`), which begins in the ring unless its header
  has just been got (`Begins`, `GetsData`) and ends there unless its data are still to be
  put (`Ends`, `PutsData`).
* `NoNotificationLost`: a process sleeps only while what it waits for is not so, or
  the other one is about to wake it.
* `RecordsAreAQueue` is `Spec => QueueSpec`: what the two calls do is a queue of whole
  records.  What is in the queue is read off the ring by a scan (`RecordsIn`): a put
  of data appends to the scan the record they end, a get of data takes the first
  one off, and a put of a header, which ends no record, leaves it as it was, since
  by `Aligned` no byte but the last of a record is a last byte.  That a scan of more
  bytes extends a scan of fewer is shown for the recursive function by looking at
  the least number of bytes for which it would not.  A call that has not got its
  data yet has got none (`GotNothing`).

**`ShmRestartProofs`.**  For processes that are killed, exit and start again anywhere,
with debug messages.

* `LiveProcessesUnlock` (`LockIsNotLeft`): whoever took the lock last and still lives is
  on its way to give it back.  `LockInv` counts: the semaphore and the processes that
  are between `checkLocked()` and the `semop()` which adds 1 make 2 at most, since a
  process gets there only when it owns a semaphore that is 0, and SETALL, which makes
  it 1, is done by a writer that is not there.
* `RestartTypeCorrect` (`RestartTypeOK`): the semaphore is 2 at most, and offsets stay
  inside the ring even when line 816 comes in the middle of a get: what a get
  has copied, from where (`HalfCopied`), fits the ring behind the offset that it goes
  on from, the old or the new one.  It needs `BufferAssumption`: no record that is
  put exceeds the reader's buffer, or fills the ring.

**`StatisticsProofs`.**  `CountedOnce`: each addition is in the count, in the report
that is being made, or in the totals, and in one of them, although `mutex` is
recursive, signals interrupt any thread and the statistics thread dies anywhere.
The invariant adds to that who has which mutex how often (`DepthOK`,
`CountMutexOK`) and what a report has got and not yet added (`TakenOK`): between
`GetCount` and `ResetCount` nobody else has the counter's mutex.  `TypeCorrect`: the
recursive mutex is locked at most twice.

**`IngesterProofs`.**  `NothingLeftBehind` and `ClosedAfterInput`: the shutdown comes in
the right order for every ring, frame and input.  The invariant needs of the FIFO
only what its steps do to the callers (lemmas `WriterStepEffect`,
`ReaderStepEffect`, `CloseEffect`): a read of the FIFO is refused only when it is
closed and empty or too much is asked for, and the one byte for which a refusal
ends the product-maker is never too much (`StatusOK`); once closed and empty, the
FIFO stays so, since the reader thread has ended before the close (`ClosedLate`).

`FifoStaysSound`: the whole invariant `IInv` of `Fifo` holds in the process as well,
although SIGTERM can end the reader thread inside a call of `fifo.c`, which `Fifo`
itself does not have.  It uses the lemmas of `FifoProofs` through an instance
(`P`), whose assumptions are proved here of the process's parameters (`Parameters`: the
longest read is one of `FrameReads` or the greatest maximum of `MaxSizes`), that each
call is one that `Fifo` allows its threads (`CallIsFifos`), and that the death of a
thread in `pthread_cond_wait()` breaks none of the six parts (`DeathKeeps`): the thread
locks `mutex` when it is free and dies owning it, as if it went on to its critical
section and then took no further step there.
`TypeCorrect` follows.

**`ProductMakerProofs`.**  The invariant says what there is of the product in progress
(`HandIsKept`, `InHand`): it has its own name and no fault, its last block has not been
linked, and as long as its header record was not overwritten, the heap, or the rows
given to the image writer, hold its blocks up to the last one linked (`Holds`).  The
heap's counts are within the heap (`MakerOK`).  Products, frames and their order are arbitrary, within the assumptions on
a sender.

* `TypeCorrect`, `OnlyWholeProducts` (`ProductsAreWhole`): for frames that are lost, late
  or doubled.  `Blocks` is a recursive function over the blocks of a product; that it
  has the equations it is defined by, and that a block more is that block at its
  end, is shown by the least number at which this would fail (`IsPile`).
* `OwnHeaders` (`HeaderIsOwn`) and `ArenaStaysPut` (`FragmentsStayPut`): for frames that
  come in order.  `InProgress`: some frame of the product in hand has come, and if
  its header record was overwritten none is to come; the arena has room for all its
  fragments, and no more of them are allocated than were linked, but for one that was refused, after which none is in sequence.
* `NoLossIsHidden` (`CountsAddUp`) has a hypothesis, `SeqnosInStep`: the sequence numbers
  of what is sent go from one half of their range to the other only where they start
  at 0 again, and there are fewer than half of them.  It cannot be left out: at the
  step over 2^31 the code miscounts (see section 6).
* `NoProductIsLost` (`NothingLost`) has two.  `SentWhole`: a sender sends each product from its
  first block to its last before it begins the next; a product of which blocks were never
  sent could not be complete although nothing was lost.  `DataDiffer`: no two products
  have the same data; the product-queue refuses the second as a duplicate.  `AllKept` adds to
  the invariants above, for as long as every frame has come, once and in order: the
  last block that came is in hand if its product can be made (`BlocksInHand`), an open image
  is that of the product in progress (`PictureInProgress`), that product's last block has
  not come (`NotFinal`), its heap is what `prodalloc()` gives for its fragments
  (`HeapIsLargeEnough`), so that none is refused, and the queue has, once each, the
  products whose last block has come (`InQueue`).

The instance that the run checks satisfies all three hypotheses.

**`NoaaportLogProofs`.**  `ListsStayKept` and `LogStaysOrderly`.  `ListsAreKept` needs that
no thread has a list before the key exists (`NoListsBeforeKey`), and that the second
`nplVadd()` of a first long message finds the enlarged string (`PlacesOK`).

**`FrameReaderProofs`.**  `HeadersStayFound`: for every input that `BufferAssumption`
allows, whatever the later lengths in its headers say, an SBN header that begins at
a cell the search has passed lies in a frame that another one began or in cells
that a failed read left behind.  The invariant adds that the cells in hand are the last that were read
(`InHandOK`): the shift keeps exactly the cells from the first possible start on.
`TypeCorrect`: in particular the search never reads or shifts by more than it has
in hand, and never passes the end of the input.

`StaysInStep` (`InStep`): the invariant says which frame of a well-formed input the reader is
in and how far (`Following`), and that the frames before are the ones that were handled
(`HandledInTurn`).  The search never has to shift: it begins at the first byte of each frame,
since a frame that is handled is read to its last byte and one that is skipped has
no 255 after its headers.  What the data of a handled frame look like does not
matter.  The two exceptions in `InStep` are the two ways in which the end of the input
can be in hand (`CutOff`, and a closed FIFO).

Induction over data is out of the prover's reach where it needs a theorem with an
operator as parameter.  For the recursive functions here (`Blocks`, `RecordsIn`) it
was enough that a non-empty set of numbers has a least one, which follows from the
library's theorem that `<` on numbers is well-founded (`LeastOfSet`).

Only model-checked: `NeverTorn` of `ShmRestart`, and the liveness properties, since
liveness under fairness is out of the prover's reach.

## 6. Findings and divergences

Each of the four violation runs shows a disagreement of the code with its own
documentation.

1. `ingester_sigterm`.  SIGTERM cancels the reader thread.  When that thread waits
   for room in `fifoWriteReserve()`, it gets `fifo->mutex` back and dies with it:
   `fifoCloseWhenEmpty()` then blocks, the product-maker never learns of the end,
   and the process does not end.
2. `stats_interrupted`.  SIGUSR1's handler locks `mutex` in the thread that the
   signal interrupts.  If that is the reader thread inside its critical section,
   it and the statistics thread, which has `mutex` throughout a report and wants
   `reader->mutex`, wait for each other for ever.
3. `shm_debug`.  With debug logging `shmfifo_get()` prints the state of the memory
   under the lock, which releases the lock; the notification and the unlock then
   fail, and the call returns `EINVAL` ("No data is read") with the record gone.
4. `log_long`.  `nplVadd()` links a new message structure to the list only when the
   message fits it or when it is the first.  A long message at the end of a list
   gets a structure that is enlarged and lost; the second call allocates another
   small one, fails again, and the message is missing from the log.

Further differences met while modelling.  The models have them; no property is
stated about those that a property would only restate.

* A `fifoRead()` that asks for more than is left does not return when the FIFO is
  closed, so a file that ends inside a frame keeps the ingester from ending
  (exception `Starved`).
* `noaaportIngester.c:821` replaces the status of a reader that failed by the
  product-maker's.
* Bytes added by `fifoCopy()` are not counted (`reader.c:140-152`).
* A SIGUSR1 that comes after the statistics thread was cancelled with `mutex`
  locked blocks the thread it interrupts.  When that thread died with
  `reader->mutex`, `productMaker->mutex` or the lock of the log as well, the
  product-maker or the last report of `main()` waits for it for ever (exception
  `Blocked` in the liveness properties of `Ingester`).
* A SIGUSR1 whose handler has `mutex` when the statistics thread initialises it again
  (`noaaportIngester.c:530`) can be lost between the test and the wait that follow;
  `Sigusr1Reported` is about signals from then on.
* `shmfifo_put()` drops a record that exceeds the FIFO and returns 0, not `E2BIG`;
  one that is exactly as large as the ring waits for ever (exception in
  `PutsReturn`); `shmfifo_get()` returns
  0 when the buffer is too small or the data does not follow.
* `shmfifo_create()` empties a FIFO that is there (line 816) without its lock.
  Between the `memcpy()` of a get (383) and its `read += copysz` (386) this moves the
  second piece of a record that wraps to a wrong offset, and the get succeeds with
  torn data; elsewhere in a get it leaves offsets with which later gets are wrong
  too, or a buffer that was not written (exception `stale` in `NeverTorn`).
* Its SETALL (853) between `checkLocked()` and `semop()` of a reader's unlock makes the
  lock's semaphore 2, and both processes can be under the lock at once.
* `nprods` counts products the queue refused; `npackets` does not count the first
  packet of a run number and retrograde ones; the step of the sequence number
  over 2^31 is taken for a retrograde one.
* An uncompressed image that is given up leaves `PNGINIT` on, and the next
  compressed product is handed on with the image's length (exception in
  `ProductsAreWhole`).
* A malformed header overwrites `psh` of the product in progress.  In order, that
  product was abandoned anyway; with a late frame it may be completed with a
  wrong header record (exception in `ProductsAreWhole`, and `HeaderIsOwn`).
* A last frame without data is not handled when the FIFO has been closed by then: a
  `fifoRead()` of no bytes is refused like any other (exception in `InStep`).  In a
  file whose end cuts off a long PDH, `readnoaaport` takes no notice (the other
  exception).
* A fragment for which the heap is too small is left out, and the next one then
  fails the sequence check.

## 7. What is not modelled

* Failures of pthread functions, semaphore calls and memory allocation; command
  lines; thread priorities; SIGUSR2 and SIGINT of the ingester.
* Of `shmfifo.c`: the contents of the private area (`shmfifo_setpriv()` is modelled as far as
  it takes the lock, `shmfifo_getpriv()` is not), `shmfifo_attach()` and `_detach()`
  beyond a beginning and an end, semaphore calls that fail for other reasons than
  the removal of the semaphores, the `abort()` for a record size of 0 or less
  (359-363), two `dvbs_multicast` on one FIFO, and the mode without `-m`, in which
  the getter is a child of `dvbs_multicast`.
* `nplLog()` with an invalid level (`noaaportLog.c:497-499`): it calls `nplError()`
  with the lock and waits for itself; its header declares such a call undefined.
* A `shmfifo_get()` that fails in its last unlock, after it has set `*nbytes`, leaves
  `_shm_bufread()` of `readnoaaport` with a count and an old place in its buffer
  (`readnoaaport.c:235-243`).  That takes a new `dvbs_multicast` whose SETALL comes
  between the notification and the unlock of the get (`shmfifo.c:1038-1045`);
  `FrameReader` has only the record that is lost.
* `ldmProductQueue.c` and the LDM library under it (an insertion is an append that
  refuses duplicates), and the older product assembly of `readnoaaport.c`.
* What a read does to memory behind the end of `buf` (`FrameReader`), and the
  fields of a header the control does not depend on.
* Product names and feed types (`wmo_header.c`, `redbook_header.c`, `gribid.c`,
  `grib2name.c`, `readpdb.c`, `readccb.c`): parsing and formatting of text, without
  state.
* Deflation and the codes that come with the program: `libpng/`, `zlib/`, `g2/`,
  `gempak/`, `tables/` and `wgrib.c` are libraries that this repository carries
  along.  They are by far the most of its lines, so that the share of all lines
  that the modules stand for is small, however much of the program itself is
  modelled.
* Builds in which `long` has 32 bits, and stack slots of `heapcount` and
  `heapsize`, uninitialised in each iteration of `pmStart()`, that do not keep
  their values.
