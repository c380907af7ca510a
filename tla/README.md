# Verification of the PromTCS slab store

PromTCS is a Prometheus-compatible time-series database. Samples are appended to
in-memory series; a series that has filled a chunk hands it to the *tree series*
store, a pool of fixed-size slabs in memory backed by a pool of slabs on an SSD
and indexed by a Masstree; slabs that have been on the SSD long enough migrate
to LevelDB. This directory holds TLA+ models of that system, the TLC
configurations that check them on small instances, and TLAPS proofs.

    tlc -workers 4 -config SlabCycle.cfg MCTreeSeries     # one run
    tlapm TreeSeries_proofs.tla                           # one proof module

## 1. Inventory of the system

### Parts

| part | source | state | operations |
|---|---|---|---|
| slab store | `TreeSeries/TreeSeries.{h,cpp}`, `slab.h` | memory and disk slab tables, six lock-free queues, `uint32_t` counters, a table of slab classes | `ConPutKV`, `OptBatchWriteLazyFlush`, `MigrateReadLazyFlush` |
| run search | `FindSinfoSubSequence` | one loop | splits a sorted batch into runs of adjacent slabs |
| slab index | `InsertMT`, `UpdateMT`, `RemoveMT`, `ScanMT` | Masstree from (source, metric, time) to slab description | insert, update, remove, range scan |
| background threads | `head/TreeHead.h` `bg_flush_data`, `TreeHead.cpp` `flush_db`, `ThreadPool.h` | two threads and a pool | flush to SSD, migrate to LevelDB, pwrites |
| slab read path | `Scan`, `ReadDiskSlab`, `free_bsinfoq_` | pool of read buffers | scan memory and disk slabs |
| slab description file | `WriteDiskSlabInfo`, `RecoveryDiskSlabInfo` | file of descriptions | written after a batch, read at start-up |
| in-memory series | `head/TreeMemSeries.{h,cpp}` | open chunk, `min_time_`, `max_time_`, flush times, txn | `append`, `_flush_tree` |
| write-ahead log | `parallel_wal/` | queue per writer, current log file, `flushed_txn_` | enqueue, background write, `Flush`, switch of log |
| log codec | `leveldb/db/log_{writer,reader}.cc` | bit windows | Gorilla-style encode, decode |
| recovery, log cleaning | `TreeHead.cpp` | list of logs | replay, keep unflushed samples |
| appender | `head/TreeHeadAppender.hpp` | batch of samples | add, commit, rollback |
| series identity | `TreeHead.cpp` | id counters, symbol tables | get or create source, metric, series |
| forward index | `TreeHead.{h,cpp}` | concurrent map, flat copy, version | insert, migrate to the flat copy, read |
| inverted index | `index/ThmapPostings.{h,cpp}` | postings | add, delete, migrate |
| querier | `querier/tsdb_tree_querier.cpp` | none | splits a query over head, slabs and LevelDB |
| remote service | `db/TreeRemoteDB.{h,cpp}` | none | partitions a write request over threads |

`PROJECT.json` lists the parts with their status, including the ones that are
never going to be modelled (chunk codec, LevelDB, the older block engine,
generated and vendored code) and why.

### How the parts meet

    append -> _flush_tree --chunk--> ConPutKV --full slab--> flusher --pair--> ConPutKV
                  |                     |                       |                (recycles memory)
                  waits for flushed_txn_| index keys            | used disk slab
                                        v                       v
                                    Masstree <--- keys ---   migrator --Put--> LevelDB
                                                                |
                                                   evictable disk slab -> flusher (recycles disk)

Recycling is lazy. A flushed memory slab stays readable, and indexed, until a
writer needs it; that writer redirects its keys to the disk slab it was paired
with. A migrated disk slab likewise stays indexed until the flusher needs it and
removes its keys.

### What is hard about it

* Four kinds of thread exchange slabs through queues without a common lock. The
  protocol is: whoever popped a slab may touch it. Nothing enforces it.
* A class publishes its full slab *before* it forgets it (`InsertMemFullQueue`,
  then `slab_id_ = UINT32_MAX`), and finds the cell to reset through the
  `cid_x_`, `cid_y_` of the slab it has just given away.
* The counters are changed before or after the queues they count, and the loops
  of `bg_flush_data` look at the counters. They are unsigned.
* The pwrite of a slab is still with the pool when the memory slab is offered for
  recycling and the disk slab for migration.
* A (memory, disk) pair waits in `mem_evict_sinfoq_` for any length of time; the
  disk slab may be migrated, recycled and refilled meanwhile.
* The migrator offers slabs for recycling before it has put them in LevelDB, and
  goes on reading their descriptions.
* Memory slabs come back only through the flusher and disk slabs only through the
  migrator, each of which waits for a minimum batch.

The list of hazards in `PROJECT.json` names the lines, and the properties that
would catch each of them going wrong.

## 2. Modules

| module | what it is |
|---|---|
| `TreeSeries` | the slab store with its writers, flusher, pool threads and migrator; the properties |
| `MCTreeSeries` | small classes, series and workloads for TLC |
| `SlabRuns` | the loop of `FindSinfoSubSequence`, one action per branch |
| `SlabRuns_proofs` | proofs about the loop, for every array |
| `TreeSeries_types` | inductive invariant of the slab store and the proof that its types are preserved |
| `TreeSeries_proofs` | proofs of slab ownership and immutability |

### `TreeSeries`: state

| variable | code |
|---|---|
| `free_msinfoq`, `full_msinfoq`, `mem_evict_sinfoq` | the queues of memory slabs; the last holds (memory, disk) pairs |
| `free_dsinfoq`, `used_dsinfoq`, `disk_evict_sinfoq` | the queues of disk slabs |
| `num` | `nfull_msinfoq_`, `nfree_dsinfoq_`, `nused_dsinfoq_`, `n_disk_evict_sinfo_`, modulo `CounterMod` |
| `mem`, `disk` | `mstable_`, `dstable_`: `nalloc_`, the entries (source, metric, start, end), the cell `cid_x_`, `cid_y_`, and the bytes |
| `mass_tree` | index: (series, time) to slab |
| `ctable` | per class: the open slab and where the thread holding the class mutex is in `ConPutKV` |
| `next` | the next chunk each series hands over |
| `fl`, `pool` | where `OptBatchWriteLazyFlush` is; pwrites enqueued and not yet run |
| `mg` | where `MigrateReadLazyFlush` and `flush_db` are, with the bytes read |
| `lsm`, `level_flush_time` | what `flush_db` has put in LevelDB; `level_flush_time_` per series |

### `TreeSeries`: actions

* **`ConPutKV`**: `PutOpen`, `PutFree`, `PutEvict` take the class mutex and find
  a slab (the open one, an unused one, a flushed one). `Redirect` updates one key
  of a flushed slab and `Recycle` resets it. `WriteNew` and `WriteMore` store the
  item and index it, for a series new to the slab or already in it. `PushFull`
  and `CountFull` publish a full slab. `ForgetSlab` resets the cell the slab names
  and releases the mutex when that is the class's own cell; `AssertFails` is the
  assertion of line 465 when it is not. A call that finds no slab returns false
  and changes nothing; it is a stuttering step.
* **`OptBatchWriteLazyFlush`**: `FlushBegin`, `FlushPop`, `FlushCheck`,
  `FlushPutBack` collect full slabs or give them back; `FlushTakeFree`,
  `FlushTakeEvicted`, `FlushUnindex`, `FlushFreeDisk` find disk slabs;
  `FlushSort` pairs them; `FlushCopy` is one turn of the copying loop;
  `FlushCount` and `FlushWait` finish. `OptWriteToSSD` is a pool thread.
* **`MigrateReadLazyFlush`** and **`flush_db`**: `MigrateBegin`, `MigratePop`,
  `MigrateUncount`, `MigrateRead` (one slab), `MigrateEvict`, `MigrateCount`, then
  `FlushDBPut`, `FlushDBTime`, `FlushDBNext`.
* `WorkloadDone` lets a finished workload rest, so that a deadlock reported by
  TLC is a real one.

### What a step stands for

Every push, pop and index change another thread can observe is a step, and so is
a counter change that comes apart from its queue. Statements are merged into one
step where no other thread could tell:

* writing and indexing an item, and `FreeSlab` of a memory slab: the thread owns
  the slab. The one field of it another thread may read is its cell, in the
  window `ForgetSlab` is about; its two coordinates are written and read together
  here. In the code a reader may see an old and a new one, a cell that again is
  its own or is not, which is all the model tells apart;
* `FreeSlab` and `CopyInfo` of a disk slab, and one turn of the loop over a
  description in `flush_db`: not because of ownership, since `flush_db` goes on
  reading descriptions of slabs it has offered to the flusher. A turn of
  `flush_db` sees a description before or after a change of the flusher's, in the
  code also a mixture. Only `lsm`, `level_flush_time` and so `FlushedIsInLSM`
  depend on what it sees, and that one is violated without any such mixture;
* the flusher's pop of a free disk slab with its counter: only the flusher
  touches either; and of an evicted one: the counter's only reader is a guard that
  is never decisive;
* the two counters of `FlushCount`: different threads read them and none reads
  both;
* one turn of the copying loop: until the memory slab is pushed nobody else can
  reach either slab except the pwrite just enqueued, which writes bytes where
  `CopyInfo` writes the description; and writers, who may act between the two
  pushes, never look at `used_dsinfoq_`, so that the second push might as well
  have come first.

One `pwrite` or `pread` of one slab is a step. A `pwrite` or `pread` of several
adjacent slabs moves them one at a time, in any order, and so do the separate
`pread`s the pool runs for slabs that are not adjacent.

### Builds with and without assertions

`AssertFails` stops the thread of the class; the other threads go on, which covers
whatever they do until `abort()` takes effect. A native build defines no `NDEBUG`
(`CMakeLists.txt`) and behaves like this. The Dockerfile builds with
`CMAKE_BUILD_TYPE=Release`, which does define it: there the class goes on to reset
the cell of *another* class, without that class's mutex, and its own cell keeps
naming a slab it no longer owns. Up to the first such moment both builds behave
like the model; what a Release build does afterwards is not modelled, and no
property or theorem is claimed for it. With a single class the cell of a slab can
only be the class's own, and the builds do not differ.

Left out because nothing the model states depends on them: the counters that are
only printed (`nused_msinfoq_`, `nfree_msinfoq_`, `n_mem_evict_sinfo_`), the
`free_` flag, txn numbers, the pool of read buffers (`flush_db` gives back those of
a non-sequential read; who waits for one belongs to the read path), the branch of
`flush_db` for an id missing from the flat forward index, and the branch of
`MigrateReadLazyFlush` for an array of the wrong length, which its callees cannot
return. Ids are assumed to fit the `uint8_t` fields of `SlabInfo`. Chunks of a
series come in time order and span an interval (`TreeMemSeries.h:30`). The index
keys of a slab are redirected or removed in any order, which includes the order
of the code.

Assumptions on the constants (`SlabAssumption`): pools and batches are not empty,
no more memory slabs than disk slabs (`ValidSid` compares a memory slab id with
the disk pool's size as well), counters and buffers fit in 32 bits, `FirstCell`
(the cell a zeroed `SlabInfo` names) is a cell, and the marker values are none of
the real ones. `TrackLSM` says whether `lsm` and `level_flush_time` are kept. No
guard reads them, so that a run whose properties do not mention them loses
nothing without them.

### `SlabRuns`

The code calls `FindSinfoSubSequence(array, count - 1, ...)`: its `count` is the
index of the last element. `Single` is the early return for one element, `Extend`
advances the end of the run, `Cut` closes a run, `LeaveLoop` ends the search.
`TreeSeries` uses the outcome of the loop as the set `InSomeRun`; `RunsCover`
says which elements that is and is proved for every array.

## 3. Runs

| run | instance | checks | states |
|---|---|---|---|
| `slab_cycle` | 1 series, 1-item slabs, 3 memory and 3 disk slabs, 6 chunks | `TypeOK`, `IndexComplete` | 269,804 |
| `slab_shared` | 2 series sharing 2-item slabs | `IndexSound`, `IndexComplete` | 121,951 |
| `slab_two` | 2 classes, 1-item slabs, 3 and 3 slabs, 5 chunks and 1 chunk | `IndexSound`, `ExclusiveMem`, `FullIsImmutable` | 1,513,691 |
| `slab_batch` | 1 series, batches of 2, reads of 2, 4 and 4 slabs, 7 chunks | `ExclusiveDisk`, `NoCounterWrap` | 380,938 |
| `slab_progress` | 2 classes, 2-item slabs, 3 and 3 slabs, 11 chunks and 1 chunk, fairness | `PutReturns` | 469,996 |
| `slab_runs` | every sorted array of up to 6 out of 8 ids, fairness | `TypeOK`, `RunsAreConsecutive`, `RunsAreMaximal`, `RunsCover`, `Terminates` | 1,325 |

* **`ExclusiveMem`, `ExclusiveDisk`**: every slab is in one hand. This is the
  protocol the code relies on everywhere and enforces nowhere.
* **`FullIsImmutable`**: a slab that was pushed to the full queue does not change
  until a writer has taken it back.
* **`IndexSound`**: a key leads to a slab that has an entry beginning or ending
  there, across redirects, migrations and refills in any order. In particular a
  redirect never installs a pointer to a disk slab that has been refilled:
  the key was removed, and `UpdateMT` does not insert. That case needs a class
  that stalls in its redirect while the other class fills enough slabs for the
  disk slab to be migrated, unindexed and used again; `slab_two` reaches it, and
  with an `UpdateMT` that inserts the property fails there.
* **`IndexComplete`**: no live slab drops out of the index.
* **`NoCounterWrap`**: `nfull_msinfoq_` never goes below zero, and neither does
  `nused_dsinfoq_` *when `nbuf_slab_ <= migrate_batch_size_ + 1`*. The caller of
  the migration has seen more than `migrate_batch_size_` counted slabs, but the
  callee pops up to `nbuf_slab_` of those that are queued, counted or not. The
  code sets the two independently (`ndslab_ / 10` and the size of the read
  buffer). The shipped configuration is within the condition; one with a quarter
  of its slab memory is not (52,428 against 65,536), and there the counter can
  wrap.
  (`n_disk_evict_sinfo_` does, between the migrator's push and its count, and
  comes back; the guard that reads it is a conjunct that is never decisive.)
* **`PutReturns`**: the retry loop around `ConPutKV` ends, also while another class
  keeps a slab it never fills, unless the assertion of line 465 ends the program.
* **`RunsAreConsecutive`, `RunsAreMaximal`, `RunsCover`, `Terminates`**: runs are
  adjacent ids, cannot be extended, contain every element except possibly the
  last, and the loop ends.

### Why the bounds are enough

In `slab_cycle` the series hands over twice as many chunks as there are slabs of
either kind, so that both pools are used up, recycled and recycled again while
pairs wait. Slabs of one item make every chunk go through the whole cycle; what
needs more items (a series that returns to its entry and exchanges its end key)
is `slab_shared`. What needs two writers at a time is `slab_two`: the second
class hands over one chunk, at any moment, and can stall at every step of
`ConPutKV` while the first one sends the slabs around, with enough chunks to
recycle the memory slab the second is publishing and to refill the disk slab it
is redirecting to. Runs, put-backs and sequential reads need batches of two, which
is `slab_batch`. Between them the runs take every action. `CounterMod` is the smallest modulus above twice the pool
sizes: the counters wrap in the model where they would wrap in the code.

### Fairness

`FairSpec` has weak fairness for the flusher, the migrator, the pool, the thread
inside each class's mutex, and each series' attempt to store. The first four are
threads the operating system schedules; both background threads loop for ever.
The last is the `while (!ConPutKV(...))` of `_flush_tree`; with one series per
class, as in `slab_progress`, nobody else competes for the mutex, and no fairness
of the mutex is assumed.

The pool sizes matter. Each class may hold an open slab and the flusher starts
only with more than `write_batch_size_` full ones, so that writers progress only
with `nmslab_ >= classes + write_batch_size_`; and the migrator starts with more
than `migrate_batch_size_` used slabs and at least `nbuf_slab_`, so that
`ndslab_` must exceed `max(migrate_batch_size_, nbuf_slab_ - 1) +
write_batch_size_ - 1`. `slab_progress` has two classes and the smallest pools
that satisfy both, with batches of one, where no slab is lost (section 4). Nothing in the code checks these conditions.

## 4. Disagreements between the code and its own statements

Five runs check a statement an assertion, a comment or a test of the repository
makes, or that follows from what it counts, and find it violated.

* **`slab_cell`** (`OwnCell`). `TreeSeries.cpp:465` asserts that the slab a class
  has just published still names the cell of that class. Between the push and the
  assertion the flusher can flush the slab and another class recycle it and write
  its own cell there (lines 426-427). With assertions the program stops; without
  them line 466 clears the `slab_id_` of the other class.
* **`flushed_in_lsm`** (`FlushedIsInLSM`). `TreeMemSeries.h:57` says that times up
  to `level_flush_time_` are in the LSM tree. The flusher pushes a disk slab to
  `used_dsinfoq_` while its pwrite is still with the pool
  (`TreeSeries.cpp:840`); the migrator can read the slab as it was before, put
  nothing for its chunk, and later set `level_flush_time_` past it.
* **`disk_content`** (`DiskHoldsWhatItSays`). A test compares a slab scanned from
  the SSD with the one flushed (by `OptBatchWrite`, a sibling of the function the
  system runs). The memory slab is pushed to `mem_evict_sinfoq_`
  before its pwrite (`TreeSeries.cpp:839`); a writer can recycle and overwrite it
  first, and the pwrite then stores chunks the description does not speak of.
* **`slab_lost`** (`NoSlabLost`). `TreeSeries.cpp:862` counts every slab of a batch
  as waiting in `mem_evict_sinfoq_`, and a test of the sibling `OptBatchWrite`
  expects every slab back. The copying loop covers only the runs found with `count - 1`, so
  that a last slab that does not continue a run is popped, counted, and then in no
  queue; the disk slab meant for it is lost as well.
* **`slab_runs_last`** (`RunsCoverAll`). The same, in the loop of
  `FindSinfoSubSequence` by itself.

## 5. What is proved

With TLAPS, for every size of the pools, batches, classes and workload that
satisfies `SlabAssumption`, in the sense of "Builds with and without assertions"
above (a class that fails the assertion of line 465 stops there):

| theorem | statement |
|---|---|
| `TreeSeries_proofs!TypeCorrect` | `Spec => []TypeOK` |
| `TreeSeries_proofs!MemHasOneOwner` | `Spec => []ExclusiveMem` |
| `TreeSeries_proofs!DiskHasOneOwner` | `Spec => []ExclusiveDisk` |
| `TreeSeries_proofs!FullStaysPut` | `Spec => FullIsImmutable` |
| `SlabRuns_proofs!Consecutive`, `Maximal`, `Coverage` | the three properties of the run search, for every sorted array |

### The argument for the slab store

`Inv` is `TypeOK`, both ownership properties and four auxiliary invariants:

* `ClassInv`: a class that is about to write has a slab, and that slab has room;
  one that is publishing or about to forget a slab still names it;
* `FreeInv`: an unused slab has room;
* `FlusherInv`: `nfree_dsinfoq_` equals the length of its queue, so that a pop
  the counter allows finds something (only the flusher changes either); the
  flusher's arrays are empty outside the program points that use them; and the
  pairing of a batch is one to one;
* `MigratorInv`: the arrays of the migrator are as long as its program point says,
  and the slabs it has still to read are among those it popped.

None of the parts is inductive alone. Types need ownership: an item is written at
index `nalloc_ + 1`, in range only because the class that found room is the only
one to fill the slab. Ownership needs types, for what the heads of the queues are,
and needs the pairing to be one to one: otherwise the copying loop could push a
disk slab twice. That sorting both arrays pairs them one to one is
`RankIsInjective` and `PairedIsInjective`, from the cardinality theorems of the
library.

`TreeSeries_types` has the lemmas about queues and counters and shows action by
action that the types are kept (`WriterTypes`, `FlusherTypes`, `PoolTypes`,
`MigratorTypes`). `TreeSeries_proofs` shows the same of memory ownership (`NextMem`),
disk ownership (`NextDisk`), and the auxiliary invariants (`NextClass`,
`NextFlusher`, `NextMigrator`), and puts them together in `NextInv`. For
immutability, `OnlyOwnedChange` says that a memory slab changes only while some
class owns it; ownership says that such a slab is in no queue and in no batch.
A class owns the slab it names only until it has pushed it (`Published`): from
then on, until it forgets it, the slab may be anywhere, another class's included,
which is why ownership cannot be read off `slab_id_` alone.

### The argument for the run search

The loop invariant (`LoopInv`) says that `start .. end` is a run of adjacent ids
that does not continue the one before it, that the runs already found lie before
`start`, cover everything there, and are each followed by a gap. It is inductive
together with the types, `RunsAreConsecutive` and `RunsCover`; maximality follows
from the gaps.

### Only model-checked

`IndexSound`, `IndexComplete` and `NoCounterWrap` (safety, to be proved next);
`PutReturns` and `Terminates`, which are liveness under fairness and out of the
prover's reach; and the runs of section 4.

## 6. What is not modelled yet, and the plan

In this order, each with a module and runs of its own:

1. **Readers.** `Scan` over the index against recycling, the window between
   `RemoveMT` and `InsertMT` of an end key, and the read buffers: `ReadDiskSlab`
   spins for a buffer on a pool thread. With it the querier's split of a query by
   `head_flush_time_` and `level_flush_time_`, and whether those times ever
   decrease. Composes with `TreeSeries`.
2. **Write-ahead log.** Queue, background writer, `Flush`, switch of the log, and
   the handshake in which `_flush_tree` waits for `flushed_txn_`. Liveness of the
   handshake; then recovery and log cleaning, with crashes between the steps.
3. **In-memory series.** The branches of `append` with the time range of each
   chunk; a chunk starts after the previous one ended, which `TreeSeries` assumes.
4. **Series identity and the flat forward index.** Concurrent creation of one
   series; version-checked reads of the flat copy against its migration.
5. **Slab description file.** Crash and restart between a batch and its
   description.
6. **Pure algorithms.** The partition of a write request over threads, the bit
   windows of the log codec, the migration of postings.
7. **Abstraction.** A specification of slab ownership alone (a slab moves between
   stations), with `TreeSeries` shown to implement it.
8. **Proofs.** `IndexSound`, with the invariant that a key of a waiting pair is
   either redirected or unindexed; `NoCounterWrap`; the refinement of 7.

Not planned: the XOR chunk codec (sequential, with unit tests of its own), the
LevelDB fork and Masstree (external engines), the older block-based head, the
alternative inverted indexes, HTTP and generated code.
