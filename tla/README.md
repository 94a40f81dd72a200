# A TLA+ model of level_db_xy

level_db_xy is a C++ port of LevelDB in progress. At this commit it has the parts below a
database: a skip list and the memtable on it, write batches, the write-ahead log, an LRU cache,
the POSIX environment (files, locks, limits, background thread, logger), an arena, comparators,
coding, checksums and a Bloom filter. There is no database, table file or compaction yet;
`app/main.cpp` is empty, and the parts are put together only by their tests.

This directory has TLA+ modules for those parts, TLC configurations that check them on small
instances, and proofs, checked by TLAPS, of the main safety properties for every value of the
constants. `PROJECT.json` maps each definition to the lines it models, lists the hazards of the
code with the properties that would catch them, and gives for every property a mutation of the
model that breaks it.

To repeat the checks, in this directory: `tlc -config LRUCache.cfg MCLRUCache`, and
`tlapm CacheProofs.tla`; likewise for the other runs and proof modules listed below.

Paths below are relative to `src/src/` of the repository.

## 1. Inventory

| Part | State | Operations | What is hard |
|---|---|---|---|
| `data_structure/skip_list.h` | nodes with `next_` arrays, `max_height_` | `Insert`, `Contains`, iterator `Seek`, `SeekToFirst`, `SeekToLast`, `Next`, `Prev` | readers run without a lock beside one writer; only the order of the stores protects them; `prev[]` is uninitialised; `max_height_` is read relaxed |
| `cache/cache.cpp`, `LRUCache` | `usage_`, `lru_`, `in_use_`, `table_`, each handle's `refs` and `in_cache` | `Insert`, `Lookup`, `Release`, `Erase`, `Prune`, destructor | entries live while a client or the cache refers to them, in any order of replacing, evicting, erasing and releasing |
| `cache/cache.cpp`, `HandleTable` | `list_`, `length_`, `elems_` | `Lookup`, `Insert`, `Remove`, `Resize` | chains that change while the array grows |
| `log_writer`, `log_reader` | block offset; buffer, end-of-buffer offset, `resyncing_`, `last_record_offset_` | `AddRecord`; `ReadRecord` | records cut into blocks; a crash at any byte; failing writes and reads; starting in the middle |
| `env/env_posix.cpp`, writable and sequential files | a buffer, a descriptor | `Append`, `Flush`, `Sync`, `Close`; `Read`, `Skip` | what has reached the disk when a call fails or the machine stops |
| `env/env_posix.cpp`, `PosixLockTable`, `LockFile`, `UnlockFile` | the table of each process, the kernel's record lock | lock, unlock | threads and processes at once; a close drops the locks of the whole process |
| `env/env_posix.cpp`, `Limiter`, random access files | two atomic counters, mappings, descriptors | `NewRandomAeccessFile`, `Read`, destructors | counters that go below zero and come back; paths that must give back what they took |
| `env/env_posix.cpp`, `Schedule` | queue, mutex, condition variable, started flag | `Schedule`, `BackgroundThreadMain` | notifying before pushing; work that runs with the mutex held |
| `data_structure/mem_table.cpp`, `db_format` | the skip list of encoded entries | `Add`, `Get`, iterator | versions of a key in order of sequence number, inside a byte-level format |
| `write_batch` | `rep_` | `Put`, `Delete`, `Clear`, `Append`, `Iterate`, `InsertInto` | damaged contents; partial application; reading between two records |
| `comparator`, `db_format` | none | `Compare`, separators, successors | the last byte, the top bit, prefixes |
| `filter_policy/bloom_filter_policy.cpp` | none | `CreateFilter`, `KeyMayMatch` | both sides must compute the same positions |
| `util/coding.cpp` | none | varints, fixed-width numbers, slices | boundaries of length |
| `cache/cache.cpp`, `ShardedLRUCache` | sixteen shards, `last_id_` | those of a shard, `NewId`, `TotalCharge`, `Prune` | going through shards, one lock after the other, that change meanwhile |
| `env/env.cpp`, whole files | none of its own; files and a directory | `WriteStringToFile`, `WriteStringToFileSync`, `ReadFileToString`, with `RemoveFile` and `RenameFile` | any call fails; the machine stops between two; what was synced is not what was written |
| `memory/arena.cpp` | `alloc_ptr_`, `alloc_bytes_remaining_`, `blocks_` | `Allocate`, `AllocateAligned` | aligned and plain pieces in any order; the edge of a block |
| `util/crc32c.cpp` | none; five tables | `Extend`, `Mask`, `Unmask` | four strides that change places, any length at any alignment |
| `log/posix_logger.h` | a stdio stream | `Logv` | messages around the size of a buffer; threads that flush each other's lines |
| `iterator`, `hash`, `random`, `status`, `options` | see section 7 | | |

How they interact. `WriteBatch::InsertInto` iterates over a batch and calls `MemTable::Add` for
each record; `Add` encodes an entry with the coding functions and inserts it in the skip list,
whose order is the internal key comparator's, which calls the user comparator, which calls
`Slice::compare`. The log's writer appends to a `WritableFile` and its reader reads a
`SequentialFile`; so do the whole-file helpers. The sharded cache calls its shards, and a shard its
hash table. The skip list's nodes and the memtable's entries are allocated in one arena. All of the environment is shared by the
threads of a process, and the locked file by several processes.

What makes each part correct:

- *Skip list*: every level is a sorted chain at every instant; no thread follows a pointer that
  was never assigned; each call acts as if it happened at one instant.
- *Cache*: a reference count is the number of references; nothing a client holds is freed or
  evicted; nothing else stays over capacity; everything is freed in the end.
- *Log*: recovery returns the acknowledged records, whole and in order, and nothing else.
- *Lock*: of all threads of all processes, one has it.
- *Limits*: never more mappings and descriptors than allowed, and none lost.
- *Queue*: every item is run once, in order.
- *Memtable and batch*: newest first; updates are read back as they were written; a damaged
  batch is noticed.
- *Comparator, filter*: separators divide; no false negatives.
- *Whole files*: a file is written whole or removed; a synced file that is renamed replaces the old
  one as a whole, whatever a crash does; what is read is one of the contents written.
- *Arena*: no byte is given out twice. *Checksum*: it is the polynomial's. *Logger*: every entry is
  one whole line.

## 2. Modules

| Module | Models | Uses |
|---|---|---|
| `OrderedSet` | what the skip list promises: a set whose operations are atomic | |
| `SkipList` | `skip_list.h`, one step per access to a shared pointer | refines `OrderedSet` |
| `SkipListProofs` | proofs | `SkipList`, `OrderedSet` |
| `LRUCache` | a shard of the cache over an abstract map | |
| `HandleTable` | the hash table: buckets, chains, growing | |
| `Cache` | the two composed | `LRUCache`, `HandleTable` |
| `ShardedCache` | routing by hash, `TotalCharge` and `Prune` over all shards | |
| `CacheProofs` | proofs: the shard alone, its hash table, and the shards together | `Cache`, `ShardedCache`, `DataInduction` |
| `DataInduction` | lemmas: induction, recursive functions, sums over finite sets | |
| `LogFormat`, `LogWriter`, `LogReader` | `log_format.h`, `log_writer.cpp`, `log_reader.cpp` | `WritableFile` |
| `WritableFile` | `PosixWritableFile` over a disk that may fail | |
| `WAL` | writer, file, crash, reopening, reader | all of the log |
| `WALProofs` | proofs: the writer, and how the bytes of a log are made of fragments | `WAL`, `DataInduction` |
| `RecoveryProofs` | proofs: what a reader returns | `WALProofs` |
| `WholeFile` | whole-file helpers, names of a directory, crashes of the machine | `WritableFile` |
| `FileLock` | lock table and record lock of several processes | |
| `ReadOnlyFiles` | limiters, mapped and plain files | |
| `BackgroundQueue` | `Schedule` and its thread | |
| `PosixEnvProofs` | proofs | `FileLock`, `ReadOnlyFiles`, `BackgroundQueue`, `WholeFile` |
| `Coding` | `util/coding.cpp` with a smaller radix | |
| `KeyFormat` | `Slice::compare`, internal keys and their order | `Coding` |
| `InternalKeys` | `InternalKey`, `AppendInternalKey`, `ParseInternalKey` | `KeyFormat` |
| `MemTable` | entries as bytes, `Add`, `Get`, `Seek` | `KeyFormat` |
| `WriteBatch` | batches as bytes, and a memtable they are inserted in | `MemTable` |
| `BatchProofs` | proofs: coding, keys, the table's order, batches | `WriteBatch`, `DataInduction` |
| `Separators` | shortest separators and successors of both comparators | `KeyFormat` |
| `BloomFilter` | `bloom_filter_policy.cpp` | |
| `Arena` | `memory/arena.cpp` | |
| `Crc32c` | `util/crc32c.cpp`, `crc32c.h`, full 32-bit words | |
| `Logger` | `PosixLogger::Logv` | |
| `FunctionsProofs` | proofs | `Arena`, `Separators`, `BloomFilter`, `Logger`, `Crc32c`, `DataInduction` |
| `MCPosixEnv` | the parts of the environment that share no state, one at a time | `ReadOnlyFiles`, `BackgroundQueue`, `WholeFile`, `FileLock` |
| `MCFunctions` | the parts that depend on their callers alone, one at a time | `Separators`, `BloomFilter`, `Arena`, `Crc32c`, `Logger` |
| other `MC...` | constants for TLC | |

### How state and actions correspond to the code

**SkipList.** `nxt[x][n]` and `max_height` are the shared state. Each thread has the locals of
its search (`x`, `level`, and `prev` for the writer). A search step loads one `next_` pointer and
moves right (`StepRight`) or down (`StepDown`). `InsertFound` is the end of the search,
`RaiseHeight` fills `prev` above the old height and stores `max_height_`, `NewNode` allocates, and
then each level takes two steps, `SetNext` (the relaxed store into the new node) and `Publish`
(the release store into its predecessor). Memory that was never assigned holds `Uninit`. A reader
loads `max_height_` relaxed, so it may start at any height at all: more than the code can see, and
the properties hold even so.
`RandomHeight` is any height. Publishing with release and reading with acquire is modelled as
sequentially consistent per pointer, which is what that pairing gives to the fields a published
node shows. There is one writer, as the header demands.

**LRUCache, HandleTable, Cache.** A method holds `mutex_` throughout, so it is one step; the loops
that call the user's deleter are one step per turn, and while a loop runs no method starts. A
handle is an address, which is free when its `refs` are 0 and may then be allocated again. `held`
counts the results that clients have not released; it is what the clients know, and `Release` is
enabled only for those. `LRUCache` takes `table_` for a map. `HandleTable` is the array of chains,
and `Cache` makes every step that changes the map call the method that the code calls. Every step
of `Cache` is, by its first conjunct, a step of `LRUCache`, so what is proved of `LRUCache` holds
of `Cache`.

**ShardedCache.** A method of a shard is one step. A shard is its entries' charges and which of them
are held, with the evictions that `LRUCache` makes in some order. A scan (`TotalCharge`, `Prune`) has
one step per shard, and remembers, for the property, the least and the most that each shard has had
during the call and which entries nobody has touched.

**The log.** A file is its bytes on disk, how many of them are synced, and the buffer. A byte of
a header carries what that byte is for (length or type), other bytes carry the record they are
of. `AddRecord` and `ContinueRecord` write a fragment, with the trailer before it and the flush
after it; an error may come after any number of bytes. `Crash` loses the buffer and any part of
what was not synced. `Reopen` is the second constructor. The reader takes one step for the start
of `ReadRecord`, one per block read and one per physical record, with one action for each case of
the switch (`ReadFull` .. `ReadUnknown`). The checksum is not modelled, since this reader never
verifies it. The size of -1 that a failed read leaves in the slice is kept, modulo `SizeModulus`.

**FileLock.** One step per system call or table operation of a thread in `LockFile` or
`UnlockFile`. The kernel (external) keeps at most one owner of the record lock and forgets the
owner when any descriptor of the owner's process for that file is closed, which is how POSIX
record locks work and what the code's own comments on the table are about.

**ReadOnlyFiles.** One step per atomic operation or system call. `NDEBUG` tells whether `assert`,
and what is inside it, is compiled.

**WholeFile.** One step per call of the Env or of a file in `DoWriteStringToFile` and
`ReadFileToString`. A file's methods are `WritableFile`'s, with every outcome they may have. A
directory is the sequence of its states since it was last synced, and a crash takes it back to any of
them; of a file a crash leaves what was synced and some part of the rest. The client that renames a
file does so as `CURRENT` is replaced: after a synced write has returned without an error.

**BackgroundQueue.** `Schedule` is one step since it holds the mutex; the background thread
takes the mutex, waits, takes an item and runs it. `Reentrant` are the items that call `Schedule`.

**Coding, KeyFormat, MemTable, WriteBatch.** Keys, values, entries and batches are sequences of
bytes and are built and parsed as the code does, with varints of a smaller radix and fixed-width
numbers of fewer bytes. The memtable is the sequence of its entries in the skip list's order; that
a search and an insertion in it may be taken for one step is what `SkipListImplementsOrderedSet`
shows. `updates` remembers what the client asked for, for the properties alone.

**InternalKeys.** User keys are slices of a string that has a NUL behind it. `AppendInternalKey`
copies up to the first NUL, as the code does.

**Separators, BloomFilter.** Pure functions; a state is an input.

**Arena.** A pointer is a number. `new` (external) returns an aligned block that overlaps no other.
`regions` remembers what the calls have returned.

**Crc32c.** A word is the set of its bits. The five tables are given by what they contain (a byte
advanced by one byte, and by sixteen bytes from each of its four places); each of the 1280 entries in
the source equals that. A step is a turn of one of `Extend`'s loops. `remainder` divides the same bytes
by the polynomial bit by bit. Where CMake finds Google's crc32c library (`src/CMakeLists.txt`, lines 62 to
66) `Extend` hands the whole call to it; see section 7.

**Logger.** A step is a turn of `Logv`'s loop, the `fwrite` or the `fflush`. Since `snprintf` is handed
a `va_list`, what a format with a conversion prints is any text, and another in the next turn. `Logv`
ignores the results of `fwrite` and `fflush`; both are taken to succeed, and `LineWhole` holds only then.

## 3. Runs

| Run | Instance | Shows |
|---|---|---|
| `skiplist` | 3 keys, 3 levels, a writer and a reader | sorted levels in the middle of an insertion; no unassigned pointer is followed; every execution is one of `OrderedSet` (`Linearizable`); every call returns |
| `lru` | a shard with 3 handles, 3 keys with hashes 1, 5, 3, charges 1 and 2, capacities 0 and 3, up to 2 results per handle, 1 bucket to begin with; or 2 shards of capacity 2, 3 keys and a thread that scans | counts, lists, map and usage agree; pinned entries stay; an insertion leaves the cache within capacity or pinned; the hash table is the map; after destruction nothing is left; what `TotalCharge` and `Prune` still promise over shards that change |
| `wal` | blocks of 7 bytes, headers of 3, a buffer of 4, 3 records, one reopening, readers at 0, 1, 8 and 13; each write, sync, close and read may fail | after a crash at any byte exactly the whole records come back, a torn tail is taken for the end, `last_record_offset_` is where the record begins; what was acknowledged before the first failure is not lost; recovery ends |
| `posix_env` | one of: 4 threads, 2 mappings, 1 descriptor; 4 work items, one of which schedules; 2 whole-file writes, a read and a crash; 3 processes, one with two threads | limits hold and places are accounted for; items run once, in order, and only an item's own call to `Schedule` can block the queue; a string is written whole or its file is gone, replacing is atomic, a read is whole; one thread per process has the lock, nothing is left by any path, a process with one thread keeps its lock |
| `filelock_twice` | 2 processes, one with two threads | *violated*: finding 1 |
| `files_release` | 3 threads, 1 mapping, 1 descriptor, no asserts | *violated*: finding 2 |
| `manifest_name` | a write of `db/MANIFEST` and a crash | *violated*: finding 4 |
| `batch_safety` | 2 batches, 2 records each, keys `<<1>>` and `<<1, 3>>`, 3 sequence numbers, cut off at any byte | order, what a current reader finds, numbering, lengths, damage noticed, what is read back is what was put |
| `memtable_get` | the same | *violated*: finding 3 |
| `functions` | one of: all pairs of keys of up to 3 bytes; two filter keys with any hash of 5 bits, policies of 1 and 5 bits per key; 4 allocations; 2 pieces of 0 to 39 bytes at 4 alignments; 2 threads that log 2 messages | separators divide and successors follow; no false negatives; no byte is given out twice; the checksum is the polynomial's; lines are whole |
| `internal_key` | all strings of up to 3 bytes and their slices | *violated*: finding 5 |
| `logger_format` | a thread that logs | *violated*: finding 6 |

In `lru`, `posix_env` and `functions` the variable `part`, chosen in the initial state, says which of
several parts that share no state moves; the others stay as they begin. That asks the same
questions as a run for each.

### Why the bounds are enough to be of use

- *skiplist*: three levels give a lowest, a middle and a top one, and three keys a predecessor,
  a new node and a successor. Readers change nothing that another thread reads, so one reader
  meets everything that several would.
- *lru*: one bucket to begin with, where the code has four, so that three handles make the table
  grow twice, to 2 and to 4; the hashes 1 and 5 collide in all of these. Capacity 3 with charges
  1 and 2 needs zero, one and two turns of the eviction loop, and capacity 0 turns caching off.
  Three handles are an old and a new entry for a key and another entry; two results per handle
  separate "one left" from "none left". Two shards, one with two keys, let an entry move in or out
  before and behind a scan; the second scanner that another thread would be makes only the changes
  that erasing makes.
- *wal*: a block of 7 with a header of 3 leaves room for 4 bytes, so that the records need from
  none to three fragments and every trailer length occurs, the block with exactly a header left
  too. A buffer of 4 is filled exactly, exceeded and by-passed. The offsets are the start of the
  log, the bytes after the starts of two blocks, and the last of a block.
- *filelock*: one process with two threads is what the table is for; the others have one, and
  three processes let one take what two dispute.
- *files*: more threads than places of either kind; `MaxMappings` bounds the leak of the release
  build only.
- *queue*: four items give a queue with one being run, one waiting and one being pushed, before
  and after the one that schedules.
- *batch*: with radix 2 the lengths that occur in entries need one, two and three bytes of
  varint. One key is a prefix of the other. `MaxCut` is how often contents are cut; each cut is
  at any byte after the header.
- *whole files*: a string of four bytes needs the buffer of two twice and three reads, one of two
  fits; two writes are an old and a new contents of a name.
- *functions*: bytes of a key run over 0 .. 3, which has a largest byte, a smallest one with the top
  bit, and one next to each. Pieces of 18, 21 and 39 bytes have one or two swaths of sixteen, none to
  four words behind them and a tail. A block of 24 bytes has room for pieces below a quarter of it
  and for larger ones. Messages end up to three bytes on either side of the buffer's end.

### Fairness

Safety properties need none. Where something must happen, the fairness is what the code's
scheduling gives:

- `SkipList!FairSpec`: weak fairness of each thread that is inside a call. Nothing in the list
  blocks, so a thread needs only to be scheduled. A thread need not start a call.
- `WAL!Spec`: weak fairness of `Read`, the steps of a reader inside `ReadRecord` and of the caller
  that reads to the end. Nothing is assumed of the writer.
- `BackgroundQueue!QueueSpec`: weak fairness of the background thread: it is scheduled, and a wait that
  was notified returns. Spurious wakeups are not assumed.

## 4. Proofs

The theorems hold for all constants that satisfy the named `ASSUME`s of the modules (keys are
ordered, `Null` comes after all keys, heights and limits are natural numbers, and the like).

**Skip list** (`SkipListProofs`). `TypeCorrect`, `ListsSorted`,
`ReadsAreDefined`, `SkipListImplementsOrderedSet`; for any keys, number of levels and readers.
`LevelsSorted` alone is not inductive: that publishing a node keeps a level sorted depends on the
`prev` entries that the search left, and those on where the search is. The invariant is
`IInv == TypeOK /\ LevelsSorted /\ SearchOK /\ InsertOK /\ IteratorsOK`: `SearchOK` says that a
search stands at a node of its level before its key, and that the entries of `prev` that are
filled are exact predecessors (only the writer moves them, so they stay so); `InsertOK` says how
far an insertion is linked; `IteratorsOK` that an iterator is at a node of the lowest level. The
refinement maps the set to the keys linked on level 0; an insertion takes effect when it
publishes there, a search when it loads the last pointer on level 0, and every other step
stutters.

**Cache** (`CacheProofs`). `ReferencesAreCounted`, `ListsPartitionTheCache`, `TableIsExact`,
`DestructorFreesAll`, and the action properties `PinnedEntriesStay` and `InsertFits`; for any
handles, keys, charges and capacities. The invariant is `TypeOK /\ RefsCounted /\ ListsPartition
/\ TableExact /\ DestroyOK`. The four need each other: that an evicted entry is freed takes
that its count is 1, which takes that it is on `lru_`; that `Erase` finds the entry takes that
the table is exact. `DestroyOK` says what is gone while the destructor runs. `UsageIsExact` adds
`UsageExact /\ IsFiniteSet(Cached)`: a sum over a set is defined by taking its elements one by one,
and that a step changes it by the charge of the entry that comes or goes (`SumRemove`) holds for
finite sets only.

**Hash table and shards** (`CacheProofs`). `TableIsTheMap` says that the chains of `HandleTable` are the
map that the shard takes them for, for any hashes and any first length. Its invariant `TInv` is that of
the shard with `Chained(list, Cached, key)` (the chain of each bucket has, once, exactly the cached
entries whose hash the mask takes there) and `elems = Cardinality(Cached) <= Len(list)`. The lemmas
say what `Append`, `Replace`, `Unlink` do to a chain and what `Resize` does to all of them; those on
`Resize` and on its doubled length are inductions over the length of a chain and over the array.
`ScansAreSound` is `ScansSeeAll` for any number of shards and threads that scan: a scan's total is
between the sums of the least and the most that the shards it has passed had during the call
(`TotalWithin`), and `Prune` has dropped what nobody touched in them. The keys are finitely many, and
`PowersAssumption` states the two facts on powers of two that the provers lack; TLC evaluates it.

**Log, the writer** (`WALProofs`). `OffsetIsExact`, for blocks, headers and buffers of any size, any records,
any number of reopenings, crashes and failures. `OffsetFollowsFile` needs only the types and that the
buffer never runs over (`WriterInv`); the work is in what `Append`, `Flush` and `Close` leave of a file in
each of their outcomes, and in the arithmetic of a trailer.

**Log, recovery** (`WALProofs`, `RecoveryProofs`). `RecoveryIsSound` (`ReturnsWhatWasAdded`),
`RecoveryIsComplete` (`ReturnsAllAcknowledged`), `TornTailIsNotReported` (`TornTailIsSilent`) and
`LastRecordOffsetIsExact` (`LastOffsetExact`): for records of any bytes, blocks, headers and buffers of any
size, any number of reopenings, failed writes, syncs and reads, crashes at any byte, and readers at any
initial offset. None of the four says anything of the bytes on the disk, so none is inductive. Two
invariants are needed besides `WriterInv`:

- `LogInv`: there is a sequence `F` of fragments with `Layout(F, file.disk, log, intact)`. A fragment is a
  record with a block, an offset, a size, and the record it is of with the part it carries
  (`FragmentOK`: it lies in its block). Each lies where the one before it ends, or at the next block when
  no header fits there (`Place`, `Takes`). The disk has its length, its type and its bytes as far as it
  goes (`Written`), so that a crash, which cuts the disk, leaves the same fragments. A record is
  acknowledged exactly when the disk has its last fragment (`Belongs`). While no write has failed, the
  disk ends by the place behind the last fragment; afterwards `F` has the fragments of the acknowledged records
  only, and nothing is said of the bytes behind them. `LayoutAppend` is a turn of `AddRecord`'s loop,
  `LayoutCrash` a crash, `LayoutFailed` a failed write.
- `ReaderInv`: the reader is somewhere along `F`. `Following(F, i)`: its buffer is the window of the
  contents before its position (`Window`), it stands at the `i`-th place (`Standing`), it has returned
  the records before that place which do not begin before the initial offset (`Count`, `HasReturned`),
  and `scratch` has what came before of the record that goes on there, unless that begins before the
  offset (`Assembled`). Otherwise it is `Fresh`, `Past` (skipped behind everything), `Free` (in what a
  failed write left) or `Ended`. `AtFragment` says what `ReadPhysicalRecord` returns at a fragment: the
  fragment, `kBadRecord` when it begins before the offset, or `kEof`, and that only when all acknowledged
  records have been passed. `GetsFollows` goes through the cases of `ReadRecord`'s switch,
  `SkipCall` is `SkipToInitialBlock`.

The four theorems are about `Spec /\ []FileFits`, where `FileFits` is `Len(file.disk) < SizeModulus`: the
reader computes offsets modulo `SizeModulus`, which stands for 2^64. It holds in all states of the run
`wal`. That initial offsets are natural numbers is `OffsetsAssumption`.

**Whole files** (`PosixEnvProofs`). `WritesAreWholeOrGone`, `ReplacingIsAtomic`, `ReadsAreWhole`, for any
names, contents and buffer. The invariant says, besides, that the file being written is the one its
name leads to (`WritesFilename`) with the part of the data that the writer's place tells (`WriteOK`),
that the target's name never leads to it in any of the directory's states (`TargetApart`), and that a
reader's string is the part of a file's contents before its position (`ReadOK`).

**File lock** (`PosixEnvProofs`). `TableExcludes`, `LockLeavesNothing`, `OneThreadExcludes`, for any
processes and threads, from `TypeOK /\ TableIsThreads /\ OwnerHolds`: a process has the file in its
table exactly when one of its threads is at a place between insertion and removal, of which
there is at most one; and an owner of the kernel's lock has a thread at a place that accounts for it.

**Limits** (`PosixEnvProofs`). `PlacesAreAccounted`, `AssertsLimitMappings` (where asserts are
compiled), `DescriptorsAreLimited`, for any finite set of threads and any limits. Each counter is
tied to the cardinality of the set of threads at certain places, and each step moves one thread.

**Queue** (`PosixEnvProofs`). `ItemsRunInOrder`, `WakeupsReach`, for any items, from
`OnceInOrder` and `NoLostWakeup` with what the thread's place says of the mutex.

**Memtable and batches** (`BatchProofs`). `TableNewestFirst`, `SeeksReachKeys`, `SeeksReachAnywhere`, `SequencesAreUnique`,
`CorruptionIsFound`, `BatchesAppliedWhole`; for any radix and widths of the coding, any keys and values
whose lengths the widths can say, and any number of batches. The argument goes from the bytes up:

- *numbers*: what `EncodeFixed` and `EncodeVarint32` write is read back, and what is behind it is left
  (`FixedRead`, `VarintRead`); the bytes of a varint without the last are refused (`VarintCut`). Both are
  inductions over the digits;
- *slices and records*: so is a slice (`SliceRead`, `SliceCut`), and a record (`IterateMeets`): in front of
  whole bytes `Iterate` takes the record that was put there, in front of bytes that were cut off it takes
  one that is whole, or refuses, or has nothing left;
- *keys*: the user key, number, type and value of an entry are the ones it was built from
  (`EntryParts`), `Slice::compare` orders strings by the first byte in which they differ
  (`PrecedesIs`), which is a strict order, and says "greater" of equal ones;
- *table*: `FindGreaterOrEqual` divides a table in order, so that an entry with a number above all others
  goes in front of the older ones of its key (`InsertKeepsOrder`) and a seek stops at the first entry
  of a key, the newest (`SeekIs`). `SeekReachesKey` claims that for sequence numbers that cover all entries
  of the key; below those the comment in `Get` wants older entries, which `GetTakesVisible` states and
  the code violates. `SeeksReachKeys` is about the numbers at which the table has changed and the
  largest one, `SeeksReachAnywhere` about all that cover the key's entries.

None of these is inductive: they say nothing of the bytes in a batch. `BatchInv` adds `RepsInv`
(each batch is a header with the count and the bytes of its updates, laid out one behind the other by
`Laid`, or the start of them if it was cut) and `Running`: while `InsertInto` runs on updates `us`, its input
is the part of their bytes behind the first `found`, these `found` are in the table with the numbers that
follow each other, and the number to come is above all in the table. That a batch cut between two
records is noticed takes both: the input ends, and `found` is less than the count.
`PowersAssumption` states what a power is for the exponents that occur, which the provers lack;
`LengthsAssumption` and `WidthsSuffice` say that lengths, counts and numbers fit in their fields, as they do
in the code for anything below 4 GB and 2^56 updates. TLC evaluates all of them.

**Arena** (`FunctionsProofs`). `NoByteTwice`, for any block size, sizes and addresses. What makes it
inductive: the rest of the current block lies in a block of the arena and no piece has a byte of it.

**Separators, filter, logger** (`FunctionsProofs`). `SeparatorsDivide`, for keys of any length;
`NoKeyIsDenied`, for any policies, keys and hashes: the bits that `KeyMayMatch` tests are at the
positions that `CreateFilter` has set, and later filters are put behind a filter; `LinesAreWhole`,
for any threads and texts, from what each thread's place says of its buffer and its line, and from
the stream holding whole lines only.

**Checksum** (`FunctionsProofs`). `ChecksumOfStream` (`ExtendIsCrc`), with full 32-bit words, for any
pieces of any bytes at any alignment and any number of them. `ExtendIsCrc` speaks of the time between calls
only; the inductive invariant `CrcInv` says what `Extend`'s variables stand for within one: `l` is the
remainder of all the bytes taken, while bytes are taken one by one; the four strides are four words
that have yet to be divided one behind the other (`Taken`), and what comes of that is the remainder.
Also that the first bytes end at the aligned address and not beyond it (`LeadEnds`), without which
`TakeByte` might leave the piece. The argument:

- the division by the polynomial is linear (`AdvanceAdds`) and `m` bits of zeros and then `n` are `m + n`
  (`AdvanceTwice`), by induction over the bits;
- so a table look-up is a division: `STEP1` is eight bits (`StepByte`), `STEP4` is the word with sixteen bytes
  of zeros behind the stride (`StepStride`), `STEP4W` is 32 bits (`StepWord`), and reading four or sixteen bytes
  as words divides them as one number (`DividedBytes`);
- `STEP16` then adds two fours of words, and `Taken` is linear in all four (`StridesTake`); a single word is
  taken by the first stride, which goes last: the others move up by the 32 bits (`StrideTurns`).

That `Unmask` undoes `Mask` (`UnmaskMask`) is an induction over the bits of the three additions, of whose
carries exactly one is set at each bit but the lowest (`PlusMinus`).

**Induction** (`DataInduction`). The library's induction theorems take an operator as a parameter, which
the provers cannot instantiate. `SetInduction` states induction for the *set* of numbers with a
property, which they can, and follows from the well-foundedness of `<`. From it come the existence
of functions defined by recursion on `0 .. m` (`SegmentRecursion`) and what sums over finite sets do.

### Model-checked only

- Liveness (`CallsReturn`, `RecoveryEnds`, `OnlySelfLockBlocks`): fairness and `ENABLED`
  are beyond the prover.
- The violated properties, of course.

## 5. Findings

1. **A refused `LockFile` drops the lock** (`env/env_posix.cpp:546`, run `filelock_twice`). When a
   second thread of a process asks for a file that the first has locked, the table refuses it and
   the call closes the descriptor it had opened. Closing any descriptor of the file releases the
   process's record lock, so the first thread's lock no longer excludes other processes. The
   comment above `PosixLockTable` says that the table is there to protect against multiple uses
   from the same process.
2. **Mappings are not limited in a release build** (`env/env_posix.cpp:187`, run `files_release`).
   `munmap` is called inside `assert`. The library is built as Release, so a file that is
   destroyed stays mapped while its place is given to the next; the comment on `Limiter` says it
   is there so as not to run out of virtual memory.
3. **`MemTable::Get` finds nothing** (`data_structure/slice.h:60`, run `memtable_get`).
   `Slice::compare` returns 1 for equal slices. So the test of the user key in `Get` is never true,
   and the internal key comparator never comes to compare sequence numbers: `Seek` stops at the
   newest entry of a key even when a lookup asks for an older one, against the comment in `Get`.
   Since an entry that compares "greater" than an equal one is put before it, versions are still
   in the order newest first (`NewestFirst`), as long as they are added in order of their numbers.

4. **A synced MANIFEST may lose its name** (`env/env_posix.cpp:211`, run `manifest_name`). The
   constructor of `PosixWritableFile` moves `filename` into `filename_` and then computes
   `dirname_(Dirname(filename))` from what is left, an empty string. So `Sync` of a manifest syncs
   the working directory, with success, and not "the directory of filename_" (line 357).
5. **`AppendInternalKey` takes the user key for a C string** (`db_format/db_format.cpp:15`, run
   `internal_key`). A key with a NUL in it is cut there, against the assertion of `TestKey` in
   `test/test_db_format.cpp`; a key that is a slice of a longer string runs on to the string's end.
6. **`Logv` does not format** (`log/posix_logger.h:62`, run `logger_format`). It calls `snprintf` with a
   `va_list`, where `vsnprintf` was meant: for a format with a conversion the behaviour is undefined,
   and the entry is not "with the specified format" (`env/env.h:77`). `LineWhole` shows that even then
   the line stays within its buffer, if what is printed is a text.

## 6. What the properties say of less obvious behaviour

- The log's writer moves `block_offset_` on when a write fails, and a client that goes on after a
  failure writes a log whose blocks are not where the writer thinks. `ReturnsAllAcknowledged`
  promises only what was acknowledged before; that is what the code gives.
- The same holds when a log with a torn last record is opened again: without checksums the reader
  may take the bytes of the next record for the rest of the torn one.
- `Schedule` notifies before it pushes. That is harmless, because the mutex is held throughout
  (`NoLostWakeup`); what is not is an item that schedules another, which waits for itself since
  items are run with the mutex held. `OnlySelfLockBlocks` shows that this is the only way to block.
- A batch that is cut off between two records parses without error; only the count tells
  (`CorruptionFound`), and the records before the damage have been applied and their sequence
  numbers used.
- `WriteStringToFile` returns before anything is synced, so a rename after it may, after a crash,
  leave part of the new contents under the name. `ReplaceIsAtomic` is about `WriteStringToFileSync`.
- `TotalCharge` may return a number that was the total at no instant; it stays between the sums of
  the shards' least and greatest usages during the call (`ScansSeeAll`).

## 7. Not modelled

- *Iterator's cleanup list*, *`MemTable::Ref` and `Unref`*: used by one thread, in the order of the
  calls; what could go wrong in them (a double free, a cleanup that is not run) is a client's doing.
- *Other directory operations* (`GetChildren`, `CreateDir`, `FileExists`, ..): one system call each and no
  state of the program's. `Env::RemoveFile` and `DeleteFile` call each other unless one of them is
  overridden, as `PosixEnv` does.
- *The accelerated checksum* (`crc32c.cpp`, lines 249 to 270): where the external library is found, `Extend`
  returns what that computes, after a test of one known value.
- *Failing stdio in the logger*: a line that `fwrite` or `fflush` loses is lost without an error.
- *`SingletonEnv`, `NoDestructor`*: a function-local static, which the language makes atomic.
- *`Hash`, `Random`*: arithmetic on 32-bit words. The models take any hash and any height.
- *`Status`, `Slice`, `Options`, `main`, debug strings, the block builder and compression stubs*:
  values, formatting or declarations.
- *`EnvWrapper` and the interfaces in `env.h`*: forwarding and declarations.
- A user's deleter that calls the cache (it would wait for itself), and batches shorter than their
  header.
- Weak memory beyond stale loads of `max_height_`: see the note on `SkipList`.

## 8. Plan

The order is by what would hurt most if it were wrong. Done, in this order: skip list and its
refinement; cache shard, then its hash table; log with files, crash and faults; locks; limits;
queue; coding, keys, memtable, batches; separators and filters; whole files with names and crashes
of the machine; the sharded cache; arena, checksum, logger, internal keys.

Next:

1. A memtable over `OrderedSet` and `Arena` in place of its sequence, so that readers interleave with
   insertion at the level of the list.
2. `MemTable::Ref`/`Unref` and `Iterator`'s cleanup list, once a database uses them from several threads.
3. The database itself, when the repository has one: the order of log, memtable and manifest.

Every safety property that the passing runs check has a theorem; a new one should come with its own.
