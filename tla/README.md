# Verification of otus-homeworks

TLA+ models of the programs of this repository, the TLC runs that check them
and the theorems TLAPS proves about them. Paths below are relative to `src/`,
and `hw-10` stands for `hw-10-bulk`, and so on.

To repeat everything, in this directory:

    tlc -workers 2 -config <run>.cfg <module>    # the table of runs below
    tlapm <module>.tla                           # the modules of section 4

## 1. Inventory

The repository is a series of independent programs. Those with a core logic of
their own:

| part | state it keeps | operations | what is hard about it |
|---|---|---|---|
| **AsyncQueue** (hw-10, hw-9: `async_queue.hpp`) | a deque, a mutex, a condition variable | `push`, `pop`, `try_pop` | notification after the unlock, one waiter at a time, spurious wake-ups |
| **async library** (hw-10, hw-9: `async.cpp`, `global_state.cpp`) | singleton `GlobalState`: contexts by id, two AsyncQueues, the flag `running_`, three `jthread`s | `connect`, `receive`, `disconnect`; `log_worker`, two `file_worker`s | workers started by the first `connect`, stopped by the last `disconnect` through sentinels *and* a flag; restarts while old workers live; check-then-act between `has_contexts` and `request_shutdown` |
| **async_cli / async** (hw-10, hw-9: `main.cpp`) | two client threads | connect all, then receive and disconnect in threads, then static destruction | what is lost, in which order, and whether the process ends |
| **bulk_server** (hw-10: `bulk_server.cpp`, `session.cpp`) | an acceptor, sessions held by their handlers | `do_accept`, `do_read`, `~Session` | handlers of several sessions on several threads; the accept handler may block in `connect` |
| **join_server** (hw-11) | two tables, each behind a `shared_mutex` | INSERT, TRUNCATE, INTERSECTION, SYMMETRIC_DIFFERENCE, one detached thread per client | queries are not atomic: a lock per id and per name |
| **line splitting** (hw-9, hw-10 `receive`, hw-11 `handle_client`) | an unfinished tail, commands collected | a chunk arrives; the client leaves | chunks are cut anywhere |
| **bulk** (hw-7: `bulk.hpp`) | the current bulk, the nesting level | `process_line`, `finish`, two observers | nesting, unbalanced braces, two bulks of one second |
| **bayan** (hw-8) | a directory walk, groups of files | `scan`, `check_blocks` | exclusions and depth; files that change while they are compared |
| **pool allocator, MyList** (hw-3) | a free list through chunks; a singly linked list | `allocate`, `deallocate`, `push_back`, `clear`, destructors | `bad_alloc` anywhere, who owns which memory |
| **vector editor** (hw-5) | a registry of shapes, a window, `example.vec` | New, Open, Save, add | failures in the middle of Open and Save |
| **infinite matrix** (hw-6: `infinity_matrix.hpp`) | a map behind proxies | read, assign, `size`, iterate | defaults must never be stored; a loop's body assigns while it iterates |
| **map-reduce** (hw-12: mappers, reducers, `run_locally.sh`) | sums and counts of the reducers | mean, variance | prices pass through text with six digits and are shuffled; malformed lines |
| **ip filter** (hw-2) | the pool of addresses | parse, sort, filter | which lines count; addresses compare as one unsigned number |

`hw-1`, `hw-4` print constants; `hw-13` is floating-point linear algebra;
`hw-12/src/main.cpp` is a copy of hw-11's; the continuous integration builds
packages. `PROJECT.json` lists all parts with what is modelled of them, and the
hazards, each at its line.

How parts interact: clients (threads of async_cli, sessions of bulk_server)
call the library; `connect` starts the workers, `receive` and `disconnect` push
blocks into the two queues, workers pop them. hw-11's client threads share the
tables. Everything else is sequential, and what moves beside it is its
environment: the clock (hw-7), the file system (hw-8, hw-5), `operator new`
(hw-3).

What makes each correct: a queue loses, repeats and overtakes nothing and leaves
nobody asleep beside an item; the pool serves a client that is connected, every
worker ends and is joined, what is logged is a prefix of what was pushed; a
server's handlers end; an answer of the join server is explained by the tables
during the query; commands do not depend on how the stream was cut; the bulks,
the duplicates and the list's contents are those of a reference definition;
memory has one owner; the window shows the registry; the sparse matrix is a total
map; the statistics are those of the prices, but for what their text loses; all
valid addresses are listed, in order.

## 2. Modules

| module | models | uses |
|---|---|---|
| `FifoQueue` | the abstract blocking queue: `push` and `pop` atomic | |
| `AsyncQueue` | `AsyncQueue<T>`, a step for each critical section and each notification; implements `FifoQueue` | |
| `AsyncLib` | the library and its workers | queues atomic, justified by `AsyncQueue` |
| `BulkServer` | bulk_server | EXTENDS `AsyncLib` |
| `AsyncCli` | the command-line programs and static destruction | EXTENDS `AsyncLib` |
| `Numbering` | the elements of a set of positions in order, which the references of the next and of `Duplicates` are written with | |
| `LineSplitter` | `receive` of hw-9 and hw-10, `handle_client` of hw-11, on the same stream | `Numbering` |
| `JoinServer` (`MCJoinServer`) | hw-11's tables and threads | |
| `CommandParser` | hw-7 | |
| `Duplicates` (`MCDuplicates`) | hw-8 | `Numbering` |
| `PoolAllocator` | hw-3's allocator: operators, and a specification with any user | |
| `MyList` (`MCMyList`) | hw-3's list | EXTENDS `PoolAllocator` |
| `Editor` | hw-5 | |
| `TotalMap` | what hw-6's matrix promises: a value for every cell, and a count | |
| `Matrix` | hw-6; implements `TotalMap` | |
| `IpFilter` | hw-2 | |
| `MapReduce` | hw-12's four programs and the script that runs them | |
| `MCPrograms` | one of the last three at a time, for TLC | EXTENDS `Matrix`, `IpFilter`, `MapReduce` |
| `AsyncQueueProofs`, `AsyncLibProofs`, `JoinServerProofs` | theorems on the module of that name | EXTEND it |
| `CallerProofs` | theorems on `BulkServer`, `AsyncCli`, and on where the blocks of `AsyncCli` are | EXTENDS both and `AsyncLibProofs` |
| `PoolAllocatorProofs` | theorems on `PoolAllocator` and `MyList` | EXTENDS both |
| `ProgramProofs` | theorems on `Matrix` and `Editor` | EXTENDS both |
| `TextProofs` | theorems on `IpFilter`, `CommandParser`, `LineSplitter` and `MapReduce` | EXTENDS all four |
| `DuplicateProofs` | theorems on `Duplicates` | EXTENDS it and, for the lemmas on sequences and positions, `TextProofs` |

Conventions. An operation of the code has an action, or an operator, of its
name. Local state of a thread in the middle of a call is a program counter
(`call`, `pc`, `consumer`) and the rest of the loop it is in (`todo`, `ids`);
whatever runs under one lock is one step. History variables, marked as such,
are read by properties only. Comments that begin with `(mutant` mark variants of
a definition with a plausible bug, used to make sure that a property fails on it.

### AsyncQueue

`push` is two steps, because `push` closes the scope of its lock before
`notify_one`. `pop` locks, tests the predicate of `cv_.wait` and takes the front
or sleeps; a sleeper needs a wake-up (from `notify_one`, which picks any, or a
spurious one) and the mutex again. hw-9 calls its blocking operation `try_pop`.

### AsyncLib

A client is one context; it walks through `connect` (`compare_exchange_strong`
on `running_`, then for each of the three slots the construction of the new
thread and the assignment that first joins the old one, then `emplace`), any number of
`receive`s, and `disconnect` (erase the context, push the rest, `has_contexts`,
`request_shutdown`, three sentinels). Workers read `running_`, pop, and write
what they popped: `logger->info` comes after the queue's mutex is released, so
the other file worker can pop and write in between. A worker is named by its slot and by who spawned it, so the generations of a slot
are different workers; `handle` says which one the `jthread` member owns. Both
programs call `connect` from one thread at a time, and `connect` has that as a
guard.

`BulkServer` puts every call into a handler that occupies one of the
`io_context`'s threads; a session has one read outstanding and the acceptor is
armed again when its handler is through. `AsyncCli` adds main's phases and the
`jthread` destructors in reverse order of the members; main connects all clients
before it starts a thread of any (`Connected`), in hw-9 and hw-10 alike. It also records which block a worker that
is to write has in hand (`block`), and what each has written (`Record`); the empty line that a
file worker of hw-10 makes of a sentinel is left out. hw-9's
workers register a logger by a fixed name, which throws in a pool started for
the second time: no action, since `WorkersStartOnce` shows that it does not come to that.

### LineSplitter

One stream cut into chunks is given to the three programs at once. hw-10 is
modelled as it is: `receive` takes every piece of what it has buffered for a command, the
unfinished one included, and keeps a tail for the next chunk too (looked for in the
first `size` bytes of the buffer), so commands come
out repeated unless chunks end with a newline (a TCP stream's need not). That is `Hw10NeedsWholeLines`. What
hw-9 makes of a stream does not depend on the chunks. hw-11 reads a chunk into a
buffer, ends it with a zero byte and appends the buffer as a C string, so that a
zero byte in a chunk drops what is behind it in the chunk (`CString`): a stream without one is
taken whatever its chunks, and one with them as far as `appended` keeps it.

### JoinServer

A step is a critical section of a table. `run` is there with its early returns
(it is declared `[[noreturn]]`, and returns when `bind` or `listen` fails,
`join_server.h:186` and `:190`). Refused commands change nothing and are left out.

### CommandParser, Duplicates, MyList, Editor

- `CommandParser`: one action for each kind of line, `finish`, the clock. Files
  are named by the second of their first command and overwritten.
- `Duplicates`: the iterator of the walk is a stack of sets of entries, since the
  order of a directory is unspecified. The recursion of `check_blocks` is a stack of
  groups. Each open-and-read and each `file_size` is a step, and a file may
  change or vanish in between. Exclusion is by spelling as in the code: an
  excluded directory that is spelled differently from the walk only loses its
  subdirectories whose names have no dot in front. Include directories that
  overlap list a file twice. A subdirectory that cannot be opened ends the walk
  of its include directory. `open_dir` asks `fs::exists` outside the `try` of the
  scanner; where that throws, `main` prints the error and the program ends
  (`MayThrow`, phase `error`). A checksum is a parameter, any function of a block
  (`Crc`), and may collide: files with equal checksums are printed as
  duplicates, as in the code, whose bytes are never compared.
- `PoolAllocator`, `MyList`: `allocate` and `deallocate` are operators on the
  pool's state; every `operator new` may fail. Sizes are such that a node fits a
  block, or does not. In `hw-3/src/main.cpp` every node of a list or map is
  larger than the block size it asks for, and then the pool grows once and serves
  nothing; the run covers both sizes.
- `Editor`: one action for each handler of the controller; Save is two, the
  `open` with `O_TRUNC` and the write.

### Matrix, IpFilter, MapReduce

- `Matrix`: a proxy is the index it holds, since it looks its cell up at each
  use. Operations are those of any user; between two steps of a loop its body
  may read and assign any cell, except that it does not reset the one under the
  iterator, which would invalidate it.
- `IpFilter`: a line is the pieces its first field has between dots, a piece what
  `stringstream >> int` makes of it (a number or none, and whether text is
  left). `main`'s sort, any permutation
  in descending order, and its four printed lists are one step.
- `MapReduce`: a row is the number of its fields and what `std::stod` makes of the
  ninth. The shuffle takes lines in any order, which includes that of `sort`.
  Whatever is printed, the prices by the mappers and the results by the reducers, passes
  through a stream that keeps `Digits` significant digits (`Streamed`, `Rounded`, to
  the `Nearest`). The mean of no prices is 0/0, a nan. A row with exactly eight fields passes the
  test `fields.size() < 8` and `fields[8]` is then read past the end: any string,
  or the end of the mapper; the properties are about inputs without one.
  Between reading and printing the arithmetic is exact in the model, in a unit in which all prices are whole.

## 3. Runs

| run | module, cfg | bounds | distinct states |
|---|---|---|---|
| `queue` | `AsyncQueue` | 2 producers, 3 consumers, 4 pushes | 10,133 |
| `lib` | `AsyncLib` | 2 clients, 1 block each, pool up or down at the start | 671,386 |
| `server` | `BulkServer` | 2 connections, 1 block, 1 or 2 threads | 621,893 |
| `server_restart` | `BulkServer`, `BulkServer_restart.cfg` | 2 connections, no blocks, 2 threads | violated |
| `cli` | `AsyncCli` | 2 clients, 2 blocks together | 653,023 |
| `join` | `MCJoinServer`, `JoinServer.cfg` | 2 clients, 2 ids, 2 names | 1,397,034 |
| `splitter` | `LineSplitter` | streams of 6 bytes over 2 letters, newline and the zero byte, bulk sizes 0 to 2 | 693,900 |
| `parser` | `CommandParser` | 5 lines, 2 seconds, N of 0, 2, 3 | 175,956 |
| `duplicates` | `MCDuplicates`, `Duplicates.cfg` | 3 files of 4 contents, 3 directories, 9 settings, 1 change | 676,018 |
| `list` | `MCMyList`, `MyList.cfg` | 3 pieces of memory, nodes of 1 and of 2 blocks | 47,229 |
| `editor` | `Editor` | 3 shapes, 6 ids, 2 runs of the program | 5,188 |
| `programs` | `MCPrograms`, `Programs.cfg` | 3 lines of 16; 3 rows of 8; 4 cells, 3 values | 265,067 |

What they show, and why the bounds are enough:

- **queue.** `Fifo`, `NoLostWakeup`, and `ImplementsFifo`: the monitor implements
  the abstract queue with its fairness (a caller gets an item if there is one for ever). Three
  consumers and two producers are the smallest number at which two notifications
  are under way while one consumer sleeps, one wakes and one arrives.
- **lib.** `LiveWorkersAreOwned`, `SentinelCover`, `StoppedPoolEnds`. Two clients,
  and a pool that may already run, give two restarts and two generations alive
  at once, together with a third that has left sentinels behind; one block each is
  enough for one to land between sentinels.
- **server.** Calls of a session do not overlap (`ServerTypeOK`). With one thread
  an open session has a running pool (`SessionHasPool`); with two it does not: an
  accept may fall between `has_contexts` and `request_shutdown`, and the session
  then talks to a pool that is being stopped. `ReadHandlersEnd` holds without any
  fairness for the workers: a read handler never waits for the pool.
- **server_restart.** See *Findings*.
- **cli.** While a client is connected all three workers serve it
  (`PoolServesClients`), and they are started once (`WorkersStartOnce`); what
  lands behind a sentinel is a left-over of a disconnect only
  (`OnlyLeftoversAreLate`); `LogIsPrefix`, `FilesPartitionBlocks`, `QueuesAgree`
  say where every block is at any moment, the ones in the hands of workers
  included. Between the two files the order of writing is open: a worker may stall with a
  block while the other writes later ones, so `FilesPartitionBlocks` orders what is taken. `Terminates`: the destructors' joins
  come to an end. Two blocks, of one client or of both, are enough for blocks to pass one another
  in both queues, for two file workers to compete and for one block to land
  behind the sentinels.
- **join.** A query is not atomic, and these say what its answer is still good for.
  `UntouchedRowsExact`: cells that nobody wrote meanwhile are answered exactly, a
  row once if the query wants it and not at all otherwise.
  `IntersectionRowsHold`, `NamelessRowsNeedTruncate`: rows that changed are
  explained by a concurrent TRUNCATE or INSERT. One writer against one query over
  two ids reaches every order of a lock per id and a write.
- **splitter.** `ChunkingIsIgnored` (hw-9's blocks are those of
  the stream, wherever it was cut, and hw-11's commands those of what it appends,
  which is all of a stream without zero bytes), `BlocksAreFull`, and `Hw10NeedsWholeLines`: hw-10's are if
  every chunk ends with a newline. Every cut of every stream of six bytes: a line in three pieces, runs
  of newlines, chunks that are a newline only, zero bytes at every place of a chunk; blocks of bulk size 1 and 2 that
  fill within a chunk or across chunks.
- **parser.** `ConsoleShowsBulks` against a reference that defines the bulks by
  positions, without a state machine; `FilesKeepLatest`. Five lines hold a nested
  pair with a command, or a static bulk before and after a pair.
- **duplicates.** `ListingComplete`, `ReportExact` against set definitions: the
  groups are the files of one length whose blocks have the same checksums, which are those
  with the same bytes unless two different blocks that are read collide;
  `NoPathTwice` and `BayanEnds` whatever happens to a file. Contents of two bytes and
  blocks of one byte need a second round of comparison; the checksum of the run, the number of
  ones, makes the blocks 01 and 10 collide, and no blocks of one byte.
- **list.** `PoolAccounts`, `HeapOwned`, `ListHoldsValues`,
  with an exception at every allocation. Three pieces of memory let the pool grow
  more than once and a clear put the blocks back in another order.
- **editor.** `WindowShowsRegistry`, `NewIdsAreFresh`, `OpenNeverMixes`, with
  failures of every file operation. Two runs of the program let the second open
  what the first left behind in the middle of a save.
- **programs.** `PrintsSortedLists` against the text of the lines: which are
  addresses, in which lists, how often, in which order. The lines have an octet
  at each end of its range and beyond, pieces too few, too many and with text
  left, and addresses that differ in one octet only. `MeansAgree`: the two mean
  values printed are one, whatever the shuffle, or a nan and 0 without prices; `MeanWithinPrecision`: what is
  printed for a mean is off by half a unit of its last digit twice at most, once for the
  prices and once for the mean itself; `VarianceExact`: two passes
  give the mean square less the squared mean, printed in the same way. The prices are such that they are printed
  exactly, rounded up, down, in a tie to either side, and to one digit more.
  `ImplementsTotalMap` for reads and `size()` after any assignments;
  `LoopSeesSteadyCells` for a loop whose body assigns. Two by two cells are the least
  in which rows and columns both decide the order.

### Fairness

Weak fairness only. A thread that can take a step takes it (C++ promises that
much for threads that are not blocked); a critical section ends. For a queue,
*some* worker that waits gets the front, which is what `FifoQueue!FairSpec`
promises and `AsyncQueue` implements without counting on spurious wake-ups.
`AsyncCli` needs less: of all its threads, *some* one that can take a step does, and
which is left open, since every step brings the end nearer.
No specification makes a client connect, send or leave, except `AsyncCli`, where
the program itself does. In `BulkServer`, `HandlersFairSpec` leaves the workers out
on purpose. `Duplicates` assumes that the program takes its steps.

### Bounds in the models

`MaxPush` (AsyncQueue), `MaxBlocks` (AsyncLib), `MaxTotal` (AsyncCli),
`MaxBytes` (LineSplitter), `MaxLines`, `MaxSecond` (CommandParser), `MaxChanges`
(Duplicates), `MaxShapes`, `MaxIds`, `MaxRuns` (Editor), `MaxRead` (IpFilter),
`MaxRows` and `Shifts` (by how many powers of ten a number can be off from one of
`Digits` digits, MapReduce), and the finite sets given in the cfg files. Two constants
stand for larger ones of the code: octets of 72 values instead of 256 (`Byte`), and
`Digits` = 2 instead of the six a stream prints; the theorems on `IpFilter` are about
any `Byte`. Deadlock is checked in `AsyncQueue` (where a spurious wake-up,
which is always possible for a sleeper, or a call keeps a state alive) and in
`AsyncCli` (where only the end of the process stutters); in the other models the
system may stop: clients need not come back, an input ends.

### Findings

`server_restart`: *"Starting workers: log + file1 + file2"* is logged by
`ensure_workers_started` (`hw-10-bulk/src/async/global_state.cpp:124`), before the three assignments. If a client
connects while the pool of the previous one is being stopped, the first new worker may
take the sentinel meant for an old one. The assignment to `log_thread_` joins that old worker,
which sleeps in `pop`, and nobody pushes a sentinel any more: the accept handler hangs,
and with it `connect`. One io thread is enough: it takes no more than an old worker that has not
come to its sentinel yet when the next client arrives.

Observed while modelling, and part of the models as they are: hw-10's repeated
lines and the `[[noreturn]]` function that returns (above); a worker that leaves by
`running_ = false` leaves blocks of its queue unwritten; hw-12's mappers test
`fields.size() < 8` and read `fields[8]`, and prices and results lose the digits beyond the
sixth when they are printed; hw-11 drops what follows a zero byte in a chunk; hw-8 prints
files as duplicates whose CRC32 collide in every block; a block size of 0 makes hw-8 recurse without end.

## 4. Proofs

All theorems hold for every value of the constants that satisfies the modules'
assumptions: `ThreadAssumption` (finite sets of threads), `LibAssumption` (finitely
many clients, `Main` is none of them), `TableAssumption` (a finite set of integer
ids, names are not empty), `AllocatorAssumption` (sizes are positive, a block size is
a natural number), `EditorAssumption` (bounds are numbers, the program runs at least
once), `MatrixAssumption` (finitely many natural indices, the default is a value),
`FilterAssumption` (an octet has at least one value, lines are pieces), `ParserAssumption`
(braces are no commands, block sizes are natural numbers), `SplitterAssumption` (block
sizes and the bound are natural numbers), `FileAssumption` (a file is no directory, the
block size is positive, there is an include directory, contents are sequences of 0 and 1;
the checksum is any operator), `TreeAssumption`
(finitely many directories, none inside itself: the walk does not follow
links), `MapReduceAssumption` (1 to 9 digits are printed, and a price is less than
10^9 times the least number that does not fit them).

| theorem | says |
|---|---|
| `AsyncQueueProofs!TypeCorrect` | `Spec => []TypeOK` |
| `AsyncQueueProofs!FifoCorrect` | `Spec => []Fifo`, any number of producers, consumers and items |
| `AsyncQueueProofs!WakeupCorrect` | `Spec => []NoLostWakeup` |
| `AsyncQueueProofs!QueueRefines` | every step of the monitor is a step of the abstract queue or a stutter |
| `AsyncLibProofs!LibTypeCorrect` | `Spec => []TypeOK` |
| `AsyncLibProofs!OwnershipCorrect` | `Spec => []LiveWorkersAreOwned` |
| `AsyncLibProofs!CoverCorrect` | `Spec => []SentinelCover`, any number of clients and restarts |
| `CallerProofs!ServerImplementsLib`, `CliImplementsLib` | `ServerSpec => Spec`, `CliSpec => Spec`: the programs inherit the theorems on the library (`ProgramsInherit`) |
| `CallerProofs!ServerTypeCorrect` | `ServerSpec => []ServerTypeOK` |
| `CallerProofs!SessionCorrect` | `ServerSpec => []SessionHasPool`, any number of connections |
| `CallerProofs!ServiceCorrect` | `CliSpec => []PoolServesClients`, any number of clients |
| `CallerProofs!StartCorrect` | `CliSpec => []WorkersStartOnce` |
| `CallerProofs!LeftoversCorrect` | `CliSpec => []OnlyLeftoversAreLate`, any number of clients and blocks |
| `CallerProofs!LogCorrect`, `FilesCorrect`, `AgreeCorrect` | `CliSpec => []LogIsPrefix`, `[]FilesPartitionBlocks`, `[]QueuesAgree` |
| `JoinServerProofs!TypeCorrect` | `Spec => []TypeOK` |
| `JoinServerProofs!ExactCorrect` | `Spec => []UntouchedRowsExact`: each row exactly once, any clients, ids and names |
| `JoinServerProofs!IntersectionCorrect`, `NamelessCorrect` | `Spec => []IntersectionRowsHold`, `Spec => []NamelessRowsNeedTruncate` |
| `PoolAllocatorProofs!AccountsCorrect` | `PoolSpec => []PoolAccounts`, any user of the allocator |
| `PoolAllocatorProofs!OwnershipOfMemory` | `PoolSpec => []HeapOwned` |
| `PoolAllocatorProofs!ListAccountsCorrect` | `Spec => []PoolAccounts /\ []HeapOwned`, with `MyList` as the user, copies that throw included |
| `PoolAllocatorProofs!ListCorrect` | `Spec => []ListHoldsValues`, lists of any length |
| `ProgramProofs!TypeCorrect` | `Spec => []TypeOK` of `Editor` |
| `ProgramProofs!FreshCorrect`, `WindowCorrect`, `OpenCorrect` | `NewIdsAreFresh`, `WindowShowsRegistry`, `OpenNeverMixes` |
| `ProgramProofs!MatrixIsSparse`, `LoopCorrect` | only what differs from the default is stored; `LoopSeesSteadyCells`, for bodies that do not reset the cell under the iterator |
| `ProgramProofs!MatrixRefines` | `MatrixSpec => ImplementsTotalMap` |
| `TextProofs!CollapsedOrder`, `CollapsedFits` | collapsed numbers compare like addresses, and fit 32 bits |
| `TextProofs!ListsCorrect` | `FilterSpec => []PrintsSortedLists`, any lines and any number of them |
| `TextProofs!BulksCorrect`, `BulkFilesCorrect` | `Spec => []ConsoleShowsBulks`, `Spec => []FilesKeepLatest`: any input, any block size, any failures of files |
| `TextProofs!ChunkingCorrect` | `SplitSpec => []ChunkingIsIgnored`: any stream, however it is cut; for hw-11 as far as it has no zero byte |
| `TextProofs!BlocksCorrect`, `WholeLinesCorrect` | `SplitSpec => []BlocksAreFull`, `SplitSpec => []Hw10NeedsWholeLines` |
| `TextProofs!MeansAgreeCorrect`, `PrecisionCorrect`, `VarianceCorrect` | `ReduceSpec => []MeansAgree`, `[]MeanWithinPrecision`, `[]VarianceExact`: any input, any shuffle |
| `DuplicateProofs!BayanTypeCorrect` | `BayanSpec => []BayanTypeOK` |
| `DuplicateProofs!ListingCorrect` | `BayanSpec => []ListingComplete`: any tree, any settings |
| `DuplicateProofs!NoPathTwiceCorrect`, `ReportCorrect` | `BayanSpec => []NoPathTwice`, `BayanSpec => []ReportExact`: any files; the former however they change, the latter for any checksum |

The arguments.

**Queue.** `Fifo` is inductive given the types. `NoLostWakeup` is inductive
once the types are there: a push adds an item and a notifier, a notification
turns a notifier and a sleeper into a locker, or finds no sleeper; a pop takes an item and a
locker. Each is a step about the cardinality of one set, which lemmas on sets that
gain or lose an element provide. The refinement maps `in`, `out` to the
histories and the callers to the consumers that sleep or are about to lock.

**Library.** `LiveWorkersAreOwned` needs that at most one client starts the pool at a time
and that a joined thread has ended; both are part of its invariant.
`SentinelCover` is an inequality between the workers that a queue's sentinels
have to serve and the sentinels. It is inductive together with `TypeOK` and
`NotYetSpawned`: the workers a client is still to spawn do not exist yet. Without
it a `spawn` might make two of one, and nothing would bound the number of workers. The proof has a step for each
action: `request_shutdown` gives up the flag's share and takes on the loop over
`Sentinels`, which pushes exactly that share; a worker that eats a sentinel gives
up one on both sides; a worker that leaves by the flag gives up one on the left. `StoppedPoolEnds`
is what it is for: when no consumer is uncovered, every sleeper will find a sentinel.

**Programs on the library.** Each step of a program is a step of the library's
clients or workers, or leaves the library alone, whence the two refinements.
`SessionHasPool` follows from `OneThread`: with one thread, one handler is
busy at a time (`OneHandler`), so that a session about to stop the pool still
finds no context when it does (`NobodyAtStop`), and a pool with contexts is up (`PoolIsUp`).
`PoolServesClients` and `WorkersStartOnce` come from `CliInv`. It says that calls before
`Connected` are connects (`EarlyCalls`), that one client at most has spawned anything
(`OneSpawns`), that each slot is filled or waits for the one who fills it (`SlotsFill`),
and that until the last context is gone nobody stops, no sentinel is about and
no worker is done (`NobodyStops`, `PoolRuns`). Steps before and after
`Connected` are two lemmas: the former change workers and handles and no queue, the latter the reverse.

**Blocks.** `BlockInv` says of each queue that what was pushed to it is *shared* by what is
still queued and what its workers took (`Taken`: what they wrote, and the block in
hand). `Shared`: every block is in the queue or was
taken by one worker, both keep the order of the pushes, and what a worker took was
pushed before what is still queued. It also says that a
client's numbers are pushed once and in order (`Ascending`, `Counted`), as far as
`Reached` says of a push under way, and that the log has one worker
(`OneLogger`). `Shared` is proved kept by a push, a pop and a step that does neither, such as a write,
which leaves `Taken` as it is, once for every queue; the four properties follow from it. It rests on `CliInv`: that
one client starts the pool, and that nobody stops it before the last context is gone.

**Join server.** `Phase` says what a thread keeps in which state of a command.
`Right(c, id)` says what the loops of client `c` hold of an id is what the tables say of it
now: whether it is still to be visited, which names of it are read, whether its row was
sent. `RightInv` claims it for the ids that nobody touched since the query began.
A step of another client touches an id or leaves its cells as they are, and a step of
`c` itself keeps `Right`. `KeptInv` is weaker and holds for all ids as long as no
table was truncated: tables only grow then. That no row is sent twice is `OnceInv`: an answer has each id once at most, and none that
is still to be visited. The order of the visits does not matter; that the
least id of a set is one of the set does, and is proved from the library's
theorem that strict inclusion of finite sets is well-founded.

**Allocator.** `PoolSpec` lets any user allocate any number of objects, give back what it holds in
any order, and have `operator new` fail anywhere; the run `list` checks
the same invariants with `MyList` as the user. `PoolAccounts` and `HeapOwned` are inductive only together,
with the types and with `FiniteUse` (finitely many blocks are in use): that a chunk's
blocks are new follows from its memory not having been in the heap, hence in no
owned chunk. `GrowthsAreSound` states what a growth leaves behind; `allocate`,
whether it succeeds or throws, only builds on that.

**List.** `ListInv` adds to the allocator's invariant a sequence of nodes: they are the
live blocks, each once, they hold what was pushed, and each links to the next. `Chain` follows the
links from `head_`, and cannot leave that sequence: the least place where it did would
have a predecessor that links elsewhere. Since `deallocate` of one node keeps the others,
`clear` gives all back, whatever the order of the free list becomes.

**Editor.** Ids grow along the registry and none is ahead of the counter, which is
part of `TypeOK` and carries `NewIdsAreFresh`; `OpenNeverMixes` needs that a document on disk
holds the drawing that was saved last.

**Matrix.** Nothing stored is the default (`MatrixIsSparse`), so that reads and
`size()` of the sparse map and of the total one agree, and each assignment is one
of the total map, with `cell` the function of all reads. A loop's iterator
separates the steady cells it has met from those still before it.

**Ip filter.** Two addresses
that agree on their first octets have numbers that do, and one more octet shifts both
by the same factor and adds less than it. `PoolIsRead` counts for each address the lines that
spell it and the places of the pool that hold it; a line more adds one to both or to neither, a
sort permutes the places. That `print_filtered` keeps order and number (`Filtered`) is proved of
every prefix of the pool, by the least one of which it would not hold.

**Parser.** `ConsoleShowsBulks` defines the bulks by counting: levels from balances, segments
from boundaries, groups from ranks. The proof gives each of these a definition for
any lines `s` (`Level`, `Segment`, `Group`, `BulkAt`, `AllBulks`) and says what one line
more does to it: the level goes up, down or stays (`LevelNext`, since a new least balance is
the last one); everything about earlier lines stays; the last segment and its last group are
the only ones that grow. `Open` is the bulk that is still open, `Grown` the same with the
line just read, `Flushes` says when it is complete. `ParseOK` is what the counting needs to
go on: all commands after the last boundary are inside braces, or all are outside and
fill groups of N from the first; and no command of the open bulk comes before one of
a complete bulk. From that, `ParseNext`, `BulksNext`, `BulksAtEnd`: a line, or the end, makes one bulk more or none.
`ParserInv` then ties the program to it: the nesting level is `Level`, the block at hand is
`Open`, console and files are the output of `AllBulks`. It holds for block size 0 as well,
where every command outside braces is a bulk.

**Line splitting.** The recursive functions of the model (`Split`, `NonEmpty`,
`AddCommands`, and the library's `FlattenSeq`) run over `0..n` for the length `n` of their argument.
A function on such a domain that starts and goes on as told exists and is the only one
(`IteratesExist`, `IteratesAgree`, each by the least place where it would
not), so that one element more of the argument is one step more of the function.
From that, what `Split` makes of a stream and a chunk is what it makes of the
stream, its last piece continued. The invariant: the tail of hw-9 and
the `full_cmd` of hw-11 are the unfinished line, of the stream and of what was `appended`, and the commands so far are the runs
that a newline has ended; hw-10's tail is empty, as long as every chunk ends with a newline.
`BlocksAreFull` needs nothing of the stream and follows command by command.

**Duplicates, the walk.** The levels of the iterator belong to a chain of directories, each
the parent of the next, from the include directory down (`Chain`), and
the directory that was entered is no longer among the entries left of the level above:
so nothing is met twice (`NotTwice`; entries of one directory have nothing below them in
common). The length of the chain is the depth, and none of it but the first is
excluded. A file is `Due` while some entry left is the file or above it, and the
include directory wants it. `WalkInv`: times found plus one if it is due is the
number of include directories opened that want it, at most that many if some
directory cannot be opened. A turn of the loop finds what is due, goes down and keeps it due, or turns back
where nothing is wanted. What is above an entry is the least set closed under
`Parent`, which gives induction over the tree.

**Duplicates, the comparison.** `Holds` gives every place of the listing one of the places where
`check_blocks` may have it: printed, in a call to come, waiting, hashing, or dropped, with the
sequences of the model those of the places in order. `NoPathTwice` is then a count, whatever the files do meanwhile.
`Exact` adds, while no file changes, how far files in one call are known to agree
(their checksums, up to the block it is at), that files alike in all checksums are never separated, and that files printed
together are alike to the end, because the file that ended is. At the end nothing is in a call: a group
printed is all of the files that look alike. Without a collision equal checksums are equal blocks, and the
blocks of a file cover its bytes.

**Map-reduce.** `ReduceInv`: what the reducer has, plus what the shuffled lines will add to
it, is a sum over the rows the mapper has read; a sum does not
depend on the order, since taking one element out of a sequence takes its value out of the sum. Rounding moves a
number by at most half of the power of ten it cuts at (`NearestNear`), and that power is at most the
number divided by 10^(Digits - 1) if the digits kept are as many as they should be: that
there is such a power is shown from bounds on the number, which a mean inherits from the
prices it lies between. The bound on the sum adds up those of the prices, and the rounding of
the mean comes on top (`TwoParts`). The squared deviations
are expanded term by term, as sums are linear.

Only model-checked: all liveness (`StoppedPoolEnds`, `ReadHandlersEnd`,
`Terminates`, `BayanEnds`, the fairness part of `ImplementsFifo`), which is out of the
prover's reach as ENABLED is, and `AnnouncedPoolStarts`, which does not hold. Every invariant of a
passing run is stated by a theorem. Induction over data, which the provers cannot take from the
library, is done by the least counterexample throughout.

## 5. Not modelled, and what comes next

1. The log file of hw-10, named by the second of its worker's start and truncated by a
   pool restarted within that second: the models have no clock beside the library. The
   command-line programs start their pool once; for bulk_server it is a hazard without a property.
2. Left out for good: the network beyond "a read yields data or an error"
   (partial sends, SIGPIPE), spdlog and the order of static destruction across
   libraries, copies of the pool allocator, coordinates and colours of shapes,
   floating point (hw-13, and the rounding of double arithmetic in hw-12, as opposed to
   that of printing, which is modelled), `hw-1` and `hw-4`, generated code and
   code that no target compiles (hw-5).
