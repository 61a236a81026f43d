# EyaKV: a TLA+ model of the storage engine, the Raft cluster and the server

This directory holds TLA+ modules for EyaKV, a Redis-like key-value server in
C++ with an LSM storage engine and Raft replication, the TLC configurations that
check them on small instances, and theorems that TLAPS checks for all instances.
Every definition is taken from the source; `PROJECT.json` ("map") gives the
lines each one stands for. Source paths below are relative to `src/`.

## 1. Inventory

| component | state | operations | talks to |
|---|---|---|---|
| SSTable manager (`src/storage/sstable.cpp`) | files in `data_dir_`, level index, `max_level_`, sequence counter, `.smeta` | `create_new_sstable`, `merge_sstables` (two strategies), `normalize_sstables`, `load_all`, `get`, `for_each_oldest` | called by the flush thread and by readers |
| Storage engine (`src/storage/storage.cpp`) | `memtable_`, `immutable_memtables_`, current log file | `write_memtable`, `rotate_memtable`, `flush_memtable_to_sstable`, `get`, `range`, `recover`, `force_flush`, checkpoints | memtable, log, SSTable manager, processors |
| Memtable and skip list (`memtable.cpp`, `skip_list.h`) | nodes with a sequence lock, size counter | `put`, `remove`, `handle_value`, `get` | storage engine |
| Value processors (`processors.cpp`) | none of their own | string, list, set, sorted-set and hash commands and their `recover` | log, memtable |
| Write-ahead log (`wal.cpp`) | open file, `modified_`, `sync_on_write_` | `append_log`, `sync`, `open_wal_file`, `clear`, `recover` | writers, flush thread |
| Thread pool (`threadpool.cpp`) | task queue, `stop_`, two condition variables | `submit`, `stop`, `stop_immediately` | server, Raft node |
| Raft node (`raft.cpp`) | role, term, vote, commit and apply indexes, peers, sessions | election, heartbeat, vote and append handlers, commit, apply, join, snapshot transfer, `submit_command` | Raft log, storage, thread pool, sockets |
| Raft log (`raft_log_array.cpp`) | entries, log file and index file, base index | `append`, `batch_append`, `truncate_from`, `truncate_before`, `recover`, `reset` | Raft node |
| Connection pool and event loop (`server.h`, `tcp_server.cpp`) | connections per reactor, wait queue | accept, close, activate, read, write | Raft node |
| LRU cache, bloom filter, sorted set, serialisation, logger, starter, clients | | | |

Hard behaviour, and what makes each part correct:

* **SSTable manager.** Readers take one level lock after the other while the
  flush thread installs and removes tables; a merge is several steps (write,
  install, drop from the index, unlink) and the process can die between any
  two; the builder can fail, or report success for a file that does not load.
  Correct: a lookup finds the newest entry, no file goes before its replacement
  is complete, a truncated file hurts no other key, a restart does not reorder a
  level, merging ends.
* **Storage engine.** A write is a log record and then a memtable entry, with a
  rotation possible in between; flush, log removal and erasure are three steps;
  readers take no lock on the memtable. Correct: at every moment a restart
  rebuilds what the engine answers; reads never go back in time; every memtable
  reaches an SSTable.
* **Log.** `sync` does its work in two parts, the second without the mutex,
  while other threads append and change files; every call below it can fail.
  Correct: what was acknowledged has left the process; everything reaches the
  disk, but for the failures named.
* **Thread pool.** Timeouts, wake-ups and a stop flag race. Correct: the bound
  holds, accepted tasks run, a stop drains the queue and returns.
* **Raft node.** Handlers run under `mutex_`, but `become_follower` holds it while
  it waits for another server, `submit_command` appends without it, votes and
  announcements travel on connections of their own, and connections break and
  come back. Correct: one leader per term, a winner has what a majority has,
  replicas agree, commits are held by a majority, followers catch up.
* **Leader and log.** Several threads append, register a promise and commit in
  separate steps; the log file and its index file are written one after the
  other; clients repeat requests; the process can die anywhere. Correct: answers
  go to their request, entries run in order, none is skipped, the log in memory
  is the one a restart finds, retries are recognised.
* **Connection pool.** Five kinds of threads close connections, each in seven
  steps, and the closer activates a waiting client; descriptors are reused.
  Correct: every connection has one place, the counter follows the sessions,
  nobody waits while there is room, clients that did not authenticate are known
  to the monitor.

The hazards are listed with their source lines in `PROJECT.json`.

## 2. Modules

| module | models |
|---|---|
| `SSTableManager` | state and steps of the manager; `job` is the position of the one compaction thread, `todo` the pending recursive `merge_sstables` calls |
| `SSTableClients` | the manager with its flusher, a point reader, a scanner and crashes; the properties |
| `SSTableProofs` | proofs about it: the files, the lookups |
| `OrderLemmas` | least and greatest elements of sets of numbers, for the proofs |
| `Processors` | entries, the list, set, hash and sorted-set handlers and tombstones as functions; `Do` is what the commands promise |
| `DurableKV` | abstract specification: a map changed by one client operation after the other, each exactly once; seen by readers (`Spec`) and by a restart (`DurableSpec`) |
| `Storage`, `StorageProofs` | writer, background thread, readers, crash and recovery; instantiates `DurableKV` twice; proofs about it |
| `Wal`, `WalProofs` | a record's way from buffer to kernel to disk |
| `ThreadPool`, `ThreadPoolProofs` | submitters, workers and the thread that stops the pool |
| `Raft`, `RaftProofs` | the RaftNode of every server, follower connections, one-shot messages; proofs about them |
| `RaftLog` | the persistent log array as functions on its memory, files and lock |
| `RaftSubmit`, `RaftSubmitProofs` | a leader's threads, `RaftLog`, commit and apply loops, pending requests, result cache; proofs about them |
| `ConnectionPool`, `ConnectionPoolProofs` | accept loop, slave loops, workers, monitors and `stop`; proofs about them |
| `MC*` | the instances for TLC |

How state and actions correspond to the code:

* **SSTableManager.** A table maps each key to the number of the flush that
  wrote it; blocks, index block, bloom filter and footer only locate entries and
  are left out. A file is `(seq, lvl, tbl)`; a table in the index also has its
  position in the level's vector. `create_new_sstable` starts a flush;
  `create_from_entries_write/fail/install` are the builder and the insertion, and
  `create_from_entries_truncated` the builder that answers true although a
  write failed: the table that is installed has no entries, and the manager goes
  on as after any other. Only tables whose keys are all in `Frail` are cut short like
  that, and the properties speak of the others. `MayMerge` is nondeterministic
  while such a table, whose size field is undefined, is in the level;
  `merge_sstables` takes the next pending call and picks the tables;
  `drop_next_level`, `drop_level` and `unlink_file` follow the code's order,
  one lock or one file at a time; `normalize_sstables` runs at start-up when
  `.smeta` names another strategy. `load_all` is the restart. An incomplete file
  left by a crash has uninitialised level and sequence fields in the code; the
  model lets such a start-up either be harmless or end the process ("dead").
* **Storage.** Writes are serialised by the Raft node, so one writer `wr`:
  `LogWrite` (the record), `Apply` (the handler, with `write_memtable`),
  `RotateMove` and `RotateNew` (the two halves of `rotate_memtable`, between
  which `memtable_` is a null pointer). The handler changes a node between two
  increments of its sequence number (`Writing`); a get that comes in between is
  `MeetWrite`. `ForceFlush` is the rotation of
  `force_flush`. The background thread does `FlushPick`, `FlushCreate`,
  `FlushClear`, `FlushErase` and `Sync`. Readers do one step per layer. `Crash`
  cuts the unsynced tail of the log anywhere, also inside a record, and runs
  `recover`: `tear` says how many records of a file lie before the half record that
  replaying stops at. The SSTable
  manager appears as what its own module shows: the newest entry flushed per key;
  a flushed table is written whole or not at all. `DurableKV` is instantiated
  with the operation in progress as `pending`, so that each concrete write is the
  abstract one with its key, command and argument.
* **Wal.** Counters per file: records written, handed to the kernel, on disk,
  acknowledged. `SyncLocked` and `SyncDisk` are the two parts of `sync`, `Fflush` the
  call whose result nobody looks at (`broken` is the error flag of stdio, which
  `write_record` does look at), `AppendFails` a `write_record` that answers false.
* **Processors.** All handlers have one shape, `handle_value` on an entry of the
  memtable or `from_old` plus a put; `NewValue` is what each does to the value.
  A value is a sequence of items: `<<v>>`, `<<field, value>>` or
  `<<member, score>>`. The recovery callbacks call the same handlers (`Replay`).
* **ThreadPool.** Each critical section is a step, except that evaluating the
  wait predicate and going to sleep are two, since the stop flag is raised
  without the mutex.
* **Raft.** `node[s]` has the fields of `RaftNode`; the ghosts `exec`, `won` and
  `strayed` record executed writes, elections won with the votes counted, and
  whether the server's term was ever taken back or it asked for votes in a term
  other than the one it voted in. `conn[s]` is `follower_client_` with what is on its way in
  both directions; `msgs` holds votes, their answers and NEW_MASTER. A handler
  is one step. Where a handler reads without `mutex_` and acts under it, it is two:
  `CheckNewMaster` and `handle_new_master`; `Timeout`, `BecomeCandidate` and
  `SendRequests`, the three parts of an election; `Ask` and `handle_join_cluster`,
  between which the server asked may have lost its role or its term. The
  newcomer keeps its own `mutex_` meanwhile (`joining`), and `Refused`, `NoAnswer`,
  `Redirected` or `Accepted` is what comes back; `AcceptedLate` takes in a newcomer
  that has given up. `SubmitCheck`, `SubmitAppend`, `SubmitCommit` are the
  steps of a client write. `Crash` keeps what `save_persistent_state` saved;
  `Restart` is the constructor.
* **RaftSubmit.** One leader in one term. `Submit`, `SubmitBatch`, `Scan` and
  `BatchRead` are the checks before anything is written; `AppendWal` and
  `AppendIndex` the two file writes of `append`; `Register`, `Commit`,
  `Notified`, `Timeout` and `CollectCommitted` the rest of the request;
  `ApplyOne` and `ApplyDone` the loop that holds `mutex_`. `log` has the entries
  in memory, the log file as records with their offsets, and the index file.
  A write that fails is one of three: `AppendFails` (seen, nothing is written),
  `AppendWalLost` (`fflush` of the log file fails, nobody looks, the offset is recorded)
  and `AppendIndexLost` (the index file; `append` goes on with a warning, `batch_append`
  may answer false with its records in the log file). `ghost.lost` records that one
  of the last two happened, `ghost.dropped` that a restart gave up the log.
  `Touch` and `Put` are the LRU cache.
* **ConnectionPool.** `client[s]` tells the connection behind a descriptor.
  `Accept`, `Admit`, `Enqueue`, `Refuse`, `Count` and `Ready` are the accept
  loop; `CloseErase` to `CloseCount` are `close_socket`, in the code's order;
  `Expel` is the authentication monitor, `Expire` the queue monitor. The counter
  is unsigned and wraps at `Width`.

## 3. Runs

| run | checks | result |
|---|---|---|
| `sst_serve` | `IndexedOnDisk`, `VectorOrderIsSequenceOrder`, `LevelTablesAgree`, `GetFindsNewest`, `ReaderNeverStale` | pass |
| `sst_normalize` | `KeyNeverLost`, `ScanMissesOnlyUnderMerge`, `CompactionTerminates` | pass |
| `sst_delete` | `DeletedStaysDeleted` | violated |
| `st_recovery` | `TypeOK`, `RecoveryMatchesMemory`, `NothingDurableIsLost`, `DurableMapSpec` (refinement of `DurableKV` by what a restart would find), `EventuallyFlushed` | pass |
| `st_serve` | `GetNeverStale`, `RangeCoversSSTables`, `LiveMapSpec` (refinement of `DurableKV` by what `get` answers) | pass |
| `wal` | `AckedSurvivesProcess`, `EventuallyOnDisk` | pass |
| `tp_stop` | `QueueBounded`, `StopDrains`, `AcceptedTaskRuns`, `ImmediateStopReturns` | pass |
| `raft_elect` | `TypeOK`, `TwoLeadersNeedStrayedVotes`, `WinnerHasMajorityEntries` | pass |
| `raft_replicate` | `ReplicasAgree`, `AppliedWithinLog`, `MatchIndexHeld`, `CommitHeldByMajority`, `FollowerCatchesUp` | pass |
| `raft_overshoot` | `ReplicasAgree` | violated |
| `raft_submit` | `TypeOK`, `AnswerIsOwn`, `RunsInOrder`, `RecoveryFindsLog`, `RetryFindsLatest`, `AppendedIsApplied` | pass |
| `conn_pool` | `OnePlaceEach`, `CountMatchesSessions`, `NobodyWaitsInVain`, `StrangersAreWatched` | pass |

* `sst_serve`: both strategies, a reader at every step, failing builders, builders
  that truncate a table of key 1 unnoticed, one crash at any step; lookups and
  reads are judged by key 2, which lies in tables that are merged with the truncated
  one. The properties carry the provisos under which the code
  keeps them: no unlink loop cut short by a crash (`interrupted`), no level
  added during a read, keys that are not deleted, and no start under the level
  strategy with tables that another strategy left (`mixed`). Section 6 says what happens
  without them.
* `sst_normalize`: restarts may change the strategy; truncated tables as above.
* `st_recovery` uses strings and both log strategies: whatever step a crash hits,
  replaying the remaining logs gives what `get` answered, and the worst outcome
  of a crash never gets worse. That is said as long as no record lies behind half
  a record (`Hidden`): section 6 says what becomes of those. With
  `IMMEDIATE_ON_WRITE` the engine implements the durable map. With the background strategy that refinement does not hold: a
  flush can complete while the records it covers are still in the log buffer,
  and a crash then replays a prefix of the records over newer SSTable values.
  `EventuallyFlushed` allows the builder to fail, but not for ever.
* `st_serve`: two readers beside the writer and the flusher, whose flushes may fail,
  on strings that are also deleted (`ReadersOfStrings`: their properties speak of those); and a list, set, hash or sorted set spread over memtable, immutable
  memtables and SSTables behaves as one value: `LiveMapSpec` ties every
  change of what `get` answers to the write that was asked for, `DEL` included. A key
  whose tombstone is in the memtable counts as missing, although `Storage::get`
  goes past the tombstone (section 6). The contents of the reference map
  are changed by the same `NewValue`: this is about finding, copying and
  putting the value, not about the containers.
* `wal`: all three strategies. A file whose `fflush` or `fwrite` failed is excepted from both
  properties, one whose `dup` or `fdatasync` failed from the second: `sync` has
  cleared `modified_` by then and nobody tries again (section 6).
* `raft_elect`: three members, one of them lagging, one write, one broken
  connection, one term above the first. Once votes have strayed a state is
  not followed further (`UntilStrayed`): section 6 says what can happen then. After the
  connection broke, states in which more than one thread waits for a `mutex_` are
  not followed either (`FewThreads`); before that any number may, and one is enough for each
  of the races between a check and its action.
* `raft_replicate`: two members and a third server that joins; `b` lags at the
  start; one `SET_MASTER` or `REMOVE_NODE`; one crash. Clients write to `a`, the
  server that is never told to join another.
* `raft_overshoot`: four members, all writes to `a`, two crashes each of `a` and `c`.
  The state constraint `Course` only directs the search; the violating behaviour
  is one of the specification (section 6).
* `raft_submit`: two threads, a batch that mixes reads and writes and repeats a
  request id, both values of `need_majority_confirm_`, a follower that joins,
  one write of a log file that fails, seen or unseen, two crashes; requests, crashes and
  failures together no more than four (`Effort`). `AppendedIsApplied` asks that the entry
  was executed in this life, not that `last_applied_` passed it.
* `conn_pool`: the limit is one connection and one waiting, so that each of
  three clients is admitted, queued and refused in turn.

**Bounds.** Two keys are enough for tables to overlap or not and for a merge to
move one key and leave the other; thresholds of 2 make every second table merge;
four flushed tables (three in `sst_normalize`) reach three levels; `MemLimit = 3` rotates after one or two
writes, so four or five operations give several immutable memtables at once, one
being flushed; two crashes allow a crash after a recovery (`Effort`: four operations
with one crash or three with two; a write after the first crash is what hides
a record behind half of another). `Workloads` lets one
run start with strings, with lists and sets or with hashes and sorted sets. In the pool, three
submitters, two workers and a queue of one make submitters wait together. In the
log, two writers and two files let every sync race an append and a file change.
In `Raft`, three servers are the least with a majority that excludes one;
`Batch = 1` makes a follower need several rounds; `MaxTerm`, `MaxWrites`,
`MaxDrops`, `MaxRestarts`, `MaxCommands` bound events, and `MaxQueue` keeps
heartbeats off a connection with messages on it (with 0 there are none, in
`raft_elect`, where elections start from servers whose connection broke).
`Behind` starts a member without the first write. In `RaftSubmit`,
`LogThreshold = 2` brings the log over `log_size_threshold`, `Capacity = 2` with
three request ids brings the cache to its limit, two crashes let a restart
recover what a restarted process wrote, and two requests with one crash and one
failure bring an append to an index that `last_applied_` already counts. In `ConnectionPool`, three descriptors
and three arrivals let a descriptor be reused; `Width = 8` is above every value
the counter can reach from below and shows it wrapping from above.
`CHECK_DEADLOCK FALSE` everywhere: the bounded clients stop, and so may a server
without clients.

**Fairness.** `SSTableClients`: the compaction thread goes on with a job it has
begun (it has no condition to wait for). `Storage`: a write in progress runs to
its end, and the background thread, woken by every rotation and by its interval,
flushes. `Wal`: a call runs to its end and, with the background strategy, the
thread syncs every interval. `ThreadPool`: threads that can run do; nobody is
obliged to submit or stop. `Raft` (in
`raft_replicate`): the heartbeat thread of the leader and the follower loops
come back from waits with a timeout, so heartbeats, message handling, answers
and the apply step are taken. `RaftSubmit`: some thread that can run does, a
stopped process is started again, a connected follower answers. Readers,
elections, joins, commands, crashes, failures and clients have none.

The type invariants of `SSTableClients`, `Wal`, `ThreadPool` and `ConnectionPool` are
proved (section 4) and not repeated in the runs; those of `RaftSubmit`, `Raft`
and, for strings, `Storage` are both checked and proved.

Each property of a passing run has a mutant of a mapped definition under which
TLC finds it violated.

## 4. Proofs

All for every value of the constants, from the `ASSUME`s of the modules (types
of the constants, non-empty or finite sets, distinct names, positive sizes; in
`Raft`, that a member can lag at the start only if a write may exist), which TLC
evaluates in the runs.

| theorem | statement |
|---|---|
| `SSTableProofs!TypeCorrect` | `Spec => []TypeOK` |
| `SSTableProofs!IndexedOnDiskAlways` | a table in the index has its file |
| `SSTableProofs!VectorOrderAlways` | insertion order is sequence order |
| `SSTableProofs!NoKeyIsLost` | a key that is never deleted and in no truncated file never leaves the disk |
| `SSTableProofs!GetFindsNewestAlways` | a lookup finds the newest entry flushed (of a key that was in no truncated file, here and below) |
| `SSTableProofs!LevelTablesAgreeAlways` | tables of a level agree, up to those the next merge takes together |
| `SSTableProofs!ReaderNeverStaleAlways` | a reader that goes level by level returns nothing older than its start |
| `SSTableProofs!ScanMissesOnlyUnderMergeAlways` | a scan misses a key only beside a merge |
| `ThreadPoolProofs!PoolTypeCorrect`, `QueueAlwaysBounded`, `StopAlwaysDrains` | types, bound, draining |
| `WalProofs!WalTypeCorrect`, `AckedAlwaysSurvives` | types; acknowledged records have left the process, unless an `fwrite` or `fflush` of the file failed |
| `StorageProofs!TypeCorrect` | types and the order of the immutable memtables, for strings |
| `StorageProofs!GetNeverStaleAlways` | a get that met no write of its key returns nothing older than its start, for strings |
| `StorageProofs!RangeCoversSSTablesAlways` | before a crash a range covers the SSTables it began with, for strings |
| `ConnectionPoolProofs!TypeCorrect` | types of the pool, the closers and the monitors |
| `ConnectionPoolProofs!OnePlaceEachAlways` | a connection has one place |
| `ConnectionPoolProofs!CountMatchesSessionsAlways` | the counter follows the sessions |
| `ConnectionPoolProofs!NobodyWaitsInVainAlways` | nobody waits while there is room |
| `ConnectionPoolProofs!StrangersAreWatchedAlways` | the monitor knows who has not authenticated |
| `RaftSubmitProofs!TypeCorrect` | types; `commit_index_` is within the log (as long as no write failed unnoticed, here and in the next four) |
| `RaftSubmitProofs!AnswerIsOwnAlways` | answers go to their request |
| `RaftSubmitProofs!RunsInOrderAlways` | commands run in log order; until a restart gives up the log, what is recorded as applied was run as the entry the log has there |
| `RaftSubmitProofs!RecoveryFindsLogAlways` | a restart finds the log |
| `RaftSubmitProofs!RetryFindsLatestAlways` | a retry finds the latest run |
| `RaftProofs!TypeCorrect` | types of every server and connection |
| `RaftProofs!MatchIndexHeldAlways` | `match_index_` is not ahead of a connected follower |
| `RaftProofs!TwoLeadersNeedStrayedVotesAlways` | one leader per term, until votes stray |
| `RaftProofs!LogsAgreeAlways` | with one writer, any two logs agree on the indexes both have |
| `RaftProofs!ReplicasAgreeAlways` | so do the executed writes, as long as nobody applies past its log |

* **SSTable.** `IndexedOnDisk` is not inductive: one has to know which of the
  tables a merge holds are still in the index at each of its steps (`JobStage`),
  that sequence numbers identify tables and grow with positions
  (`Numbered`) and that a file that did not load is in the index without entries and not among the
  complete ones (`Filed`); together `IndexInv`. `NoKeyIsLost` adds `DataInv`: the output of
  a merge holds every key of its inputs, and once inputs start to go a file
  outside the merge holds it. The lemmas on `Search` and `Merged` need that a
  set of tables with bounded positions has a first one in lookup order, which
  `OrderLemmas` derives from least elements of sets of naturals.
* **Lookups.** During a merge the index goes through three sets only, and what
  they are is fixed when the merge starts: with all inputs and the output, without
  the inputs of the next level, without any input (`Stage`). `SearchInv` says
  that lookups in each of them find the newest versions; it is proved once, where
  the merge starts, and the steps of the merge only move from one set to the
  next. It needs `StoreInv`: which sequence numbers are in use (`TidyInv`), that
  every entry of the output is one of its inputs' (`SourceInv`), that
  versions grow (`VersionInv`), and that under the level strategy the inputs are
  the oldest table of a level and everything it overlaps below. A reader that has
  come to a level sees only a part of the index: `PassInv` compares those parts
  before, during and after the merge, and `ReaderInv` says that neither what is
  still to be searched nor what appeared behind the reader is too old. `ScanInv`
  is the same for the scan, which goes from the deepest level up.
* **Storage.** The theorems assume `StringsOnly`: clients use `SET` and `DEL`, as in
  the runs `st_serve` and `st_recovery`. Then an entry is absent, a tombstone or the
  value of a numbered write, and numbers say which is newer (`Entries`). Readers
  need two facts about what they have not looked at yet. `GetInv`: neither
  the memtable nor a table below hides something older than what the key held when
  the read began; a rotation moves such a table, a write adds a newer one, a flush
  changes who answers but not what (`OldEntryAppend`, `OldEntryFlush`,
  `OldEntryTail`). `RangeInv` needs more, since a range reads the SSTables first:
  every layer covers the ones below (`LayerInv`). That is lost by a crash that cuts
  the log below what an SSTable already holds, so the theorem speaks of the time
  before the first crash; all others include crashes. For a crash one has to know
  what `recover` rebuilds from any log: tables with such entries in file order,
  one per non-empty file (`RecoverIs`). The recursive functions it is written with
  have a solution by `Iterate`, and `Climb` is induction over a set of numbers;
  both come from least elements of sets of naturals. `FlushInv` ties the table
  being flushed to the oldest immutable one: without it `FlushErase` could drop
  entries that are nowhere else. Half a record only makes replay stop earlier, one
  more way to cut the log; `TearInv`: a file of which nothing can be read is empty and
  not the current one.
* **Connection pool.** `Places` says where an open connection can be (session,
  queue, accept loop, one activating closer) and that these exclude each other.
  `Balance` is what the counter would be as an integer; the counter is `Balance`
  modulo `Width`. For `NobodyWaitsInVain` the counter also has to stay within its
  width, and while somebody waits the counter, the closers about to activate and
  the places lost to failed activations together fill the limit (`Room`): no step
  frees a place without a closer that is going to give it away.
  `StrangersAreWatched` is inductive together with `Places`.
  `Width > MaxConnections + Cardinality(Closers) + 1` is assumed: the code's
  counter has 32 bits or more and the limit is a configured number of connections.
* **Leader and log.** The theorems hold as long as no write of the log's two files failed
  with the call going on: the invariant is `IInv \/ WriteLost`, and nothing undoes
  `WriteLost`. Afterwards offsets, records and memory need not belong together any more;
  what the properties still say then is model-checked. `IInv` is a conjunction of seven
  parts, each needed by the next. `Types`; `ThreadInv`: a group is of one kind, exactly one thread is between
  the two writes of an append and holds the log's mutex, a process that is down
  has nothing in memory. `LogInv`: the records of the file lie one behind the
  other (`FileInv`), every offset of the index file is one of a record, and it is
  the record of the entry in memory at that position unless it was misplaced
  (`MemoryInv`), and between the two writes the last records are those of the
  thread that is writing (`TailInv`). `RanInv`: until a restart gives up the log, the
  file has the record of every command that ran, where the index file says, unless it was
  misplaced; it ties executions of former lives to the entries of this one. `RunInv`: how far the loops are and that
  what ran is a prefix of the log in order (`OrderInv`), with the commit index
  within the log. `CacheInv`: ids in the cache are distinct, each result is the
  last run of its id, and as long as no more ids ran than the cache has room for
  all of them are in it. `AnswerInv`: a promise and every reply is about its
  own command, and a thread whose single command waits for an index waits for its
  own entry, or the write failed. The offsets of a batch are a recursive function; what is
  needed of it (later records lie further on, the layout does not depend on where
  the batch starts, no record passes the end of the file) follows from least
  counterexamples among naturals, since induction over data is out of reach. The
  commit index of a majority exists because a finite set of followers has one
  that all have reached.
* **Raft.** The handlers take a world (servers, connections, messages) to a world, and
  so do the lemmas: a world that is `Fine` stays `Fine` under each operator a handler
  is composed of, and the proof of an action follows that composition. `Fine` has
  four parts. `Ok` is the types. `Held` strengthens `MatchIndexHeld`: an answer still
  on its way carries an index the follower has too, and a server with an open
  connection is no leader; without it an old answer could raise `match_index_` after
  the log was cleared. `Keeps` says that a step, while no votes stray, undoes
  no vote and makes none: that is all an election minds of the other actions. The
  three handlers that do vote are proved with `Ballots`: for every server and term
  there is one vote in a book, a vote or request on its way is in the book, the vote of
  a server whose thread has yet to ask for others' is in the book, a
  candidate has counted no more votes than there are in the book that have arrived,
  and whoever was elected had as many. The model forgets votes of past
  terms, so the invariant says that such a book exists (`\E b \in Books`) or that
  votes have strayed. Two books' worth of more than half of the servers share a server
  (`OneElected`).
* **Raft, one writer.** The two theorems on logs assume that clients write to `Master`
  only and that it is never told to join another server (`Writers \subseteq {Master}`,
  `Master \notin Joiners`), as in `raft_replicate`; servers, elections, joins of others,
  removals, lost connections, crashes and bounds are arbitrary. Where two servers
  take writes the logs do diverge (section 6). `LogsAgree` is not inductive: a
  message on its way, sent before other steps, becomes part of a log later. `Copies`
  says that every log is a prefix of the log of `Master`, which no command clears, and
  the entries of every message are those at the same indexes of it. `Echo`, the fourth
  part of `Fine`, says of every step but `SubmitAppend`: whatever log all logs
  and messages were taken from, they still are; nobody outside `Joiners` loses
  entries; and a server that had executed exactly its log up to `last_applied_` still
  has, or has applied past its log. It is proved operator by operator like the
  rest, so that the steps need not be looked at twice. An append makes the
  log of `Master` longer, and what was taken from it stays so (`CopyGrows`);
  `Stages` says that nobody else is ever in the middle of `submit_command`. The premise
  `[]AppliedWithinLog` is a property the run checks and not a consequence of the
  assumptions: the attempt to derive it is what showed the behaviour of `raft_overshoot`.
* **Thread pool.** `TaskInv`: a task is in the queue, with one worker, or done,
  once; after a worker has left no early task is queued.
* **Log.** `PathInv`: when `modified_` is clear the kernel has all of the open
  file, and closed files are complete; a thread that appends names a record that
  was written, and after the locked part of `sync` one the kernel has; each of these
  up to files with the error flag set.

## 5. Only model-checked

Liveness (`CompactionTerminates`, `EventuallyFlushed`, `EventuallyOnDisk`,
`AcceptedTaskRuns`, `ImmediateStopReturns`, `FollowerCatchesUp`,
`AppendedIsApplied`): fairness and `ENABLED` are out of the prover's reach.
Of `RaftSubmit`: everything after a write of the log's files failed unnoticed (`ghost.lost`).
Of `Storage`: the two refinements of `DurableKV`, `RecoveryMatchesMemory` and
`NothingDurableIsLost`, which compare the memtables with what replaying the log
files yields, record by record, `LiveMapSpec` and `DurableMapSpec` also when records are torn; and everything about lists, sets, hashes and
sorted sets, whose entries depend on all the operations before. Of `Raft`:
`AppliedWithinLog`, which holds in `raft_replicate` and, as `raft_overshoot` shows,
not in general; `CommitHeldByMajority`, which is checked on three servers; and
`WinnerHasMajorityEntries`, which needs that no server is left out of a node list
and would need the history of votes beside that of logs. Not stated as a theorem is what the code does not promise: `DeletedStaysDeleted` is
violated, and the provisos in the properties (`interrupted`, `mixed`,
`Frail`, `broken`, `unsynced`, `Hidden`, `met`, `strayed`, `ghost.below`, `ghost.misplaced`,
`ghost.failed`, `ghost.lost`, `ghost.dropped`) are cases where the code
misses what its comments say; section 6 lists them.

## 6. Where code and documentation disagree

Shown by runs (findings in `PROJECT.json`):

* A merge drops a tombstone above older values (`sst_delete`).
* A leader passes its own log (`raft_overshoot`; `raft.cpp:1558`, README.md:32 promises
  consistency between nodes). `try_commit_entries` takes the middle of the match
  indexes, which may lie beyond the leader's log when its followers have more, and
  only compares the entry's term with its own; `get_term` is 0 for a
  missing entry, which is the term of a leader that nobody elected. In the run `a`
  leads at term 0 with writes 1 and 2, of which `c` only has the first; `a` and
  `c` crash, `c` restarts while `a` is down and leads; `a`, `b` and `d` join it, `d` is
  lost again, and the answers of `a` and `b` let `c` commit and apply index 2. Later
  `c` restarts and follows `a`: it stores write 2 without executing it, then executes 3.

The model also shows the following, which the passing runs exclude by their
operations, bounds or provisos:

* A crash between the flush of a list and the removal of its log applies pushes
  twice (`storage.cpp:516`; README.md:588 promises replay): `RecoveryMatchesMemory`
  fails with `r_push` in the workload.
* `stop` can wait for ever for a worker that evaluated its predicate before the
  flag was raised and slept after the broadcast (`threadpool.cpp:107`;
  `threadpool.h:80` says it waits for the queued tasks only): `ShutdownReturns`
  in `ThreadPool` fails for the graceful stop.
* `SSTableManager::get` reads `max_level_` once; a merge that creates a deeper
  level meanwhile hides the merged table from it. A scan, which copies the
  deepest level first, misses a table that a merge moves down meanwhile.
* A crash between the unlinks of merged tables can leave an old table above the
  merged one, and it wins after the restart.
* After a change of strategy the level strategy can meet tables of one level that
  disagree: `normalize_sstables` is to handle what does not fit the current
  strategy (`sstable.h:449-450`), but it leaves the deepest level alone. The properties of the
  level strategy therefore exclude runs with `mixed`; without that premise they
  fail, with two keys, one change of strategy, thresholds of 2, five flushes and
  one crash, after 40 steps.
* The builder looks at no result of `fwrite` and `fflush` (`sstable.cpp:619`, 644, 653,
  663-681, 697). On a full disk `finish()` can answer true for a truncated file;
  `create_from_entries` installs an `SSTable` whose `load()` failed, and the flush
  removes its log, or the merge unlinks its sources: the keys of that table are gone
  (`KeyNeverLost` and `GetFindsNewest` fail without `Frail`). The table has
  no path, so the file stays and every later start-up meets it.
* `sstable_count_` is only set by `load_all`, so `empty()` and
  `get_sstable_count()` ignore tables created since.
* `Storage::get` does not stop at a tombstone of the memtable (`storage.cpp:277-284`): until it is
  rotated, a deleted key answers with what lies below. Recovery does
  not replay `DEL`: `Storage::remove` fails to append, no log file being open.
* A crash in the middle of a log write leaves half a record. `Wal::recover` stops in
  front of it (`wal.cpp:188-221`), does not truncate the file, and `recover` reopens it for
  appending (`storage.cpp:209-211`): records synced after that lie behind the half one, and
  the next restart does not find them. Without `~Hidden`, `RecoveryMatchesMemory`,
  `NothingDurableIsLost` and `DurableMapSpec` fail.
* `SkipListNode::get_value` promises to retry while a write is in progress and to return
  "完整且一致的 Value 拷贝" (`skip_list.h:86-94`), but its `continue` goes to the loop condition, which holds:
  a get that meets an ordinary `SET` of an existing key, or a handler, answers with
  a default value (`GetNeverStale` fails without `met`). One that reads the number before
  the write and the value during it copies a string while it is assigned, which is
  undefined; the model lets the process die there.
* A put that finds the memtable full lands in the next one, while its record is
  in the old log file, which goes with the old memtable.
* A recovered memtable without entries is dropped without its log file.
* `range` lets older immutable memtables overwrite newer ones, and reads the
  SSTables before them: a memtable flushed in between is in neither.
* A reader without lock can meet the moved-from `memtable_`.
* A handler that throws on a wrong type leaves the node's sequence lock odd.
* `Wal::sync` ignores the result of `fflush` (`wal.cpp:279`), clears `modified_` and goes on:
  with `IMMEDIATE_ON_WRITE` (`wal.h:26`, `config.h:43`) a record is acknowledged that is still in
  the process, also by another thread that finds `modified_` clear. After a failed `dup`
  (295-299) or `fdatasync` nobody tries again before the next write.
* With the strategy that leaves syncing to the system (`config.h:44`) records stay in the
  stdio buffer, which the system does not know, until the buffer is full or the file changes.
* With `IMMEDIATE_ON_WRITE` a writer whose record went with another thread's
  `sync` returns before that `fdatasync` is over.
* A submitter that read `stop_` before it was raised can queue a task after the
  workers have left.

* `ZSet::zrem_range_by_score` (`zset.cpp:224`, "先找出范围内成员，用于同步删除哈希表")
  asks `SkipList::range_by_key` for the members to erase from the hash map; that
  function starts at the last node not above the lower bound, so the map loses
  the member before the range while the list keeps it (and `ZRANGEBYSCORE`
  answers with it, or with the empty head). Score, rank and cardinality of the
  set are wrong from then on, and adding the member again stores it twice.

About Raft:

* `handle_join_cluster_response` takes a lower term and keeps `voted_for_`
  (`raft.cpp:373`): the server can vote twice in a term, and a term gets two
  leaders (`ElectionSafety` fails without its exception), although `voted_for_`
  is documented as the vote of this term (`raft.h:101`).
* `handle_new_master` compares the term without `mutex_` and then sets it under `mutex_`
  (`raft.cpp:3105-3146`). A vote in between that raised the term is forgotten and the term
  goes back: the server votes again, and with three servers a term gets two
  leaders without any join or `SET_MASTER`.
* A candidate that hears of the leader of a later term takes over the term and forgets its vote
  (3141-3142), but it keeps its role and its own vote in `granted_votes_` until a join
  succeeds. `send_request_vote`, which reads the term again after `become_candidate` has
  released `mutex_` (766, 964), then asks for votes in a term in which the server has not
  voted for itself; with five servers that term can get two leaders.
* A candidate needs a majority of the servers it knows. `NEW_NODE_JOIN` and
  `LEAVE_NODE` that are lost with a connection leave node lists that differ, so two
  groups can each elect a leader in one term: with five servers, three lost
  connections and three `REMOVE_NODE` no term is lowered and two servers win the same
  term, one of them with fewer votes than half of the servers. `ElectionSafety`
  therefore speaks of servers elected by more than half of all; with three servers
  the runs do not reach the difference.
* A restarted server that learns of no leader leads at once, without an election;
  a leader without connections commits alone, since only connected followers are
  counted.
* The late answer of a removed node brings its `match_index_` entry back, and it
  counts for the majority.
* `SET_MASTER` between the role check and the append of `submit_command`
  (`raft.cpp:2288`) leaves the entry in the log of what is now a follower.
* A server that follows another while it has followers locks
  `follower_sockets_mutex_` twice (`raft.cpp:690`); in `follower_client_loop`
  nobody catches that.
* An entry applied between its append and the registration of its promise is
  answered "command timeout" although it was executed.
* A retry that arrives before the first run ended is executed too; the cache only
  knows finished requests (`raft.h:465`, "避免重复执行").
* The first append after a restart records offset 0 (`raft_log_array.cpp:87`); the
  next restart reads another entry there, or loses the log.
* Above `log_size_threshold` every append throws after writing its entry, because
  `truncate_before` locks the mutex that `append` holds. The log therefore always
  starts at index 1 and snapshots are never sent.
* `append` answers -1, which is `true`, for a failed write (line 250).
* A failed write of the index file is only a warning in `append` (258-261, 301-305), `batch_append`
  answers false when its records are in the log file already (352-356), and the results of
  `fflush` (113, 158, 228, 357) are not looked at: memory has an entry that the files lack, or
  offsets of records that are not there. A restart then reads other entries at those
  indexes, or finds one offset unreadable and gives up the whole log.
* The constructor caps `commit_index_` at the log but not `last_applied_` (`raft.cpp:157-167`).
  After a restart that found less than there was, what is appended at an index up to
  `last_applied_` is committed and never executed (1439-1445, 1612);
  `AppendedIsApplied` fails without `counted`, and the run reaches that case.
* Entries found by a restart are committed only with the next write.
* The constructor starts the follower thread before `thread_pool_` exists, and the
  tasks of `send_request_vote` and `broadcast_new_master` capture references to
  locals; the model has neither.

About connections:

* Two closers can both test `current_connections_ > 0` while it is 1
  (`server.h:1141`) and both decrement it: the unsigned counter wraps, every later
  client is queued, and nobody activates those although no connection is open
  (`ghost.below`; with three descriptors, a limit of one and two slave loops,
  after 34 states).
* Concurrent closers can activate more clients than the limit allows.
* A session closed before it was counted, with the counter at 0, leaves the
  counter one too high for good.
* A client that authenticates before it is entered in `connections_without_auth_`
  is expelled by the monitor; a descriptor closed late can belong to a new client.
* A connection accepted during `stop()` can stay open.
* A failed activation leaves a free place while others wait until they expire.

## 7. Not modelled

In the modelled parts: expiry, read-only mode, `force_flush` writing tables beside the
background thread, `ZREMRANGEBYSCORE`, the shards and links of the skip list,
file formats, the block cache. Of failures: in `Storage`, the `append_log` whose
result the processors ignore and what part of a record it leaves (`Wal` has the
failing call), and a flushed table that does not load, with whose log the flush does away
(`SSTableManager` has it); a truncated table with holes, whose footer was
written although data before it were not; the directory entries of new files. In Raft, a
crash inside a handler (`RaftSubmit` has
crashes between the steps of a request), message encoding, the trust check and
the monitor of sockets that never identify themselves; the lock-free moment between the last
line of `handle_new_master` under `mutex_` (3146) and `become_follower`, and the one between
reading the last entry and the term in `send_request_vote` (961-964). In the Raft log,
half an offset in the index file; a failure that is seen (`AppendFails`) leaves
nothing in the log file; executing an entry and putting its result into the cache
(1468 and 1488, 1619 and 1639) are one step, so that a look into the cache in between
is not distinguished from one before. In the server, buffered
sends, partial reads and the base class's accept loop, which `EyaServer` replaces.
Snapshot transfer, checkpoint and restore are unreachable in a running cluster
(section 6). Components left out for good: bloom filter and serialisation (no
interacting state), logger, starter and clients (I/O).

## 8. Plan

1. `RecoveryMatchesMemory` for strings: that the entries a log file replays to are
   those of its memtable, as an invariant of `LogWrite` and the rotations.
2. `CommitHeldByMajority` as a theorem: that no match index of a server that left is
   counted, which needs `Held` for servers that are not connected.
3. `Storage`: failing appends, tables that do not load, expiry.
4. The theorems of `RaftSubmit` after a write that failed unnoticed, starting with
   the first part of `RunsInOrder`, which does not need the log to be read back.
5. A module for the sorted set that keeps its list and its map apart, for
   `zrem_range_by_score`.
