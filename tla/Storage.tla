------------------------------ MODULE Storage ------------------------------
(***************************************************************************)
(* The storage engine: storage.cpp with its write-ahead log (wal.cpp) and  *)
(* memtables (memtable.cpp).                                               *)
(*                                                                         *)
(* One writer at a time (writes are serialised by the Raft node) logs an   *)
(* operation, applies it to the memtable and rotates a full memtable; the  *)
(* background thread writes immutable memtables to SSTables, removes their *)
(* log files and syncs the log; readers take no lock on the memtable; the  *)
(* process can die between any two steps and restarts by replaying the log.*)
(* The SSTable manager is represented by what its own module promises: the *)
(* newest entry handed to it for every key (GetFindsNewest there).         *)
(***************************************************************************)
EXTENDS Processors, FiniteSets, SequencesExt

CONSTANTS
    Workloads,       \* sets of <<key, operation>>: what clients use a key for
    Members,         \* members and scores of sets, fields of hashes
    MemLimit,        \* memtable_size, in the units of Weight
    SyncModes,       \* whether wal_flush_strategy_ may be IMMEDIATE_ON_WRITE
    Readers,         \* the readers that run: a subset of {"get", "range"}
    MaxOps,          \* bound: number of operations
    MaxCrashes,      \* bound: number of crashes
    FlushFailures    \* whether create_new_sstable may fail

ASSUME StorageAssumption ==
    /\ Workloads \subseteq SUBSET (Keys \X OpNames) /\ Members \subseteq Nat
    /\ MemLimit \in Nat \ {0} /\ MaxOps \in Nat /\ MaxCrashes \in Nat
    /\ SyncModes \subseteq BOOLEAN /\ FlushFailures \in BOOLEAN
    /\ Readers \subseteq {"get", "range"}

\* One log file per memtable; the names (timestamps) are numbered in order.
LastId == MaxOps + MaxCrashes + 1
WalIds == 1 .. LastId

VARIABLES
    uses,            \* the workload, chosen at the start
    sync_on_write,   \* wal_flush_strategy_ == IMMEDIATE_ON_WRITE
    memtable,        \* the entries of memtable_
    null,            \* memtable_ has been moved from and not replaced yet
    imm,             \* immutable_memtables_, oldest first: [id, tbl]
    sst,             \* newest entry flushed, per key
    wal,             \* log records by file; an absent file has none
    tear,            \* records of the file in front of a torn one
    cur,             \* current_wal_filename_
    next_id,         \* the next file name
    synced,          \* records of the current file known to be on disk
    wr,              \* the writer
    fl,              \* the background flush thread
    rd,              \* a reader
    status,          \* "up", or "dead" after an access through a null memtable_
    nops, crashes    \* bounded counters

configVars == <<uses, sync_on_write>>
vars == <<memtable, null, imm, sst, wal, tear, cur, next_id, synced, wr, fl, rd, status,
          nops, crashes, configVars>>
logVars == <<wal, tear, cur, next_id, synced>>
memVars == <<memtable, null, imm>>

Idle == [pc |-> "idle", op |-> "set", key |-> 0, arg |-> <<>>, put |-> NoEntry]
NoFlush == [pc |-> "idle", id |-> 0, tbl |-> EmptyTable]
NoRead == [pc |-> "idle", key |-> 0, from |-> Missing, got |-> EmptyTable,
           base |-> EmptyTable, met |-> FALSE]

\* "tear" of a file without a torn record.
Whole == MaxOps + 1

Init ==
    /\ memtable = EmptyTable /\ null = FALSE /\ imm = <<>> /\ sst = EmptyTable
    /\ wal = [i \in WalIds |-> <<>>] /\ tear = [i \in WalIds |-> Whole] /\ cur = 1 /\ next_id = 2 /\ synced = 0
    /\ wr = Idle /\ fl = NoFlush /\ rd = NoRead
    /\ status = "up" /\ nops = 0 /\ crashes = 0 /\ sync_on_write \in SyncModes
    /\ uses \in Workloads

-----------------------------------------------------------------------------
(* Lookups *)

\* get_from_immutable_memtables, then the SSTables.
Hits(imms, k) == {i \in 1 .. Len(imms) : Present(imms[i].tbl[k])}
Newest(imms, k) ==
    LET hits == Hits(imms, k)
        i == CHOOSE i \in hits : \A j \in hits : j <= i
    IN  get_value(imms[i].tbl[k])
OldEntry(imms, s, k) == IF Hits(imms, k) = {} THEN s[k] ELSE Newest(imms, k)

\* Storage::get: a dead entry of the memtable does not end the search.
Lookup(m, imms, s, k) ==
    LET e == get_value(m[k])
    IN  Contents(IF Alive(e) THEN e ELSE OldEntry(imms, s, k))

View(k) == Lookup(memtable, imm, sst, k)

Overwrite(old, new) == [k \in Keys |-> IF Present(new[k]) THEN new[k] ELSE old[k]]

should_flush(m) == MapThenSumSet(LAMBDA k : Weight(m[k]), Keys) >= MemLimit

-----------------------------------------------------------------------------
(* Writes *)

\* The arguments of operation op when it is write number n.
ArgsOf(op, n) ==
    CASE op \in {"set", "l_push", "r_push"} -> {<<n>>}
      [] op \in {"l_pop_n", "r_pop_n"} -> {<<2>>}
      [] op \in {"s_add", "s_rem", "h_del", "z_rem"} -> {<<m>> : m \in Members}
      [] op = "h_set" -> {<<m, n>> : m \in Members}
      [] op = "z_add" -> Members \X Members
      [] op = "z_incr_by" -> {<<m, 1>> : m \in Members}
      [] op = "z_rem_by_rank" -> {<<0, 0>>, <<-1, -1>>}
      [] OTHER -> {<<>>}

AllArgs(op) == UNION {ArgsOf(op, n) : n \in 1 .. MaxOps}

\* Mutant of LogWrite: the buffered file is rewritten, not appended to.
LogWriteRewrites ==
    /\ wr.pc = "idle" /\ nops < MaxOps
    /\ \E k \in Keys, op \in OpNames : \E v \in ArgsOf(op, nops + 1) :
          /\ <<k, op>> \in uses
          /\ wal' = [wal EXCEPT ![cur] = Append(@, [op |-> op, key |-> k, arg |-> v])]
          /\ wr' = [pc |-> "apply", op |-> op, key |-> k, arg |-> v, put |-> NoEntry]
    /\ synced' = IF sync_on_write THEN Len(wal[cur]) + 1 ELSE 0
    /\ nops' = nops + 1
    /\ UNCHANGED <<memVars, sst, tear, cur, next_id, fl, rd, status, crashes, configVars>>

\* Wal::append_log, called by every write before it touches the memtable.
LogWrite ==
    /\ wr.pc = "idle" /\ nops < MaxOps
    /\ \E k \in Keys, op \in OpNames : \E v \in ArgsOf(op, nops + 1) :
          /\ <<k, op>> \in uses
          /\ wal' = [wal EXCEPT ![cur] = Append(@, [op |-> op, key |-> k, arg |-> v])]
          /\ wr' = [pc |-> "apply", op |-> op, key |-> k, arg |-> v, put |-> NoEntry]
    /\ synced' = IF sync_on_write THEN Len(wal[cur]) + 1 ELSE synced
    /\ nops' = nops + 1
    /\ UNCHANGED <<memVars, sst, tear, cur, next_id, fl, rd, status, crashes, configVars>>

\* Storage::write_memtable.  MemTable::put refuses a memtable that is already
\* full; the value then goes to the memtable that replaces it.
write_memtable(k, new) ==
    LET m == [memtable EXCEPT ![k] = insert(@, new)]
    IN  IF should_flush(memtable)
        THEN wr' = [wr EXCEPT !.pc = "move", !.put = new] /\ memtable' = memtable
        ELSE /\ memtable' = m
             /\ wr' = IF should_flush(m) THEN [wr EXCEPT !.pc = "move"] ELSE Idle

\* The handler of the logged operation.
Apply ==
    LET e == memtable[wr.key]
        new == from_old(wr.op, OldEntry(imm, sst, wr.key), wr.arg)
        InPlace(f) == memtable' = [memtable EXCEPT ![wr.key] = f] /\ wr' = Idle
    IN  /\ wr.pc = "apply"
        /\ \/ wr.op = "remove" /\ InPlace(tombstone(e))
           \/ wr.op = "set" /\ write_memtable(wr.key, Fresh("str", <<wr.arg>>))
           \/ wr.op \in Grow \cup Shrink /\ Present(e) /\ InPlace(handle_value(wr.op, e, wr.arg))
           \/ /\ wr.op \in Grow \cup Shrink /\ ~Present(e)
              /\ IF Present(new) THEN write_memtable(wr.key, new) ELSE InPlace(e)
        /\ UNCHANGED <<null, imm, sst, logVars, fl, rd, status, nops, crashes, configVars>>

\* Storage::force_flush (called by close and by the checkpoints): rotates the
\* memtable; the immutable memtables are then flushed as always.
ForceFlush ==
    /\ wr.pc = "idle" /\ memtable # EmptyTable /\ nops < MaxOps
    /\ wr' = [Idle EXCEPT !.pc = "move"]
    /\ nops' = nops + 1
    /\ UNCHANGED <<memVars, sst, logVars, fl, rd, status, crashes, configVars>>

\* rotate_memtable, first half: memtable_ is moved into immutable_memtables_.
RotateMove ==
    /\ wr.pc = "move"
    /\ imm' = Append(imm, [id |-> cur, tbl |-> memtable])
    /\ memtable' = EmptyTable /\ null' = TRUE
    /\ wr' = [wr EXCEPT !.pc = "new"]
    /\ UNCHANGED <<sst, logVars, fl, rd, status, nops, crashes, configVars>>

\* Second half: a new log file (the old one is synced and closed), a new
\* memtable, and the put that found the old one full.
RotateNew ==
    /\ wr.pc = "new"
    /\ cur' = next_id /\ next_id' = next_id + 1 /\ synced' = 0
    /\ memtable' = IF Present(wr.put) THEN [memtable EXCEPT ![wr.key] = wr.put] ELSE memtable
    /\ null' = FALSE /\ wr' = Idle
    /\ UNCHANGED <<imm, sst, wal, tear, fl, rd, status, nops, crashes, configVars>>

Writer == LogWrite \/ Apply \/ ForceFlush \/ RotateMove \/ RotateNew

-----------------------------------------------------------------------------
(* The background thread *)

\* Mutant of FlushPick: the oldest table waits for a second one.
FlushPickLazy ==
    /\ fl.pc = "idle" /\ Len(imm) > 1
    /\ fl' = [pc |-> IF imm[1].tbl = EmptyTable THEN "erase" ELSE "create",
              id |-> imm[1].id, tbl |-> imm[1].tbl]
    /\ UNCHANGED <<memVars, sst, logVars, wr, rd, status, nops, crashes, configVars>>

\* flush_memtable_to_sstable takes the oldest immutable memtable ...
FlushPick ==
    /\ fl.pc = "idle" /\ imm # <<>>
    /\ fl' = [pc |-> IF imm[1].tbl = EmptyTable THEN "erase" ELSE "create",
              id |-> imm[1].id, tbl |-> imm[1].tbl]
    /\ UNCHANGED <<memVars, sst, logVars, wr, rd, status, nops, crashes, configVars>>

\* Mutant of FlushCreate: a failed SSTable counts as written.
FlushCreateUnchecked ==
    /\ fl.pc = "create"
    /\ \/ sst' = Overwrite(sst, [k \in Keys |-> get_value(fl.tbl[k])])
       \/ FlushFailures /\ UNCHANGED sst
    /\ fl' = [fl EXCEPT !.pc = "clear"]
    /\ UNCHANGED <<memVars, logVars, wr, rd, status, nops, crashes, configVars>>

\* ... writes its entries to an SSTable, or gives up until the next round ...
FlushCreate ==
    /\ fl.pc = "create"
    /\ \/ /\ sst' = Overwrite(sst, [k \in Keys |-> get_value(fl.tbl[k])])
          /\ fl' = [fl EXCEPT !.pc = "clear"]
       \/ FlushFailures /\ fl' = NoFlush /\ UNCHANGED sst
    /\ UNCHANGED <<memVars, logVars, wr, rd, status, nops, crashes, configVars>>

\* Mutants of FlushClear: the closed file's state is kept; the open file is removed.
FlushClearKeepsState ==
    /\ fl.pc = "clear"
    /\ wal' = [wal EXCEPT ![fl.id] = <<>>] /\ tear' = [tear EXCEPT ![fl.id] = Whole]
    /\ synced' = synced
    /\ fl' = [fl EXCEPT !.pc = "erase"]
    /\ UNCHANGED <<memVars, sst, cur, next_id, wr, rd, status, nops, crashes, configVars>>
FlushClearOpenFile ==
    /\ fl.pc = "clear"
    /\ wal' = [wal EXCEPT ![cur] = <<>>] /\ tear' = [tear EXCEPT ![cur] = Whole]
    /\ synced' = 0
    /\ fl' = [fl EXCEPT !.pc = "erase"]
    /\ UNCHANGED <<memVars, sst, cur, next_id, wr, rd, status, nops, crashes, configVars>>

\* ... removes its log file, closing it if it is still the open one ...
FlushClear ==
    /\ fl.pc = "clear"
    /\ wal' = [wal EXCEPT ![fl.id] = <<>>] /\ tear' = [tear EXCEPT ![fl.id] = Whole]
    /\ synced' = IF fl.id = cur THEN 0 ELSE synced
    /\ fl' = [fl EXCEPT !.pc = "erase"]
    /\ UNCHANGED <<memVars, sst, cur, next_id, wr, rd, status, nops, crashes, configVars>>

\* Mutant of FlushErase: the tables queued behind it go too.
FlushEraseAll ==
    /\ fl.pc = "erase"
    /\ imm' = <<>> /\ fl' = NoFlush
    /\ UNCHANGED <<memtable, null, sst, logVars, wr, rd, status, nops, crashes, configVars>>

\* immutable_memtables_.erase(filename)
Erase(imms, id) ==
    IF \E i \in 1 .. Len(imms) : imms[i].id = id
    THEN RemoveAt(imms, CHOOSE i \in 1 .. Len(imms) : imms[i].id = id)
    ELSE imms

\* ... and takes it out of immutable_memtables_.
FlushErase ==
    /\ fl.pc = "erase"
    /\ imm' = Erase(imm, fl.id)
    /\ fl' = NoFlush
    /\ UNCHANGED <<memtable, null, sst, logVars, wr, rd, status, nops, crashes, configVars>>

Flush == FlushPick \/ FlushCreate \/ FlushClear \/ FlushErase

\* background_flush_task syncs the log after each round.
Sync ==
    /\ ~sync_on_write /\ fl.pc = "idle" /\ synced < Len(wal[cur])
    /\ synced' = Len(wal[cur])
    /\ UNCHANGED <<memVars, sst, wal, tear, cur, next_id, wr, fl, rd, status, nops, crashes,
                   configVars>>

-----------------------------------------------------------------------------
(* Readers: they run beside the writer and hold immutable_mutex_ only while   *)
(* they look at the immutable memtables.                                     *)

unchangedByRead == <<memVars, sst, logVars, wr, fl, nops, crashes, configVars>>

\* An access through memtable_ between the two halves of a rotation.
NullAccess == null /\ status' = "dead" /\ rd' = NoRead

\* The writer is between the two increments of a node's sequence (set_value,
\* SkipList::handle_value).
Writing(k) ==
    /\ wr.pc = "apply" /\ wr.key = k /\ Present(memtable[k])
    /\ wr.op = "set" => ~should_flush(memtable)

\* MemTable::get takes no lock.  A get that meets the write leaves get_value with
\* the default value, or copies a string that is being replaced.
MeetWrite(k) ==
    /\ ~null /\ Writing(k)
    /\ \/ /\ rd' = [NoRead EXCEPT !.pc = "got", !.key = k, !.from = View(k), !.met = TRUE,
                                  !.got[k] = DefaultEValue]
          /\ status' = status
       \/ status' = "dead" /\ rd' = NoRead

\* Storage::get; rd.from is what the key held when the read began.  A get that
\* finds a live entry here has its answer.
GetLatest ==
    /\ "get" \in Readers /\ rd.pc = "idle"
    /\ \/ NullAccess
       \/ \E k \in Keys : MeetWrite(k)
       \/ \E k \in Keys :
             LET e == get_value(memtable[k])
             IN  /\ ~null /\ ~Alive(e)
                 /\ rd' = [NoRead EXCEPT !.pc = "get_imm", !.key = k, !.from = View(k)]
                 /\ status' = status
    /\ UNCHANGED unchangedByRead

GetReturn(e) == rd' = [rd EXCEPT !.pc = "got", !.got[rd.key] = e]

GetImmutable ==
    /\ rd.pc = "get_imm"
    /\ IF Hits(imm, rd.key) = {} THEN rd' = [rd EXCEPT !.pc = "get_sst"]
       ELSE GetReturn(Newest(imm, rd.key))
    /\ UNCHANGED <<unchangedByRead, status>>

GetSSTable ==
    /\ rd.pc = "get_sst"
    /\ GetReturn(sst[rd.key])
    /\ UNCHANGED <<unchangedByRead, status>>

\* Storage::range over all keys: SSTables, immutable memtables from the newest
\* to the oldest, memtable, each overwriting what was found before.
OldestLast(base, imms) ==
    [k \in Keys |->
        LET hits == Hits(imms, k)
        IN  IF hits = {} THEN base[k]
            ELSE get_value(imms[CHOOSE i \in hits : \A j \in hits : i <= j].tbl[k])]

RangeSSTable ==
    /\ "range" \in Readers /\ rd.pc = "idle"
    /\ rd' = [NoRead EXCEPT !.pc = "range_imm", !.got = sst, !.base = sst]
    /\ UNCHANGED <<unchangedByRead, status>>

\* Mutant of RangeImmutable: replaces what the SSTables gave.
RangeImmutableOnly ==
    /\ rd.pc = "range_imm"
    /\ rd' = [rd EXCEPT !.pc = "range_mem", !.got = OldestLast(EmptyTable, imm)]
    /\ UNCHANGED <<unchangedByRead, status>>

RangeImmutable ==
    /\ rd.pc = "range_imm"
    /\ rd' = [rd EXCEPT !.pc = "range_mem", !.got = OldestLast(@, imm)]
    /\ UNCHANGED <<unchangedByRead, status>>

\* It takes the locks of the shards, which every write to an entry holds.
RangeMemTable ==
    /\ rd.pc = "range_mem"
    /\ \/ NullAccess
       \/ /\ ~null /\ status' = status
          /\ rd' = [rd EXCEPT !.pc = "ranged",
                    !.got = Overwrite(@, [k \in Keys |-> get_value(memtable[k])])]
    /\ UNCHANGED unchangedByRead

ReadDone ==
    /\ rd.pc \in {"got", "ranged"}
    /\ rd' = NoRead
    /\ UNCHANGED <<unchangedByRead, status>>

Reader ==
    \/ GetLatest \/ GetImmutable \/ GetSSTable
    \/ RangeSSTable \/ RangeImmutable \/ RangeMemTable \/ ReadDone

-----------------------------------------------------------------------------
(* Crash and recovery *)

\* The recovery callback for one record, with the size limit cancelled: what it
\* makes of its key's entry in the memtable being rebuilt, "old" being the entry
\* of the older tables.  remove() appends to the log first; no log file is open
\* during recovery, so the append fails and the key is skipped.
Replay(r, old) ==
    [e \in EValue |->
        CASE r.op = "remove" -> e
          [] r.op = "set" -> insert(e, Fresh("str", <<r.arg>>))
          [] r.op \in Grow \cup Shrink /\ Present(e) -> handle_value(r.op, e, r.arg)
          [] OTHER -> from_old(r.op, old, r.arg)]

\* The entry of key k rebuilt from a log file.
ReplayFile(records, k, old) ==
    LET entry[n \in 0 .. Len(records)] ==
            IF n = 0 THEN NoEntry
            ELSE IF records[n].key # k THEN entry[n - 1]
            ELSE Replay(records[n], old)[entry[n - 1]]
    IN  entry[Len(records)]

\* What the SSTables s and the tables rebuilt from files 1 .. i hold for k.
Layer(records, k) ==
    [old \in EValue |-> LET e == ReplayFile(records, k, old)
                        IN  IF Present(e) THEN get_value(e) ELSE old]
Rebuilt(w, s, k) ==
    LET upto[i \in WalIds \cup {0}] == IF i = 0 THEN s[k] ELSE Layer(w[i], k)[upto[i - 1]]
    IN  upto

\* Storage::recover: the memtables rebuilt from the files w, oldest first.
recover(w, s) ==
    LET Table(i) == [k \in Keys |-> ReplayFile(w[i], k, Rebuilt(w, s, k)[i - 1])]
        tables[i \in WalIds \cup {0}] ==
            IF i = 0 THEN <<>>
            ELSE IF w[i] = <<>> THEN tables[i - 1]
            ELSE Append(tables[i - 1], [id |-> i, tbl |-> Table(i)])
    IN  tables[LastId]

\* The log when only the first n records of the current file are left.
Cut(n) == [wal EXCEPT ![cur] = SubSeq(@, 1, n)]

\* Wal::recover reads a file up to its first torn record.
Readable(w, t) ==
    [i \in WalIds |-> IF t[i] < Len(w[i]) THEN SubSeq(w[i], 1, t[i]) ELSE w[i]]

\* A record that is half written stays behind the n records that are left.
Torn(n) == [tear EXCEPT ![cur] = IF n < @ THEN n ELSE @]

\* The process dies, losing log records that were still in its buffer, and is
\* started again.  The first lost record, or one whose append did not return, may
\* be there in part; the file is not truncated.  The last table rebuilt stays the memtable, with its file
\* reopened, unless it exceeds the limit; the limit is compared in bytes there
\* (set_size_limit) and in kilobytes elsewhere, so both outcomes occur.
Crash ==
    /\ crashes < MaxCrashes
    /\ \E n \in synced .. Len(wal[cur]), keep \in BOOLEAN : \E t \in {tear, Torn(n)} :
          LET tables == recover(Readable(Cut(n), t), sst)
              last == tables[Len(tables)]
          IN  /\ n = Len(wal[cur]) /\ t # tear => wr.pc = "idle"
              /\ wal' = Cut(n) /\ tear' = t
              /\ IF keep
                 THEN /\ tables # <<>> /\ ~should_flush(last.tbl)
                      /\ imm' = Front(tables) /\ memtable' = last.tbl
                      /\ cur' = last.id /\ synced' = Len(wal'[last.id])
                      /\ next_id' = next_id
                 ELSE /\ imm' = tables /\ memtable' = EmptyTable
                      /\ cur' = next_id /\ synced' = 0 /\ next_id' = next_id + 1
    /\ crashes' = crashes + 1
    /\ null' = FALSE /\ wr' = Idle /\ fl' = NoFlush /\ rd' = NoRead /\ status' = "up"
    /\ UNCHANGED <<sst, nops, configVars>>

Next ==
    \/ status = "up" /\ (Writer \/ Flush \/ Sync \/ Reader)
    \/ Crash

\* The background thread wakes whenever there is an immutable memtable, and a
\* write in progress runs to its end.
Fairness ==
    /\ WF_vars(status = "up" /\ Flush)
    /\ WF_vars(status = "up" /\ (Apply \/ RotateMove \/ RotateNew))

Spec == Init /\ [][Next]_vars /\ Fairness

-----------------------------------------------------------------------------
(* Properties *)

\* The memtables, the log files and the positions of the three threads have
\* their types, immutable memtables are in file order and older than the
\* current file (except while it is being replaced), and no more than the log
\* holds is synced.
TypeOK ==
    /\ memtable \in [Keys -> EValue] /\ sst \in [Keys -> EValue]
    /\ null = (wr.pc = "new")
    /\ \A i \in 1 .. Len(imm) : imm[i].id \in WalIds /\ imm[i].tbl \in [Keys -> EValue]
    /\ \A i, j \in 1 .. Len(imm) : i < j => imm[i].id < imm[j].id
    /\ \A i \in 1 .. Len(imm) : imm[i].id <= cur /\ (imm[i].id = cur => null)
    /\ tear \in [WalIds -> Nat] /\ cur \in WalIds /\ next_id \in Nat /\ cur < next_id
    /\ synced \in 0 .. Len(wal[cur])
    /\ wr.pc \in {"idle", "apply", "move", "new"}
    /\ fl.pc \in {"idle", "create", "clear", "erase"}
    /\ fl.pc # "idle" => imm # <<>> /\ fl.id = imm[1].id
    /\ sync_on_write \in BOOLEAN /\ uses \in Workloads
    /\ status \in {"up", "dead"} /\ nops \in 0 .. MaxOps /\ crashes \in 0 .. MaxCrashes

\* What a restart would find if the log was cut after n records.
RecoveredView(n) ==
    LET found == Readable(Cut(n), tear)
    IN  [k \in Keys |-> Contents(Rebuilt(found, sst, k)[LastId])]

\* A log file was reopened behind a torn record: recover() stops in front of it.
Hidden == \E i \in WalIds : tear[i] < Len(wal[i])

\* When no write is in progress, a restart that loses nothing finds exactly
\* what get() answers now: log, flushed tables and log removal never disagree
\* (storage.cpp: recover, flush_memtable_to_sstable, rotate_memtable), as long
\* as no record lies behind a torn one.
RecoveryMatchesMemory ==
    wr.pc = "idle" /\ status = "up" /\ ~Hidden =>
        RecoveredView(Len(wal[cur])) = [k \in Keys |-> View(k)]

Operations ==
    UNION {{[op |-> u[2], key |-> u[1], arg |-> v] : v \in AllArgs(u[2])} : u \in UNION Workloads}

\* The write that is logged and not in a memtable yet.
Pending ==
    IF wr.pc = "apply" \/ (wr.pc \in {"move", "new"} /\ Present(wr.put))
    THEN [op |-> wr.op, key |-> wr.key, arg |-> wr.arg]
    ELSE [op |-> "none", key |-> 0, arg |-> <<>>]

\* Storage::get goes past a tombstone of the memtable; the map has no such key.
Promised(k) == IF memtable[k].dead THEN Missing ELSE View(k)

\* The contents get() answers, as the map the commands promise.
LiveMap ==
    INSTANCE DurableKV WITH map <- [k \in Keys |-> Promised(k)], pending <- Pending

\* What get() answers behaves as that map: every operation a client asks for takes
\* effect exactly once, on its key, and nothing else changes the map, neither
\* rotate_memtable nor the flush; a deleted key counts as missing, although get()
\* may answer with an older value of it while its tombstone is in the memtable.
LiveMapSpec == LiveMap!Spec

\* The contents recover() would find, with IMMEDIATE_ON_WRITE and while no record
\* is hidden.  With the other strategies a table flushed while its file is still
\* open puts newer contents under a shorter log: what they keep is
\* NothingDurableIsLost.
DurableMap ==
    INSTANCE DurableKV WITH
        map <- IF sync_on_write /\ ~Hidden THEN RecoveredView(Len(wal[cur])) ELSE <<>>,
        pending <- Pending

\* With IMMEDIATE_ON_WRITE what a restart would find (recover) behaves as the
\* durable map: a crash at any moment brings back the effect of every logged
\* operation, once and in order, whichever step of flush_memtable_to_sstable or
\* rotate_memtable it cuts short.
DurableMapSpec == DurableMap!DurableSpec

\* The number a key set by "set" holds: numbers grow from one write to the next.
Number(c) == IF c.val = <<>> THEN 0 ELSE c.val[1][1]

NoOlder(e, n) == e.dead \/ Number(Contents(e)) >= n

\* What a crash can bring back.
Outcomes == {RecoveredView(n) : n \in synced .. Len(wal[cur])}

\* The numbers of the records of key k that are on disk; the files that are not
\* current were synced when closed.
OnDisk(k) ==
    LET Records(i) == IF i = cur THEN SubSeq(wal[i], 1, synced) ELSE wal[i]
    IN  UNION {{r.arg[1] : r \in {r \in Range(Records(i)) : r.key = k}} : i \in WalIds}

\* Whatever the log sync, flush, rotation or crash does next, a crash after it
\* still finds every SET whose record is on disk now, or a later one of its key,
\* and no worse a value than a crash could find before
\* (flush_memtable_to_sstable removes a log file only after its SSTable), as
\* long as no record lies behind a torn one.
NothingDurableIsLost ==
    [][LET before == Outcomes
           after == Outcomes'
           Kept(k, new) ==
               /\ \A n \in OnDisk(k) : n <= Number(new[k])
               /\ \E old \in before : Number(old[k]) <= Number(new[k])
       IN  ~Hidden => \A new \in after, k \in Keys : Kept(k, new)]_vars

\* Storage::get: a read that walks memtable, immutable memtables and SSTables while they
\* change below it never misses the key, nor answers with an older value than
\* the one it had when the read began, unless it meets a tombstone or the write
\* of that key itself, for which get_value answers with a default value.
GetNeverStale == rd.pc = "got" /\ ~rd.met => NoOlder(rd.got[rd.key], Number(rd.from))

\* Storage::range: a range never answers with less than the SSTables held when it began, unless
\* it meets a tombstone.
RangeCoversSSTables ==
    rd.pc = "ranged" => \A k \in Keys : NoOlder(rd.got[k], Number(Contents(rd.base[k])))

\* background_flush_task: every immutable memtable is eventually on disk, as long as the
\* process lives and the builder does not go on failing: a flush that gave up is retried,
\* and one that a crash interrupted is done after the recovery.
GivesUp == fl.pc = "create" /\ fl' = NoFlush /\ UNCHANGED crashes
EventuallyFlushed ==
    []<><<GivesUp>>_vars \/ (imm # <<>> ~> (imm = <<>> \/ status = "dead"))

=============================================================================
