--------------------------- MODULE SSTableManager ---------------------------
(***************************************************************************)
(* The SSTable manager of the storage engine: sstable.cpp.                 *)
(*                                                                         *)
(* One compaction thread at a time (the background flush thread, or the    *)
(* checkpoint and start-up code while that thread is stopped) writes new   *)
(* tables, installs them in the level index and merges levels; readers run *)
(* beside it under per-level shared locks; the process can die anywhere    *)
(* and is restarted by load_all.                                           *)
(*                                                                         *)
(* Data: a table maps every key to an entry; the value of an entry is      *)
(* named by the number of the write that produced it ("ver", 0 when the    *)
(* key is not in the table), and "dead" says that the entry is a tombstone *)
(* or has expired.  Blocks, index, bloom filter and footer only locate     *)
(* entries and are left out.                                               *)
(***************************************************************************)
EXTENDS Naturals, Sequences, FiniteSets, FiniteSetsExt

CONSTANTS
    Keys,                 \* keys, numbered so that min_key/max_key are ordered
    Frail,                \* keys whose tables a write error may cut short unnoticed
    Strategies,           \* the values sstable_merge_strategy may be configured to
    MergeThreshold,       \* sstable_merge_threshold_
    ZeroLevelSize,        \* sstable_zero_level_size_, in entries
    LevelSizeRatio        \* sstable_level_size_ratio_

ASSUME SSTableAssumption ==
    /\ Keys \subseteq Nat /\ Frail \subseteq Keys
    /\ Strategies \subseteq {"size_tiered", "level"}
    /\ MergeThreshold \in Nat /\ ZeroLevelSize \in Nat /\ LevelSizeRatio \in Nat

VARIABLES
    level_sstables,       \* tables in the index: files with their vector position
    disk,                 \* complete .sst files in data_dir_
    max_level,            \* max_level_
    next_seq,             \* next_sequence_number_
    next_pos,             \* position the next insert(begin()) gives
    sstable_count,        \* sstable_count_, as load_all left it
    smeta,                \* contents of the .smeta file
    strategy,             \* merge_strategy_ of the running process
    job,                  \* what the compaction thread is doing
    status,               \* "up", or "dead" after an undefined start-up
    torn,                 \* an .sst file that does not load lies in data_dir_
    truth,                \* history: the newest entry installed, per key
    interrupted           \* history: a crash cut the unlinking of merged files short

indexVars == <<level_sstables, max_level, next_pos, sstable_count>>
sstVars == <<level_sstables, disk, max_level, next_seq, next_pos, sstable_count,
             smeta, strategy, job, status, torn, truth, interrupted>>

-----------------------------------------------------------------------------
(* Entries, tables, files. *)

Entry == [ver : Nat, dead : BOOLEAN]
NoEntry == [ver |-> 0, dead |-> FALSE]
Table == [Keys -> Entry]
EmptyTable == [k \in Keys |-> NoEntry]

File == [seq : Nat, lvl : Nat, tbl : Table]
Handle == [seq : Nat, lvl : Nat, tbl : Table, pos : Nat]

FileOf(h) == [seq |-> h.seq, lvl |-> h.lvl, tbl |-> h.tbl]
Has(tbl, k) == tbl[k].ver > 0
KeysOf(tbl) == {k \in Keys : Has(tbl, k)}

\* Mutant of Before: oldest insertion first inside a level.
BeforeOldest(h, g) == h.lvl < g.lvl \/ (h.lvl = g.lvl /\ h.pos <= g.pos)

\* Lookup order: upper levels first, newest insertion first inside a level.
Before(h, g) == h.lvl < g.lvl \/ (h.lvl = g.lvl /\ h.pos >= g.pos)
First(S) == CHOOSE h \in S : \A g \in S : Before(h, g)

\* The entry a search through the tables S in lookup order meets first.
Search(S, k) ==
    LET hits == {h \in S : Has(h.tbl, k)}
    IN  IF hits = {} THEN NoEntry ELSE First(hits).tbl[k]

Visible(e) == IF e.dead THEN 0 ELSE e.ver

Level(l) == {h \in level_sstables : h.lvl = l}

\* SSTableManager::get with nothing running beside it.
get(k) == Search({h \in level_sstables : h.lvl <= max_level}, k)

\* The merge writes what the search finds and keeps only live entries.
Merged(S) ==
    [k \in Keys |-> LET e == Search(S, k) IN IF e.dead THEN NoEntry ELSE e]

-----------------------------------------------------------------------------
(* The compaction thread.  "todo" holds the pending merge_sstables calls.  *)

JobPC == {"idle", "write", "install", "check", "drop_next", "drop", "unlink"}
JobKind == {"flush", "tier", "level"}
Job == [pc : JobPC, kind : JobKind, lvl : Nat, src : SUBSET Handle,
        nxt : SUBSET Handle, out : Table, todo : Seq(Nat),
        norm : BOOLEAN, next_norm : Nat]

IdleJob == [pc |-> "idle", kind |-> "flush", lvl |-> 0, src |-> {}, nxt |-> {},
            out |-> EmptyTable, todo |-> <<>>, norm |-> FALSE, next_norm |-> 0]

\* Level of the table being written: the flush writes level 0, a merge the next.
Target(j) == IF j.kind = "flush" THEN 0 ELSE j.lvl + 1

SSTInit ==
    /\ level_sstables = {} /\ disk = {} /\ max_level = 0
    /\ next_seq = 1 /\ next_pos = 1 /\ sstable_count = 0
    /\ strategy \in Strategies
    /\ smeta = strategy
    /\ job = IdleJob
    /\ status = "up" /\ torn = FALSE
    /\ truth = EmptyTable /\ interrupted = FALSE

\* create_new_sstable(entries): create_from_entries(entries, 0), then
\* merge_sstables(0).  An empty entry list is refused.
create_new_sstable(tbl) ==
    /\ status = "up" /\ job.pc = "idle"
    /\ KeysOf(tbl) # {}
    /\ job' = [IdleJob EXCEPT !.pc = "write", !.out = tbl]
    /\ UNCHANGED <<indexVars, disk, next_seq, smeta, strategy, status, torn,
                   truth, interrupted>>

\* SSTableBuilder: the file is complete and synced under its final name.
create_from_entries_write ==
    /\ job.pc = "write"
    /\ disk' = disk \cup {[seq |-> next_seq, lvl |-> Target(job), tbl |-> job.out]}
    /\ next_seq' = next_seq + 1
    /\ job' = [job EXCEPT !.pc = "install"]
    /\ UNCHANGED <<indexVars, smeta, strategy, status, torn, truth, interrupted>>

\* The builder looks at no result of fwrite and fflush: when one of them failed
\* (a full disk) and fdatasync does not, finish() answers true for a file that does
\* not load.  The SSTable made from it is installed all the same: it has no
\* entries, its metadata is not filled in (the path is empty, the size undefined).
create_from_entries_truncated ==
    /\ job.pc = "write" /\ KeysOf(job.out) \subseteq Frail
    /\ torn' = TRUE
    /\ next_seq' = next_seq + 1
    /\ job' = [job EXCEPT !.pc = "install", !.out = EmptyTable]
    /\ UNCHANGED <<indexVars, disk, smeta, strategy, status, truth, interrupted>>

\* Mutant of create_from_entries_fail: the merge goes on without its output.
create_from_entries_unchecked ==
    /\ job.pc = "write"
    /\ next_seq' = next_seq + 1
    /\ job' = IF job.kind = "flush" THEN IdleJob ELSE [job EXCEPT !.pc = "drop"]
    /\ UNCHANGED <<indexVars, disk, smeta, strategy, status, torn, truth,
                   interrupted>>

\* finish() failed (no file, or fdatasync): the builder removes the file, the
\* sequence number is spent and the caller goes on with whatever merge_sstables
\* calls are pending.
create_from_entries_fail ==
    /\ job.pc = "write"
    /\ next_seq' = next_seq + 1
    /\ job' = IF job.kind = "flush" THEN IdleJob
              ELSE [job EXCEPT !.pc = "check", !.src = {}, !.nxt = {},
                               !.out = EmptyTable]
    /\ UNCHANGED <<indexVars, disk, smeta, strategy, status, torn, truth,
                   interrupted>>

Overwrite(old, new) == [k \in Keys |-> IF Has(new, k) THEN new[k] ELSE old[k]]

\* The new table enters the index at the front of its level.
create_from_entries_install ==
    /\ job.pc = "install"
    /\ level_sstables' = level_sstables \cup
           {[seq |-> next_seq - 1, lvl |-> Target(job), tbl |-> job.out,
             pos |-> next_pos]}
    /\ next_pos' = next_pos + 1
    /\ max_level' = IF Target(job) > max_level THEN Target(job) ELSE max_level
    /\ IF job.kind = "flush"
       THEN /\ truth' = Overwrite(truth, job.out)
            /\ job' = [IdleJob EXCEPT !.pc = "check", !.todo = <<0>>]
       ELSE /\ UNCHANGED truth
            /\ job' = [job EXCEPT !.pc = IF job.kind = "tier" THEN "drop"
                                                              ELSE "drop_next"]
    /\ UNCHANGED <<disk, next_seq, sstable_count, smeta, strategy, status, torn,
                   interrupted>>

\* merge_sstables: the condition under which a level is merged.  The size of a
\* level is undefined while a table that did not load is in it.
LevelSize(l) == MapThenSumSet(LAMBDA h : Cardinality(KeysOf(h.tbl)), Level(l))
MayMerge(l) ==
    IF strategy = "size_tiered" THEN {Cardinality(Level(l)) >= MergeThreshold}
    ELSE IF \E h \in Level(l) : KeysOf(h.tbl) = {} THEN BOOLEAN
    ELSE {LevelSize(l) >= ZeroLevelSize * LevelSizeRatio ^ l}

Overlaps(h, g) ==
    \E a, b \in KeysOf(h.tbl), c, d \in KeysOf(g.tbl) : a <= d /\ c <= b

\* Start merging the tables src of level l with the tables nxt of level l + 1.
StartMerge(j, kind, l, src, nxt) ==
    LET out == Merged(src \cup nxt)
    IN  [j EXCEPT !.kind = kind, !.lvl = l, !.src = src, !.nxt = nxt, !.out = out,
                  !.pc = IF KeysOf(out) # {} THEN "write"
                         ELSE IF kind = "tier" THEN "drop" ELSE "drop_next"]

\* merge_sstables_by_strategy_0 takes the whole level.
StartTier(j, l) ==
    IF Level(l) = {} THEN j ELSE StartMerge(j, "tier", l, Level(l), {})

\* Mutants of StartLevel: the newest table of the level goes down first; the
\* overlapping tables of the next level stay behind.
StartLevelNewest(j, l) ==
    LET newest == CHOOSE h \in Level(l) : \A g \in Level(l) : Before(h, g)
    IN  IF Level(l) = {} THEN j
        ELSE StartMerge(j, "level", l, {newest},
                        {g \in Level(l + 1) : Overlaps(newest, g)})
StartLevelAlone(j, l) ==
    LET oldest == CHOOSE h \in Level(l) : \A g \in Level(l) : Before(g, h)
    IN  IF Level(l) = {} THEN j ELSE StartMerge(j, "level", l, {oldest}, {})

\* merge_sstables_by_strategy_1 takes the oldest table of the level and the
\* tables of the next level whose key range overlaps it.
StartLevel(j, l) ==
    LET oldest == CHOOSE h \in Level(l) : \A g \in Level(l) : Before(g, h)
    IN  IF Level(l) = {} THEN j
        ELSE StartMerge(j, "level", l, {oldest},
                        {g \in Level(l + 1) : Overlaps(oldest, g)})

\* One pending merge_sstables(level) call.
merge_sstables ==
    /\ job.pc = "check" /\ job.todo # <<>>
    /\ \E should_merge \in MayMerge(Head(job.todo)) :
       LET l == Head(job.todo)
           j == [job EXCEPT !.todo = Tail(@)]
       IN  job' = IF l > max_level \/ ~should_merge THEN j
                  ELSE IF strategy = "size_tiered" \/ l = max_level
                       THEN StartTier(j, l)
                       ELSE StartLevel(j, l)
    /\ UNCHANGED <<indexVars, disk, next_seq, smeta, strategy, status, torn,
                   truth, interrupted>>

\* Under the lock of level + 1, then of level: the merged tables leave the index.
drop_next_level ==
    /\ job.pc = "drop_next"
    /\ level_sstables' = level_sstables \ job.nxt
    /\ job' = [job EXCEPT !.pc = "drop"]
    /\ UNCHANGED <<disk, max_level, next_seq, next_pos, sstable_count, smeta,
                   strategy, status, torn, truth, interrupted>>

\* Mutant of drop_level: the merged tables stay in the index.
drop_level_skipped ==
    /\ job.pc = "drop"
    /\ job' = [job EXCEPT !.pc = "unlink"]
    /\ UNCHANGED <<level_sstables, disk, max_level, next_seq, next_pos, sstable_count,
                   smeta, strategy, status, torn, truth, interrupted>>

drop_level ==
    /\ job.pc = "drop"
    /\ level_sstables' = level_sstables \ job.src
    /\ job' = [job EXCEPT !.pc = "unlink"]
    /\ UNCHANGED <<disk, max_level, next_seq, next_pos, sstable_count, smeta,
                   strategy, status, torn, truth, interrupted>>

\* The files go one by one, in vector order: the newest table of a level first.
\* A table that did not load has no path, and its file stays.
Unlinkable == {h \in job.src \cup job.nxt : FileOf(h) \in disk}

unlink_file ==
    /\ job.pc = "unlink" /\ Unlinkable # {}
    /\ disk' = disk \ {FileOf(First(Unlinkable))}
    /\ UNCHANGED <<indexVars, next_seq, smeta, strategy, job, status, torn,
                   truth, interrupted>>

merge_done ==
    /\ job.pc = "unlink" /\ Unlinkable = {}
    /\ job' = [job EXCEPT !.pc = "check", !.src = {}, !.nxt = {}, !.out = EmptyTable,
                 !.todo = (IF job.kind = "tier" THEN <<job.lvl + 1>>
                           ELSE <<job.lvl, job.lvl + 1>>) \o @]
    /\ UNCHANGED <<indexVars, disk, next_seq, smeta, strategy, status, torn,
                   truth, interrupted>>

\* Mutant of normalize_sstables: the level counter is not advanced.
normalize_sstables_again ==
    /\ job.pc = "check" /\ job.todo = <<>> /\ job.norm
    /\ IF job.next_norm < max_level
       THEN /\ job' = StartTier(job, job.next_norm)
            /\ UNCHANGED smeta
       ELSE /\ job' = IdleJob
            /\ smeta' = strategy
    /\ UNCHANGED <<indexVars, disk, next_seq, strategy, status, torn, truth,
                   interrupted>>

\* normalize_sstables: while max_level_ is not reached, merge the next level
\* unconditionally; then record the strategy in .smeta.
normalize_sstables ==
    /\ job.pc = "check" /\ job.todo = <<>> /\ job.norm
    /\ IF job.next_norm < max_level
       THEN /\ job' = StartTier([job EXCEPT !.next_norm = @ + 1], job.next_norm)
            /\ UNCHANGED smeta
       ELSE /\ job' = IdleJob
            /\ smeta' = strategy
    /\ UNCHANGED <<indexVars, disk, next_seq, strategy, status, torn, truth,
                   interrupted>>

merge_return ==
    /\ job.pc = "check" /\ job.todo = <<>> /\ ~job.norm
    /\ job' = IdleJob
    /\ UNCHANGED <<indexVars, disk, next_seq, smeta, strategy, status, torn,
                   truth, interrupted>>

CompactionStep ==
    /\ status = "up"
    /\ \/ create_from_entries_write \/ create_from_entries_truncated
       \/ create_from_entries_fail \/ create_from_entries_install
       \/ merge_sstables \/ drop_next_level \/ drop_level
       \/ unlink_file \/ merge_done \/ normalize_sstables \/ merge_return

-----------------------------------------------------------------------------
(* The process dies and is started again, possibly with another strategy.  *)

\* Mutant of Loaded: the vectors are sorted the other way round.
LoadedReversed ==
    {[seq |-> f.seq, lvl |-> f.lvl, tbl |-> f.tbl, pos |-> next_seq - f.seq] : f \in disk}

Loaded == {[seq |-> f.seq, lvl |-> f.lvl, tbl |-> f.tbl, pos |-> f.seq] : f \in disk}

\* A crash inside the builder, or a write error, can leave an incomplete file.  Its
\* SSTable object fails to load but is indexed all the same, with an uninitialised
\* level and sequence number: it is either harmless (zeroes) or takes the process
\* down.
load_all(st) ==
    /\ level_sstables' = Loaded
    /\ max_level' = Max({f.lvl : f \in disk} \cup {0})
    /\ next_seq' = Max({f.seq : f \in disk} \cup {0}) + 1
    /\ next_pos' = next_seq'
    /\ strategy' = st
    /\ torn' \in (IF job.pc = "write" THEN {torn, TRUE} ELSE {torn})
    /\ status' \in (IF torn' THEN {"up", "dead"} ELSE {"up"})
    /\ sstable_count' = Cardinality(disk) + (IF torn' THEN 1 ELSE 0)
    /\ job' = IF st = smeta THEN IdleJob
              ELSE [IdleJob EXCEPT !.pc = "check", !.norm = TRUE]
    /\ truth' = IF job.pc = "install" /\ job.kind = "flush"
                THEN Overwrite(truth, job.out) ELSE truth
    /\ interrupted' = (\/ interrupted
                       \/ /\ job.pc = "unlink" /\ Unlinkable # {}
                          /\ \E h \in (job.src \cup job.nxt) \ Unlinkable : KeysOf(h.tbl) # {})
    /\ UNCHANGED <<disk, smeta>>

-----------------------------------------------------------------------------
\* Types of the manager's variables.
SSTTypeOK ==
    /\ level_sstables \subseteq Handle /\ disk \subseteq File
    /\ max_level \in Nat /\ next_seq \in Nat \ {0} /\ next_pos \in Nat \ {0}
    /\ sstable_count \in Nat
    /\ strategy \in Strategies /\ smeta \in Strategies
    /\ job \in Job
    /\ status \in {"up", "dead"} /\ torn \in BOOLEAN
    /\ truth \in Table /\ interrupted \in BOOLEAN

(* The index part of the inductive invariant: what the compaction thread holds  *)
(* between its steps.                                                           *)

Merging == job.src \cup job.nxt
Known == level_sstables \cup Merging

\* Sequence numbers name tables, positions follow them, levels are bounded.
Numbered ==
    /\ IsFiniteSet(disk)
    /\ \A f \in disk : f.seq < next_seq /\ f.lvl <= max_level + 1
    /\ \A f, g \in disk : f.seq = g.seq => f = g
    /\ \A h \in Known : h.seq < next_seq /\ h.pos < next_pos /\ h.lvl <= max_level
    /\ \A h, g \in Known : h.pos < g.pos <=> h.seq < g.seq
    /\ \A h, g \in Known : h.seq = g.seq => h = g
    /\ job.lvl <= max_level

\* Which of the tables being merged are still in the index, step by step.
JobStage ==
    /\ job.pc \in {"idle", "check"} \/ job.kind = "flush" => Merging = {}
    /\ job.kind = "flush" => job.pc \in {"idle", "write", "install", "check"}
    /\ job.kind = "tier" => job.nxt = {}
    /\ job.src \cap job.nxt = {}
    /\ job.pc \in {"write", "install", "drop_next"} => Merging \subseteq level_sstables
    /\ job.pc = "drop" => job.src \subseteq level_sstables /\ job.nxt \cap level_sstables = {}
    /\ job.pc = "unlink" => Merging \cap level_sstables = {}
    /\ job.pc = "install" =>
          /\ KeysOf(job.out) # {} =>
                [seq |-> next_seq - 1, lvl |-> Target(job), tbl |-> job.out] \in disk
          /\ next_seq > 1
          /\ \A h \in Known : h.seq < next_seq - 1

\* Files and tables about to be written have entries, a table with entries its file.
Filed ==
    /\ \A h \in level_sstables : KeysOf(h.tbl) # {} => FileOf(h) \in disk
    /\ \A f \in disk : KeysOf(f.tbl) # {}
    /\ job.pc = "write" => KeysOf(job.out) # {}

IndexInv == Numbered /\ JobStage /\ Filed

=============================================================================
