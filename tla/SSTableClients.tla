--------------------------- MODULE SSTableClients ---------------------------
(***************************************************************************)
(* The SSTable manager with the threads that use it: the flusher hands it  *)
(* tables (Storage::flush_memtable_to_sstable), a point reader runs        *)
(* SSTableManager::get and a scanner runs for_each_oldest (range_query and *)
(* keys), each level by level under that level's shared lock; the process  *)
(* may crash and restart.                                                  *)
(***************************************************************************)
EXTENDS SSTableManager

CONSTANTS
    MaxVersion,      \* bound: number of tables flushed
    MaxCrashes,      \* bound: number of crashes
    Threads,         \* the readers that run: a subset of {"get", "scan"}
    Mortal,          \* the keys that are deleted at times: flushed as tombstones
    WriteFailures,   \* whether writing a table may fail, noticed or not
    Switch           \* whether a restart may change sstable_merge_strategy

ASSUME ClientAssumption ==
    /\ MaxVersion \in Nat /\ MaxCrashes \in Nat
    /\ Threads \subseteq {"get", "scan"}
    /\ Mortal \subseteq Keys /\ WriteFailures \in BOOLEAN /\ Switch \in BOOLEAN

\* The keys most properties speak of: neither deleted at times nor in a table that
\* was cut short.
Kept == Keys \ (Mortal \cup Frail)

VARIABLES
    next_ver,        \* the version the next flush writes
    crashes,         \* how many there were
    rd, sc,          \* what the point reader and the scanner are doing
    mixed            \* history: a restart went over to the level strategy

vars == <<sstVars, next_ver, crashes, rd, sc, mixed>>

NoRead == [on |-> FALSE, key |-> 0, lvl |-> 0, max |-> 0, from |-> 0, res |-> 0]
NoScan == [on |-> FALSE, lvl |-> 0, got |-> {}, must |-> {}, missed |-> {},
           moved |-> FALSE]

Init ==
    /\ SSTInit
    /\ next_ver = 1 /\ crashes = 0 /\ rd = NoRead /\ sc = NoScan /\ mixed = FALSE

-----------------------------------------------------------------------------
(* A memtable with the keys ks, of which ds were deleted, is flushed. *)
Flush ==
    /\ next_ver <= MaxVersion
    /\ \E ks \in SUBSET Keys \ {{}} : \E ds \in SUBSET (ks \cap Mortal) :
          create_new_sstable([k \in Keys |->
              IF k \in ks THEN [ver |-> next_ver, dead |-> k \in ds] ELSE NoEntry])
    /\ next_ver' = next_ver + 1
    /\ UNCHANGED <<crashes, rd, sc, mixed>>

Compact ==
    /\ CompactionStep
    /\ WriteFailures \/ next_seq' = next_seq \/ disk' # disk
    /\ sc' = [sc EXCEPT !.moved =
                  @ \/ (sc.on /\ ~(level_sstables \subseteq level_sstables'))]
    /\ UNCHANGED <<next_ver, crashes, rd, mixed>>

-----------------------------------------------------------------------------
(* SSTableManager::get.  Normalisation runs in the constructor, before any    *)
(* reader.  "from" and "res" are the version current at the call and the one  *)
(* returned.                                                                  *)
Serving == status = "up" /\ ~job.norm

\* Mutant of GetBegin: starts below level 0.
GetBeginBelow(k) ==
    /\ Serving /\ ~rd.on /\ "get" \in Threads
    /\ rd' = [on |-> TRUE, key |-> k, lvl |-> 1, max |-> max_level,
              from |-> truth[k].ver, res |-> 0]
    /\ UNCHANGED <<sstVars, next_ver, crashes, sc, mixed>>

GetBegin(k) ==
    /\ Serving /\ ~rd.on /\ "get" \in Threads
    /\ rd' = [on |-> TRUE, key |-> k, lvl |-> 0, max |-> max_level,
              from |-> truth[k].ver, res |-> 0]
    /\ UNCHANGED <<sstVars, next_ver, crashes, sc, mixed>>

GetLevel ==
    /\ rd.on /\ rd.lvl <= rd.max
    /\ LET e == Search(Level(rd.lvl), rd.key)
       IN  rd' = IF e.ver > 0 THEN [rd EXCEPT !.res = e.ver, !.lvl = rd.max + 1]
                              ELSE [rd EXCEPT !.lvl = @ + 1]
    /\ UNCHANGED <<sstVars, next_ver, crashes, sc, mixed>>

GetEnd ==
    /\ rd.on /\ rd.lvl > rd.max
    /\ rd' = NoRead
    /\ UNCHANGED <<sstVars, next_ver, crashes, sc, mixed>>

(* for_each_oldest copies the levels from max_level_ up to level 0, then      *)
(* iterates over the copies, later entries overwriting earlier ones: the      *)
(* lookup order over the copies.  "must" are the keys stored at the call,     *)
(* "moved" says that a merge took tables out of the index meanwhile.          *)
\* Mutant of ScanBegin: leaves out the deepest level.
ScanBeginShort ==
    /\ Serving /\ ~sc.on /\ "scan" \in Threads
    /\ sc' = [on |-> TRUE, lvl |-> IF max_level = 0 THEN 1 ELSE max_level, got |-> {},
              must |-> {k \in Keys : Visible(get(k)) > 0}, missed |-> {},
              moved |-> FALSE]
    /\ UNCHANGED <<sstVars, next_ver, crashes, rd, mixed>>

ScanBegin ==
    /\ Serving /\ ~sc.on /\ "scan" \in Threads
    /\ sc' = [on |-> TRUE, lvl |-> max_level + 1, got |-> {},
              must |-> {k \in Keys : Visible(get(k)) > 0}, missed |-> {},
              moved |-> FALSE]
    /\ UNCHANGED <<sstVars, next_ver, crashes, rd, mixed>>

ScanLevel ==
    /\ sc.on /\ sc.lvl > 0
    /\ sc' = [sc EXCEPT !.lvl = @ - 1, !.got = @ \cup Level(sc.lvl - 1),
                        !.missed = IF sc.lvl > 1 THEN {}
                                   ELSE {k \in sc.must : Search(sc.got \cup Level(0), k).ver = 0}]
    /\ UNCHANGED <<sstVars, next_ver, crashes, rd, mixed>>

ScanEnd ==
    /\ sc.on /\ sc.lvl = 0
    /\ sc' = NoScan
    /\ UNCHANGED <<sstVars, next_ver, crashes, rd, mixed>>

-----------------------------------------------------------------------------
Crash ==
    /\ crashes < MaxCrashes
    /\ status = "up"
    /\ \E st \in Strategies :
          /\ (Switch \/ st = strategy) /\ load_all(st)
          /\ mixed' = (mixed \/ (st # strategy /\ st = "level"))
    /\ crashes' = crashes + 1
    /\ rd' = NoRead /\ sc' = NoScan
    /\ UNCHANGED next_ver

Next ==
    \/ Flush \/ Compact \/ Crash
    \/ \E k \in Keys : GetBegin(k)
    \/ GetLevel \/ GetEnd
    \/ ScanBegin \/ ScanLevel \/ ScanEnd

Spec == Init /\ [][Next]_vars /\ WF_vars(Compact)

-----------------------------------------------------------------------------
(* Properties *)

(* Types of all variables: in particular the levels a pending merge_sstables    *)
(* call names are natural numbers (sstable.cpp:944-976).                         *)
TypeOK ==
    /\ SSTTypeOK
    /\ next_ver \in Nat \ {0} /\ crashes \in Nat
    /\ rd \in [on : BOOLEAN, key : Nat, lvl : Nat, max : Nat, from : Nat, res : Nat]
    /\ rd.on => rd.key \in Keys
    /\ sc \in [on : BOOLEAN, lvl : Nat, got : SUBSET Handle, must : SUBSET Keys,
               missed : SUBSET Keys, moved : BOOLEAN]
    /\ mixed \in BOOLEAN

(* create_from_entries, merge_sstables_by_strategy_0/1, sstable.cpp:978-1193:   *)
(* a table in the index that has entries has its file on disk: no file is       *)
(* unlinked while a reader can still reach it through the index, so a restart   *)
(* finds it too.                                                                *)
IndexedOnDisk ==
    status = "up" => \A h \in level_sstables : KeysOf(h.tbl) # {} => FileOf(h) \in disk

(* sort_sstables_by_sequence, sstable.cpp:1132-1142: the order of a level's     *)
(* vector at run time (insertion order) is the order of the sequence numbers,   *)
(* the one load_all rebuilds, so a restart never reorders a level.              *)
VectorOrderIsSequenceOrder ==
    \A h, g \in level_sstables :
        h.lvl = g.lvl => (h.pos < g.pos <=> h.seq < g.seq)

(* SSTableManager::get, sstable.cpp:1195-1223: between any two steps of flush   *)
(* and compaction, and after every restart that did not cut an unlink loop      *)
(* short, a lookup finds the newest entry ever flushed for the key.  Not so for *)
(* a key that is deleted at times: a merge drops its tombstone (989-1003) and   *)
(* an older value of a deeper level comes back.  And not once a restart went    *)
(* over to the level strategy: normalize_sstables merges the levels into the    *)
(* last one and leaves its tables as they are (868-871), so that a later merge  *)
(* puts an old entry in front of a newer one.  And not for the keys of a table  *)
(* that was cut short (Frail): finish() ignores failed writes (619, 640-681,    *)
(* 697), and a merge unlinks its sources all the same.  Such a table must not   *)
(* hurt any other key.                                                          *)
GetFindsNewest ==
    status = "up" /\ ~interrupted /\ ~mixed =>
        \A k \in Kept : get(k).ver = truth[k].ver

(* The same through the level-by-level read of SSTableManager::get, whose max   *)
(* level is read before the loop (sstable.cpp:1197-1201): as long as no level   *)
(* was added meanwhile, what a reader racing flushes and merges returns is      *)
(* never older than what was current when it started.                           *)
ReaderNeverStale ==
    rd.on /\ rd.lvl > rd.max /\ rd.max = max_level /\ ~interrupted /\ ~mixed
    /\ rd.key \in Kept
        => rd.res >= rd.from

(* merge_sstables_by_strategy_0/1, sstable.cpp:1013-1035, 1077-1124: whatever   *)
(* step a crash cuts short and whatever builder fails, a key that is never      *)
(* deleted stays in some file.  Only the keys of a table whose own writing      *)
(* failed unnoticed (Frail) may go.                                             *)
KeyNeverLost ==
    \A k \in Kept : truth[k].ver > 0 => \E f \in disk : Has(f.tbl, k)

(* for_each_oldest, sstable.cpp:1279-1298: a scan that no merge overtook        *)
(* returns every key stored before it began, whatever was flushed meanwhile.    *)
ScanMissesOnlyUnderMerge == sc.missed # {} => sc.moved

(* merge_sstables_by_strategy_1, sstable.cpp:1038-1130: under the level          *)
(* strategy the tables of a level below the first agree on the keys they share, *)
(* which makes it sound to merge only the overlapping tables of the next level. *)
(* They may differ between the installation of a merge and its unlinking, and   *)
(* after a crash there: then the newer table covers the older one, or (level 1, *)
(* where tombstones may have made the merge narrower) the table whose merge was *)
(* cut short is still the oldest of level 0 and will be merged again first.     *)
Covers(h, g) == \A k \in KeysOf(g.tbl) : \E a, b \in KeysOf(h.tbl) : a <= k /\ k <= b
OldestHas(S, k) ==
    \E o \in S : o.lvl = 0 /\ Has(o.tbl, k) /\ \A g \in S : g.lvl = 0 => o.pos <= g.pos
Consistent(S) ==
    \A g, h \in S : g.lvl = h.lvl /\ g.lvl > 0 /\ g.pos < h.pos =>
        \A k \in Kept : Has(g.tbl, k) /\ Has(h.tbl, k) /\ g.tbl[k].ver # h.tbl[k].ver =>
            IF g.lvl = 1 THEN OldestHas(S, k) ELSE Covers(h, g)
LevelTablesAgree == strategy = "level" /\ ~interrupted /\ ~mixed => Consistent(level_sstables)

(* README.md:448 (DEL deletes keys), merges 989-1003: a key whose newest entry  *)
(* is a tombstone stays invisible through compaction.                           *)
DeletedStaysDeleted ==
    status = "up" /\ ~interrupted =>
        \A k \in Keys : truth[k].dead => Visible(get(k)) = 0

(* merge_sstables, sstable.cpp:944-976: the recursion through the levels ends,  *)
(* so the flush thread returns to the WAL and the next memtable.                *)
CompactionTerminates == (job.pc # "idle") ~> (job.pc = "idle" \/ status = "dead")

-----------------------------------------------------------------------------
(* The data part of the inductive invariant, for KeyNeverLost: a merge keeps    *)
(* every key without tombstones, and the file that replaces the merged ones is  *)
(* complete before the first of them goes.                                      *)
Live(tbl) == \A k \in Kept : ~tbl[k].dead
Held(S, k) == \E h \in S : Has(h.tbl, k)

DataInv ==
    /\ \A f \in disk : Live(f.tbl)
    /\ \A h \in Known : Live(h.tbl)
    /\ Live(job.out)
    /\ \A k \in Kept :
          /\ job.pc \in {"write", "install"} /\ Held(Merging, k) => Has(job.out, k)
          /\ job.pc \in {"drop_next", "drop", "unlink"} /\ Held(Merging, k) =>
                \E f \in disk : Has(f.tbl, k) /\ \A h \in Merging : f.seq # h.seq
    /\ KeyNeverLost

=============================================================================
