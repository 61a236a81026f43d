--------------------------- MODULE SSTableProofs ---------------------------
(***************************************************************************)
(* Proofs about the SSTable manager and its clients, for every set of keys,*)
(* every merge threshold and level size, any number of flushes and crashes *)
(* and any interleaving of readers with the compaction thread.             *)
(***************************************************************************)
EXTENDS SSTableClients, OrderLemmas

-----------------------------------------------------------------------------
(* The lookup order on a bounded set of tables. *)

(* A non-empty set of handles with bounded positions has a first one in the   *)
(* order in which SSTableManager::get searches.                               *)
LEMMA FirstIn ==
    ASSUME NEW S \in SUBSET Handle, S # {}, NEW b \in Nat,
           \A h \in S : h.pos < b
    PROVE  First(S) \in S /\ \A g \in S : Before(First(S), g)
<1> DEFINE L == {h.lvl : h \in S}
<1>1. PICK l \in L : \A m \in L : l <= m
  <2>1. L \in SUBSET Nat /\ L # {}  BY DEF Handle
  <2> HIDE DEF L
  <2> QED  BY <2>1, NatMin
<1> DEFINE P == {h.pos : h \in {g \in S : g.lvl = l}}
<1>2. P \in SUBSET Nat /\ P # {}  BY <1>1 DEF Handle
<1>3. \A q \in P : q <= b  BY DEF Handle
<1>4. PICK p \in P : \A q \in P : p >= q
  <2> HIDE DEF P
  <2> QED  BY <1>2, <1>3, NatMax
<1>5. PICK h \in S : h.lvl = l /\ h.pos = p  BY <1>4
<1>6. ASSUME NEW g \in S PROVE Before(h, g)
  <2>1. h.lvl <= g.lvl /\ h.lvl \in Nat /\ g.lvl \in Nat /\ h.pos \in Nat /\ g.pos \in Nat
    BY <1>1, <1>5 DEF Handle
  <2>2. CASE h.lvl < g.lvl  BY <2>2 DEF Before
  <2>3. CASE h.lvl = g.lvl  BY <2>3, <1>4, <1>5, <2>1 DEF Before
  <2> QED  BY <2>1, <2>2, <2>3
<1> QED  BY <1>5, <1>6 DEF First

(* The search through a set of tables returns an entry of one of them that    *)
(* holds the key, or no entry when none does.                                 *)
LEMMA SearchResult ==
    ASSUME NEW S \in SUBSET Handle, NEW b \in Nat, \A h \in S : h.pos < b,
           NEW k \in Keys
    PROVE  /\ Search(S, k) \in Entry
           /\ ~Held(S, k) => Search(S, k) = NoEntry
           /\ Held(S, k) => \E h \in S : Has(h.tbl, k) /\ Search(S, k) = h.tbl[k]
<1> DEFINE hits == {h \in S : Has(h.tbl, k)}
<1>1. CASE hits = {}
  BY <1>1 DEF Search, Held, NoEntry, Entry
<1>2. CASE hits # {}
  <2>1. First(hits) \in hits
    <3>1. hits \in SUBSET Handle /\ \A h \in hits : h.pos < b  OBVIOUS
    <3> HIDE DEF hits
    <3> QED  BY <1>2, <3>1, FirstIn
  <2>2. Search(S, k) = First(hits).tbl[k]  BY <1>2 DEF Search
  <2>3. First(hits).tbl \in Table  BY <2>1 DEF Handle
  <2> QED  BY <2>1, <2>2, <2>3 DEF Held, Table
<1> QED  BY <1>1, <1>2

(* A merge of live tables is a live table with exactly their keys. *)
LEMMA MergedResult ==
    ASSUME NEW S \in SUBSET Handle, NEW b \in Nat, \A h \in S : h.pos < b
    PROVE  /\ Merged(S) \in Table
           /\ Live(Merged(S))
           /\ (\A h \in S : Live(h.tbl))
                 => \A k \in Kept : Held(S, k) <=> Has(Merged(S), k)
<1>1. \A k \in Keys : Search(S, k) \in Entry  BY SearchResult
<1>2. Merged(S) \in Table /\ Live(Merged(S))
  BY <1>1 DEF Merged, Table, Entry, NoEntry, Live, Kept
<1>3. ASSUME \A h \in S : Live(h.tbl), NEW k \in Kept
      PROVE  Held(S, k) <=> Has(Merged(S), k)
  <2>0. k \in Keys  BY DEF Kept
  <2>1. CASE Held(S, k)
    <3>1. PICK h \in S : Has(h.tbl, k) /\ Search(S, k) = h.tbl[k]
      BY <2>0, <2>1, SearchResult
    <3>2. ~Search(S, k).dead  BY <1>3, <3>1 DEF Live
    <3>3. Merged(S)[k] = Search(S, k)  BY <2>0, <3>2 DEF Merged
    <3> QED  BY <2>1, <3>1, <3>3 DEF Has
  <2>2. CASE ~Held(S, k)
    <3>1. Search(S, k) = NoEntry  BY <2>0, <2>2, SearchResult
    <3> QED  BY <2>0, <2>2, <3>1 DEF Merged, Has, NoEntry
  <2> QED  BY <2>1, <2>2
<1> QED  BY <1>2, <1>3

-----------------------------------------------------------------------------
(* The index invariant. *)

SSTInv == SSTTypeOK /\ IndexInv

(* The idle job and the empty table have their types. *)
LEMMA IdleJobType == IdleJob \in Job /\ EmptyTable \in Table
<1>1. EmptyTable \in Table  BY DEF EmptyTable, NoEntry, Table, Entry
<1> QED  BY <1>1 DEF IdleJob, Job, JobPC, JobKind

(* The manager starts empty. *)
LEMMA InitSSTInv == SSTInit => SSTInv
<1> SUFFICES ASSUME SSTInit PROVE SSTInv  OBVIOUS
<1>1. SSTTypeOK
  <2>1. torn \in BOOLEAN /\ interrupted \in BOOLEAN  BY DEF SSTInit
  <2>2. job \in Job /\ truth \in Table  BY IdleJobType DEF SSTInit
  <2> QED  BY <2>1, <2>2 DEF SSTInit, SSTTypeOK
<1>2. Merging = {} /\ Known = {} /\ job.pc = "idle" /\ job.lvl = 0 /\ disk = {}
      /\ level_sstables = {} /\ max_level = 0
  BY DEF SSTInit, IdleJob, Merging, Known
<1>3. Numbered  BY <1>2, FS_EmptySet DEF Numbered
<1>4. JobStage  BY <1>2 DEF JobStage, Merging
<1>5. Filed  BY <1>2 DEF Filed
<1> QED  BY <1>1, <1>3, <1>4, <1>5 DEF SSTInv, IndexInv

(* create_new_sstable only puts a table in the hands of the compaction thread. *)
LEMMA CreateSSTInv ==
    ASSUME SSTInv, NEW tbl \in Table, create_new_sstable(tbl)
    PROVE  SSTInv'
<1>1. SSTTypeOK'
  <2>1. job' \in Job
    BY IdleJobType DEF create_new_sstable, Job, JobPC
  <2> QED  BY <2>1 DEF SSTInv, SSTTypeOK, create_new_sstable, indexVars
<1>2. Merging' = {} /\ job'.pc = "write" /\ job'.kind = "flush" /\ job'.lvl = 0
  BY DEF create_new_sstable, IdleJob, Merging
<1>3. Known' \subseteq Known
  BY <1>2 DEF create_new_sstable, indexVars, Known
<1>4. Numbered'
  BY <1>2, <1>3 DEF SSTInv, SSTTypeOK, IndexInv, Numbered, create_new_sstable, indexVars
<1>5. JobStage'
  BY <1>2 DEF JobStage, Merging
<1>6. Filed'
  <2>1. job'.out = tbl  BY DEF create_new_sstable, IdleJob
  <2> QED  BY <2>1 DEF SSTInv, IndexInv, Filed, create_new_sstable, indexVars
<1> QED  BY <1>1, <1>4, <1>5, <1>6 DEF SSTInv, IndexInv

(* A merge started on tables of the index: its output is a table, and the     *)
(* tables it merges stay in the index until the output is installed.          *)
LEMMA StartMergeSSTInv ==
    ASSUME SSTInv, NEW j \in Job, NEW kind \in {"tier", "level"}, NEW l \in Nat,
           l <= max_level,
           NEW src \in SUBSET level_sstables, NEW nxt \in SUBSET level_sstables,
           kind = "tier" => nxt = {}, src \cap nxt = {},
           job' = StartMerge(j, kind, l, src, nxt),
           UNCHANGED <<indexVars, disk, next_seq, strategy, status, torn, truth,
                       interrupted>>,
           smeta' \in Strategies
    PROVE  SSTInv'
<1> DEFINE out == Merged(src \cup nxt)
<1>1. src \cup nxt \in SUBSET Handle /\ \A h \in src \cup nxt : h.pos < next_pos
  BY DEF SSTInv, SSTTypeOK, IndexInv, Numbered, Known
<1>2. out \in Table
  BY <1>1, MergedResult DEF SSTInv, SSTTypeOK
<1>3. /\ job' \in Job
      /\ job'.src = src /\ job'.nxt = nxt /\ job'.lvl = l /\ job'.kind = kind
      /\ job'.pc \in {"write", "drop", "drop_next"}
      /\ job'.pc = "drop" => nxt = {}
      /\ job'.pc = "write" => KeysOf(job'.out) # {}
  <2> HIDE DEF out
  <2>1. src \in SUBSET Handle /\ nxt \in SUBSET Handle  BY <1>1
  <2>2. job' = [j EXCEPT !.kind = kind, !.lvl = l, !.src = src, !.nxt = nxt, !.out = out,
                  !.pc = IF KeysOf(out) # {} THEN "write"
                         ELSE IF kind = "tier" THEN "drop" ELSE "drop_next"]
    BY DEF StartMerge, out
  <2> QED  BY <1>2, <2>1, <2>2 DEF Job, JobPC, JobKind
<1>4. SSTTypeOK'
  BY <1>3 DEF SSTInv, SSTTypeOK, indexVars
<1>5. Merging' = src \cup nxt /\ Known' = level_sstables /\ level_sstables' = level_sstables
  BY <1>3 DEF Merging, Known, indexVars
<1>6. Numbered'
  BY <1>3, <1>5 DEF SSTInv, IndexInv, Numbered, Known, indexVars
<1>7. JobStage'
  BY <1>3, <1>5 DEF JobStage
<1>8. Filed'
  BY <1>3 DEF SSTInv, IndexInv, Filed, indexVars
<1> QED  BY <1>4, <1>6, <1>7, <1>8 DEF SSTInv, IndexInv

(* The choice of merge_sstables_by_strategy_1 is a table of its level. *)
LEMMA OldestIn ==
    ASSUME SSTInv, NEW l \in Nat, Level(l) # {}
    PROVE  LET oldest == CHOOSE h \in Level(l) : \A g \in Level(l) : Before(g, h)
           IN  oldest \in Level(l) /\ \A g \in Level(l) : Before(g, oldest)
<1>k. \A h \in Level(l) : h.pos \in Nat /\ h.lvl = l
  BY DEF SSTInv, SSTTypeOK, Level, Handle
<1>1. PICK p \in {h.pos : h \in Level(l)} : \A q \in {h.pos : h \in Level(l)} : p <= q
  <2>1. {h.pos : h \in Level(l)} \in SUBSET Nat /\ {h.pos : h \in Level(l)} # {}
    BY <1>k
  <2> QED  BY <2>1, NatMin
<1>2. PICK h \in Level(l) : h.pos = p  BY <1>1
<1>3. \A g \in Level(l) : Before(g, h)
  BY <1>k, <1>1, <1>2 DEF Before
<1> QED  BY <1>2, <1>3

(* The file unlinked is the file of a table that was merged. *)
LEMMA UnlinkedIsMerged ==
    ASSUME SSTInv, unlink_file
    PROVE  \E u \in Merging : disk' = disk \ {FileOf(u)}
<1>1. Unlinkable \in SUBSET Handle /\ \A h \in Unlinkable : h.pos < next_pos
  BY DEF SSTInv, SSTTypeOK, Job, Unlinkable, Merging, Known, IndexInv, Numbered
<1>2. First(Unlinkable) \in Unlinkable
  BY <1>1, FirstIn DEF unlink_file, SSTInv, SSTTypeOK
<1> QED  BY <1>2 DEF unlink_file, Unlinkable, Merging

(* Taking tables or files away keeps the numbering. *)
LEMMA NumberedShrinks ==
    ASSUME SSTInv, Known' \subseteq Known, disk' \subseteq disk,
           UNCHANGED <<max_level, next_seq, next_pos>>, job'.lvl <= max_level
    PROVE  Numbered'
<1>1. IsFiniteSet(disk')  BY FS_Subset DEF SSTInv, IndexInv, Numbered
<1> QED  BY <1>1 DEF SSTInv, IndexInv, Numbered

(* Every step of the compaction thread preserves the index invariant. *)
LEMMA CompactionSSTInv ==
    ASSUME SSTInv, CompactionStep
    PROVE  SSTInv'
<1> USE DEF SSTInv
<1>t. /\ job \in Job /\ job.src \in SUBSET Handle /\ job.nxt \in SUBSET Handle
      /\ job.lvl \in Nat /\ job.out \in Table /\ job.todo \in Seq(Nat)
      /\ next_seq \in Nat \ {0} /\ next_pos \in Nat \ {0} /\ max_level \in Nat
      /\ Target(job) \in Nat /\ Target(job) <= max_level + 1
  BY DEF SSTTypeOK, Job, IndexInv, Numbered, Target
<1>k. \A h \in Known : h.seq \in Nat /\ h.pos \in Nat /\ h.lvl \in Nat
  BY <1>t DEF SSTTypeOK, Known, Merging, Handle
<1>f. \A f \in disk : f.seq \in Nat /\ f.lvl \in Nat
  BY DEF SSTTypeOK, File
<1>1. CASE create_from_entries_write
  <2> DEFINE new == [seq |-> next_seq, lvl |-> Target(job), tbl |-> job.out]
  <2>1. job' \in Job /\ Merging' = Merging /\ Known' = Known /\ job'.lvl = job.lvl
        /\ job'.kind = job.kind /\ job'.pc = "install" /\ Target(job)' = Target(job)
        /\ job'.out = job.out /\ level_sstables' = level_sstables /\ job'.nxt = job.nxt
        /\ job'.src = job.src
    BY <1>1, <1>t DEF create_from_entries_write, Job, JobPC, Merging, Known, Target, indexVars
  <2>2. SSTTypeOK'
    BY <1>1, <1>t, <2>1 DEF create_from_entries_write, SSTTypeOK, File, indexVars
  <2>3. IsFiniteSet(disk')
    BY <1>1, FS_AddElement DEF create_from_entries_write, IndexInv, Numbered
  <2>4. Numbered'
    <3>1. \A f \in disk' : f.seq < next_seq' /\ f.lvl <= max_level' + 1
      BY <1>1, <1>t, <1>f DEF create_from_entries_write, IndexInv, Numbered, indexVars
    <3>2. \A f, g \in disk' : f.seq = g.seq => f = g
      BY <1>1, <1>t, <1>f DEF create_from_entries_write, IndexInv, Numbered
    <3>3. \A h \in Known' : h.seq < next_seq' /\ h.pos < next_pos' /\ h.lvl <= max_level'
      BY <1>1, <1>t, <1>k, <2>1 DEF create_from_entries_write, IndexInv, Numbered, indexVars
    <3> QED
      BY <1>1, <2>1, <2>3, <3>1, <3>2, <3>3
      DEF create_from_entries_write, IndexInv, Numbered, indexVars
  <2>5. JobStage'
    <3>1. new \in disk' /\ next_seq' - 1 = next_seq /\ next_seq' > 1
      BY <1>1, <1>t DEF create_from_entries_write
    <3>2. \A h \in Known' : h.seq < next_seq' - 1
      BY <2>1, <3>1 DEF IndexInv, Numbered
    <3>3. Merging' \subseteq level_sstables' /\ (job'.kind = "flush" => Merging' = {})
          /\ (job'.kind = "tier" => job'.nxt = {}) /\ job'.src \cap job'.nxt = {}
      BY <1>1, <2>1 DEF create_from_entries_write, IndexInv, JobStage
    <3> QED  BY <2>1, <3>1, <3>2, <3>3 DEF JobStage
  <2>6. Filed'
    BY <1>1, <2>1 DEF create_from_entries_write, IndexInv, Filed
  <2> QED  BY <2>2, <2>4, <2>5, <2>6 DEF IndexInv
<1>2. CASE create_from_entries_fail
  <2>1. job' \in Job /\ Merging' = {} /\ job'.lvl <= max_level
        /\ job'.pc \in {"idle", "check"}
    <3>1. CASE job.kind = "flush"
      BY <1>2, <1>t, <3>1, IdleJobType DEF create_from_entries_fail, IdleJob, Merging
    <3>2. CASE job.kind # "flush"
      BY <1>2, <1>t, <3>2, IdleJobType
      DEF create_from_entries_fail, Job, JobPC, Merging, IndexInv, Numbered
    <3> QED  BY <3>1, <3>2
  <2>2. SSTTypeOK'
    BY <1>2, <1>t, <2>1 DEF create_from_entries_fail, SSTTypeOK, indexVars
  <2>3. Known' \subseteq Known /\ disk' = disk /\ level_sstables' = level_sstables
    BY <1>2, <2>1 DEF create_from_entries_fail, Known, indexVars
  <2>4. Numbered'
    BY <1>2, <1>t, <1>k, <1>f, <2>1, <2>3
    DEF create_from_entries_fail, IndexInv, Numbered, indexVars
  <2>5. JobStage'  BY <2>1 DEF JobStage, Merging
  <2>6. Filed'  BY <2>1, <2>3 DEF IndexInv, Filed
  <2> QED  BY <2>2, <2>4, <2>5, <2>6 DEF IndexInv
<1>11. CASE create_from_entries_truncated
  <2>1. job' \in Job /\ Merging' = Merging /\ Known' = Known /\ job'.lvl = job.lvl
        /\ job'.kind = job.kind /\ job'.pc = "install" /\ KeysOf(job'.out) = {}
        /\ level_sstables' = level_sstables /\ job'.nxt = job.nxt /\ job'.src = job.src
    <3>1. KeysOf(EmptyTable) = {}  BY DEF KeysOf, Has, EmptyTable, NoEntry
    <3> QED
      BY <1>11, <1>t, <3>1, IdleJobType
      DEF create_from_entries_truncated, Job, JobPC, Merging, Known, indexVars
  <2>2. SSTTypeOK'
    BY <1>11, <1>t, <2>1 DEF create_from_entries_truncated, SSTTypeOK, indexVars
  <2>3. disk' = disk /\ next_seq' = next_seq + 1 /\ max_level' = max_level
        /\ next_pos' = next_pos
    BY <1>11 DEF create_from_entries_truncated, indexVars
  <2>4. Numbered'
    BY <1>t, <1>k, <1>f, <2>1, <2>3 DEF IndexInv, Numbered
  <2>5. JobStage'
    <3>1. next_seq' - 1 = next_seq /\ next_seq' > 1  BY <1>t, <2>3
    <3>2. \A h \in Known' : h.seq < next_seq' - 1
      BY <2>1, <3>1 DEF IndexInv, Numbered
    <3>3. Merging' \subseteq level_sstables' /\ (job'.kind = "flush" => Merging' = {})
          /\ (job'.kind = "tier" => job'.nxt = {}) /\ job'.src \cap job'.nxt = {}
      BY <1>11, <2>1 DEF create_from_entries_truncated, IndexInv, JobStage
    <3> QED  BY <2>1, <3>1, <3>2, <3>3 DEF JobStage
  <2>6. Filed'  BY <2>1, <2>3 DEF IndexInv, Filed
  <2> QED  BY <2>2, <2>4, <2>5, <2>6 DEF IndexInv
<1>3. CASE create_from_entries_install
  <2> DEFINE new == [seq |-> next_seq - 1, lvl |-> Target(job), tbl |-> job.out,
                     pos |-> next_pos]
  <2>1. /\ KeysOf(job.out) # {} => FileOf(new) \in disk
        /\ next_seq > 1 /\ new \in Handle
        /\ \A h \in Known : h.seq < next_seq - 1
        /\ Merging \subseteq level_sstables
    BY <1>3, <1>t DEF create_from_entries_install, IndexInv, JobStage, FileOf, Handle
  <2>2. level_sstables' = level_sstables \cup {new} /\ disk' = disk /\ next_seq' = next_seq
        /\ next_pos' = next_pos + 1
    BY <1>3 DEF create_from_entries_install
  <2>3. max_level' \in Nat /\ max_level <= max_level' /\ Target(job) <= max_level'
    BY <1>3, <1>t DEF create_from_entries_install
  <2>4. /\ job' \in Job /\ job'.lvl <= max_level'
        /\ Merging' \subseteq Merging
        /\ \/ job'.kind = "flush" /\ job'.pc = "check" /\ Merging' = {}
           \/ /\ job'.kind # "flush" /\ job'.pc = "drop" /\ job'.nxt = {}
              /\ job'.src = job.src
           \/ job'.kind = "level" /\ job'.pc = "drop_next"
        /\ job'.src \cap job'.nxt = {}
    <3>1. CASE job.kind = "flush"
      <4>1. job' = [IdleJob EXCEPT !.pc = "check", !.todo = <<0>>]
        BY <1>3, <3>1 DEF create_from_entries_install
      <4>2. <<0>> \in Seq(Nat)  OBVIOUS
      <4>3. job' \in Job  BY <4>1, <4>2, IdleJobType DEF Job, JobPC
      <4> QED  BY <4>1, <4>3, <2>3 DEF IdleJob, Merging
    <3>2. CASE job.kind # "flush"
      <4> DEFINE p == IF job.kind = "tier" THEN "drop" ELSE "drop_next"
      <4>1. (job.kind = "tier" => job.nxt = {}) /\ job.kind \in {"tier", "level"}
            /\ job.src \cap job.nxt = {}
        BY <1>t, <3>2 DEF IndexInv, JobStage, Job, JobKind
      <4>2. job' = [job EXCEPT !.pc = p]
        BY <1>3, <3>2 DEF create_from_entries_install
      <4>3. job' \in Job  BY <1>t, <4>2 DEF Job, JobPC
      <4>4. job'.lvl = job.lvl /\ job'.kind = job.kind /\ job'.src = job.src
            /\ job'.nxt = job.nxt /\ job'.pc = p
        BY <1>t, <4>2 DEF Job
      <4>5. job.lvl <= max_level'  BY <1>t, <2>3 DEF IndexInv, Numbered
      <4> QED  BY <3>2, <4>1, <4>3, <4>4, <4>5 DEF Merging
    <3> QED  BY <3>1, <3>2
  <2>5. SSTTypeOK'
    <3>1. truth' \in Table
      BY <1>3, <1>t DEF create_from_entries_install, SSTTypeOK, Overwrite, Table
    <3> QED
      BY <1>3, <1>t, <2>1, <2>2, <2>3, <2>4, <3>1
      DEF create_from_entries_install, SSTTypeOK
  <2>6. Known' \subseteq Known \cup {new}
    BY <2>2, <2>4 DEF Known
  <2>7. Numbered'
    <3>1. \A h \in Known' : h.seq < next_seq' /\ h.pos < next_pos' /\ h.lvl <= max_level'
      BY <1>t, <1>k, <2>2, <2>3, <2>6 DEF IndexInv, Numbered
    <3>2. \A h, g \in Known' : h.pos < g.pos <=> h.seq < g.seq
      <4> SUFFICES ASSUME NEW h \in Known', NEW g \in Known'
                   PROVE  h.pos < g.pos <=> h.seq < g.seq
        OBVIOUS
      <4>1. CASE h \in Known /\ g \in Known  BY <4>1 DEF IndexInv, Numbered
      <4>2. CASE h = new /\ g \in Known
        BY <4>2, <1>t, <1>k, <2>1 DEF IndexInv, Numbered
      <4>3. CASE h \in Known /\ g = new
        BY <4>3, <1>t, <1>k, <2>1 DEF IndexInv, Numbered
      <4>4. CASE h = new /\ g = new  BY <4>4, <1>t
      <4> QED  BY <2>6, <4>1, <4>2, <4>3, <4>4
    <3>3. \A h, g \in Known' : h.seq = g.seq => h = g
      BY <1>t, <1>k, <2>1, <2>6 DEF IndexInv, Numbered
    <3>4. \A f \in disk' : f.seq < next_seq' /\ f.lvl <= max_level' + 1
      BY <1>t, <1>f, <2>2, <2>3 DEF IndexInv, Numbered
    <3> QED  BY <2>2, <2>4, <3>1, <3>2, <3>3, <3>4 DEF IndexInv, Numbered
  <2>8. JobStage'
    <3>1. Merging' \subseteq level_sstables'  BY <2>1, <2>2, <2>4
    <3> QED  BY <2>4, <3>1 DEF JobStage, Merging, JobKind
  <2>9. Filed'
    <3>1. job'.pc # "write"  BY <2>4
    <3> QED  BY <2>1, <2>2, <3>1 DEF IndexInv, Filed
  <2> QED  BY <2>5, <2>7, <2>8, <2>9 DEF IndexInv
<1>4. CASE merge_sstables
  <2> DEFINE l == Head(job.todo)
             j == [job EXCEPT !.todo = Tail(@)]
  <2>1. l \in Nat /\ Tail(job.todo) \in Seq(Nat)
    BY <1>4, <1>t DEF merge_sstables
  <2>2. j \in Job /\ j.lvl = job.lvl /\ j.src = job.src /\ j.nxt = job.nxt
        /\ j.pc = "check" /\ j.kind = job.kind
    BY <1>4, <1>t, <2>1 DEF merge_sstables, Job
  <2>3. UNCHANGED <<indexVars, disk, next_seq, smeta, strategy, status, torn, truth,
                    interrupted>>
    BY <1>4 DEF merge_sstables
  <2>4. CASE job' = j
    <3>1. SSTTypeOK'  BY <2>2, <2>3, <2>4 DEF SSTTypeOK, indexVars
    <3>2. Merging' = {} /\ Known' \subseteq Known
      BY <1>4, <2>2, <2>3, <2>4 DEF merge_sstables, Merging, Known, IndexInv, JobStage, indexVars
    <3>3. Numbered'
      BY <2>2, <2>3, <2>4, <3>2, NumberedShrinks DEF IndexInv, Numbered, indexVars
    <3>4. JobStage'  BY <2>2, <2>4, <3>2 DEF JobStage, Merging
    <3>5. Filed'  BY <2>2, <2>3, <2>4 DEF IndexInv, Filed, indexVars
    <3> QED  BY <3>1, <3>3, <3>4, <3>5 DEF IndexInv
  <2>5. CASE l <= max_level /\ job' = StartTier(j, l) /\ job' # j
    <3>1. job' = StartMerge(j, "tier", l, Level(l), {})
      BY <2>5 DEF StartTier
    <3>2. Level(l) \in SUBSET level_sstables /\ {} \in SUBSET level_sstables
      BY DEF Level
    <3>3. smeta' \in Strategies  BY <2>3 DEF SSTTypeOK
    <3> HIDE DEF l, j
    <3> QED
      BY <2>1, <2>2, <2>3, <2>5, <3>1, <3>2, <3>3, StartMergeSSTInv
  <2>6. CASE l <= max_level /\ job' = StartLevel(j, l) /\ job' # j
    <3> DEFINE oldest == CHOOSE h \in Level(l) : \A g \in Level(l) : Before(g, h)
               nxt == {g \in Level(l + 1) : Overlaps(oldest, g)}
    <3>1. Level(l) # {} /\ job' = StartMerge(j, "level", l, {oldest}, nxt)
      BY <2>6 DEF StartLevel
    <3>2. oldest \in Level(l)  BY <2>1, <3>1, OldestIn
    <3>3. {oldest} \in SUBSET level_sstables /\ nxt \in SUBSET level_sstables
          /\ {oldest} \cap nxt = {}
      <4>1. l # l + 1  BY <2>1
      <4>2. oldest \in level_sstables /\ oldest.lvl = l
        <5> HIDE DEF oldest, l
        <5> QED  BY <3>2 DEF Level
      <4>3. \A g \in nxt : g \in level_sstables /\ g.lvl = l + 1
        <5> HIDE DEF oldest, l
        <5> QED  BY DEF Level
      <4> HIDE DEF oldest, nxt, l
      <4> QED  BY <4>1, <4>2, <4>3
    <3>4. smeta' \in Strategies  BY <2>3 DEF SSTTypeOK
    <3> HIDE DEF l, j, oldest, nxt
    <3> QED
      BY <2>1, <2>2, <2>3, <2>6, <3>1, <3>3, <3>4, StartMergeSSTInv
  <2>7. \/ job' = j
        \/ l <= max_level /\ job' = StartTier(j, l)
        \/ l <= max_level /\ job' = StartLevel(j, l)
    <3>1. PICK should_merge \in MayMerge(l) :
             job' = IF l > max_level \/ ~should_merge THEN j
                    ELSE IF strategy = "size_tiered" \/ l = max_level
                         THEN StartTier(j, l) ELSE StartLevel(j, l)
      BY <1>4 DEF merge_sstables
    <3> HIDE DEF l, j
    <3> QED  BY <1>t, <2>1, <3>1
  <2> HIDE DEF l, j
  <2> QED  BY <2>4, <2>5, <2>6, <2>7
<1>5. CASE drop_next_level
  <2>1. job' \in Job /\ job'.src = job.src /\ job'.nxt = job.nxt /\ job'.lvl = job.lvl
        /\ job'.kind = job.kind /\ job'.pc = "drop"
    BY <1>5, <1>t DEF drop_next_level, Job, JobPC
  <2>2. level_sstables' = level_sstables \ job.nxt
    BY <1>5 DEF drop_next_level
  <2>3. SSTTypeOK'  BY <1>5, <2>1, <2>2 DEF drop_next_level, SSTTypeOK
  <2>4. Numbered'
    <3>1. Known' \subseteq Known  BY <2>1, <2>2 DEF Known, Merging
    <3> QED
      BY <1>5, <2>1, <3>1, NumberedShrinks DEF drop_next_level, IndexInv, Numbered
  <2>5. JobStage'
    <3>1. job'.src \subseteq level_sstables' /\ job'.nxt \cap level_sstables' = {}
      BY <1>5, <2>1, <2>2 DEF drop_next_level, IndexInv, JobStage, Merging
    <3>2. job.kind # "flush"
      BY <1>5 DEF drop_next_level, IndexInv, JobStage
    <3> QED  BY <2>1, <3>1, <3>2 DEF JobStage, IndexInv
  <2>6. Filed'
    BY <1>5, <2>1, <2>2 DEF drop_next_level, IndexInv, Filed
  <2> QED  BY <2>3, <2>4, <2>5, <2>6 DEF IndexInv
<1>6. CASE drop_level
  <2>1. job' \in Job /\ job'.src = job.src /\ job'.nxt = job.nxt /\ job'.lvl = job.lvl
        /\ job'.kind = job.kind /\ job'.pc = "unlink"
    BY <1>6, <1>t DEF drop_level, Job, JobPC
  <2>2. level_sstables' = level_sstables \ job.src
    BY <1>6 DEF drop_level
  <2>3. SSTTypeOK'  BY <1>6, <2>1, <2>2 DEF drop_level, SSTTypeOK
  <2>4. Numbered'
    <3>1. Known' \subseteq Known  BY <2>1, <2>2 DEF Known, Merging
    <3> QED
      BY <1>6, <2>1, <3>1, NumberedShrinks DEF drop_level, IndexInv, Numbered
  <2>5. JobStage'
    <3>1. Merging' \cap level_sstables' = {}
      BY <1>6, <2>1, <2>2 DEF drop_level, IndexInv, JobStage, Merging
    <3>2. job.kind # "flush"
      BY <1>6 DEF drop_level, IndexInv, JobStage
    <3> QED  BY <2>1, <3>1, <3>2 DEF JobStage, IndexInv
  <2>6. Filed'
    BY <1>6, <2>1, <2>2 DEF drop_level, IndexInv, Filed
  <2> QED  BY <2>3, <2>4, <2>5, <2>6 DEF IndexInv
<1>7. CASE unlink_file
  <2>1. UNCHANGED <<level_sstables, max_level, next_pos, next_seq, job, Merging, Known>>
    BY <1>7 DEF unlink_file, indexVars, Merging, Known
  <2>2. PICK u \in Merging : disk' = disk \ {FileOf(u)}
    BY <1>7, UnlinkedIsMerged
  <2>3. SSTTypeOK'  BY <1>7, <2>2 DEF unlink_file, SSTTypeOK, indexVars
  <2>4. Numbered'
    BY <2>1, <2>2, NumberedShrinks DEF IndexInv, Numbered
  <2>5. JobStage'
    BY <1>7, <2>1 DEF unlink_file, IndexInv, JobStage
  <2>6. Filed'
    <3> SUFFICES ASSUME NEW h \in level_sstables PROVE FileOf(h) # FileOf(u)
      BY <2>1, <2>2 DEF IndexInv, Filed
    <3>1. h # u  BY <1>7 DEF unlink_file, IndexInv, JobStage
    <3>2. h.seq # u.seq  BY <3>1 DEF IndexInv, Numbered, Known
    <3> QED  BY <3>2 DEF FileOf
  <2> QED  BY <2>3, <2>4, <2>5, <2>6 DEF IndexInv
<1>8. CASE merge_done
  <2> DEFINE more == IF job.kind = "tier" THEN <<job.lvl + 1>>
                     ELSE <<job.lvl, job.lvl + 1>>
  <2>1. more \o job.todo \in Seq(Nat)
    <3>1. more \in Seq(Nat)  BY <1>t
    <3> QED  BY <1>t, <3>1
  <2>2. job' \in Job /\ job'.src = {} /\ job'.nxt = {} /\ job'.lvl = job.lvl
        /\ job'.pc = "check"
    <3> HIDE DEF more
    <3>1. job' = [job EXCEPT !.pc = "check", !.src = {}, !.nxt = {}, !.out = EmptyTable,
                             !.todo = more \o @]
      BY <1>8 DEF merge_done, more
    <3> QED  BY <1>t, <2>1, <3>1, IdleJobType DEF Job, JobPC
  <2>3. SSTTypeOK'  BY <1>8, <2>2 DEF merge_done, SSTTypeOK, indexVars
  <2>4. Merging' = {} /\ Known' \subseteq Known
    BY <1>8, <2>2 DEF merge_done, Merging, Known, indexVars
  <2>5. Numbered'
    BY <1>8, <2>2, <2>4, NumberedShrinks DEF merge_done, indexVars, IndexInv, Numbered
  <2>6. JobStage'  BY <2>2, <2>4 DEF JobStage
  <2>7. Filed'  BY <1>8, <2>2 DEF merge_done, indexVars, IndexInv, Filed
  <2> QED  BY <2>3, <2>5, <2>6, <2>7 DEF IndexInv
<1>9. CASE normalize_sstables
  <2>1. UNCHANGED <<indexVars, disk, next_seq, strategy, status, torn, truth, interrupted>>
    BY <1>9 DEF normalize_sstables
  <2>2. smeta' \in Strategies  BY <1>9 DEF normalize_sstables, SSTTypeOK
  <2> DEFINE j == [job EXCEPT !.next_norm = @ + 1]
             l == job.next_norm
  <2>3. j \in Job /\ j.lvl = job.lvl /\ j.src = job.src /\ j.nxt = job.nxt
        /\ j.pc = "check" /\ j.kind = job.kind /\ l \in Nat
    BY <1>9, <1>t DEF normalize_sstables, Job
  <2>4. CASE job' \in {j, IdleJob}
    <3>1. job' \in Job /\ Merging' = {} /\ job'.lvl <= max_level
          /\ job'.pc \in {"idle", "check"}
      <4>1. CASE job' = IdleJob
        BY <4>1, <1>t, IdleJobType DEF IdleJob, Merging
      <4>2. CASE job' = j
        BY <1>9, <1>t, <2>3, <4>2
        DEF normalize_sstables, Merging, IndexInv, JobStage, Numbered
      <4> QED  BY <2>4, <4>1, <4>2
    <3>2. SSTTypeOK'  BY <2>1, <2>2, <3>1 DEF SSTTypeOK, indexVars
    <3>3. Known' \subseteq Known  BY <2>1, <3>1 DEF Known, indexVars
    <3>4. Numbered'  BY <2>1, <3>1, <3>3, NumberedShrinks DEF indexVars
    <3>5. JobStage'  BY <3>1 DEF JobStage, Merging
    <3>6. Filed'  BY <2>1, <3>1 DEF IndexInv, Filed, indexVars
    <3> QED  BY <3>2, <3>4, <3>5, <3>6 DEF IndexInv
  <2>5. CASE l < max_level /\ job' = StartTier(j, l) /\ job' # j
    <3>1. job' = StartMerge(j, "tier", l, Level(l), {})
      BY <2>5 DEF StartTier
    <3>2. Level(l) \in SUBSET level_sstables /\ {} \in SUBSET level_sstables
      BY DEF Level
    <3>3. l <= max_level  BY <1>t, <2>3, <2>5
    <3> HIDE DEF l, j
    <3> QED
      BY <2>1, <2>2, <2>3, <3>1, <3>2, <3>3, StartMergeSSTInv
  <2> QED  BY <1>9, <2>4, <2>5 DEF normalize_sstables
<1>10. CASE merge_return
  <2>1. UNCHANGED <<indexVars, disk, next_seq, smeta, strategy, status, torn, truth,
                    interrupted>> /\ job' = IdleJob
    BY <1>10 DEF merge_return
  <2>2. Merging' = {} /\ Known' \subseteq Known /\ job'.lvl <= max_level /\ job'.pc = "idle"
    BY <1>t, <2>1 DEF IdleJob, Merging, Known, indexVars
  <2>3. SSTTypeOK'  BY <2>1, IdleJobType DEF SSTTypeOK, indexVars
  <2>4. Numbered'  BY <2>1, <2>2, NumberedShrinks DEF indexVars
  <2>5. JobStage'  BY <2>2 DEF JobStage, Merging
  <2>6. Filed'  BY <2>1, <2>2 DEF IndexInv, Filed, indexVars
  <2> QED  BY <2>3, <2>4, <2>5, <2>6 DEF IndexInv
<1> QED
  BY <1>1, <1>2, <1>3, <1>4, <1>5, <1>6, <1>7, <1>8, <1>9, <1>10, <1>11
  DEF CompactionStep

(* A restart rebuilds the index from the files: load_all re-establishes the   *)
(* index invariant from what any crash left on disk.                          *)
LEMMA LoadSSTInv ==
    ASSUME SSTInv, NEW st \in Strategies, load_all(st)
    PROVE  SSTInv'
<1> USE DEF SSTInv
<1>f. \A f \in disk : f \in File /\ f.seq \in Nat /\ f.lvl \in Nat /\ f.tbl \in Table
  BY DEF SSTTypeOK, File
<1>1. \A S \in SUBSET Nat, b \in Nat :
         S # {} /\ (\A x \in S : x <= b) => Max(S) \in S /\ \A x \in S : x <= Max(S)
  <2> SUFFICES ASSUME NEW S \in SUBSET Nat, NEW b \in Nat, S # {}, \A x \in S : x <= b
               PROVE  Max(S) \in S /\ \A x \in S : x <= Max(S)
    OBVIOUS
  <2>1. \E x \in S : \A y \in S : x >= y  BY NatMax
  <2>2. Max(S) \in S /\ \A y \in S : Max(S) >= y  BY <2>1 DEF Max
  <2> QED  BY <2>2
<1>2. max_level' \in Nat /\ \A f \in disk : f.lvl <= max_level'
  <2> DEFINE S == {f.lvl : f \in disk} \cup {0}
  <2>1. S \in SUBSET Nat /\ S # {} /\ max_level + 1 \in Nat
        /\ \A x \in S : x <= max_level + 1
    BY <1>f DEF SSTTypeOK, IndexInv, Numbered
  <2>2. max_level' = Max(S)  BY DEF load_all
  <2>3. \A f \in disk : f.lvl \in S  OBVIOUS
  <2> HIDE DEF S
  <2> QED  BY <1>1, <2>1, <2>2, <2>3
<1>3. next_seq' \in Nat \ {0} /\ \A f \in disk : f.seq < next_seq'
  <2> DEFINE S == {f.seq : f \in disk} \cup {0}
  <2>1. S \in SUBSET Nat /\ S # {} /\ next_seq \in Nat /\ \A x \in S : x <= next_seq
    BY <1>f DEF SSTTypeOK, IndexInv, Numbered
  <2>2. next_seq' = Max(S) + 1  BY DEF load_all
  <2>3. \A f \in disk : f.seq \in S  OBVIOUS
  <2>4. Max(S) \in Nat /\ \A x \in S : x <= Max(S)
    <3> HIDE DEF S
    <3> QED  BY <1>1, <2>1
  <2> HIDE DEF S
  <2> QED  BY <1>f, <2>2, <2>3, <2>4
<1>4. job' \in Job /\ Merging' = {} /\ job'.lvl = 0 /\ job'.pc \in {"idle", "check"}
      /\ job'.nxt = {} /\ job'.src = {}
  BY IdleJobType DEF load_all, IdleJob, Job, JobPC, Merging
<1>5. /\ level_sstables' = Loaded /\ disk' = disk /\ next_pos' = next_seq'
      /\ Known' = Loaded
  BY <1>4 DEF load_all, Known
<1>6. /\ Loaded \subseteq Handle
      /\ \A h \in Loaded : FileOf(h) \in disk /\ h.pos = h.seq
      /\ \A h \in Loaded : \E f \in disk : h.seq = f.seq /\ h.lvl = f.lvl
      /\ \A h, g \in Loaded : h.seq = g.seq => h = g
  <2>1. ASSUME NEW f \in disk
        PROVE  [seq |-> f.seq, lvl |-> f.lvl, tbl |-> f.tbl, pos |-> f.seq] \in Handle
               /\ [seq |-> f.seq, lvl |-> f.lvl, tbl |-> f.tbl] = f
    BY <1>f DEF Handle, File
  <2>2. \A f, g \in disk : f.seq = g.seq => f = g  BY DEF IndexInv, Numbered
  <2>3. Loaded \subseteq Handle  BY <2>1 DEF Loaded
  <2>4. \A h \in Loaded : FileOf(h) \in disk /\ h.pos = h.seq
    BY <2>1 DEF Loaded, FileOf
  <2>5. \A h, g \in Loaded : h.seq = g.seq => h = g
    BY <2>2 DEF Loaded
  <2>6. \A h \in Loaded : \E f \in disk : h.seq = f.seq /\ h.lvl = f.lvl
    BY DEF Loaded
  <2> QED  BY <2>3, <2>4, <2>5, <2>6
<1>7. SSTTypeOK'
  <2>1. sstable_count' \in Nat
    <3>1. Cardinality(disk) \in Nat  BY FS_CardinalityType DEF IndexInv, Numbered
    <3> QED  BY <3>1 DEF load_all
  <2>2. torn' \in BOOLEAN /\ status' \in {"up", "dead"}
    BY DEF load_all, SSTTypeOK
  <2>3. truth' \in Table
    BY DEF load_all, SSTTypeOK, Overwrite, Table, Job
  <2>4. interrupted' \in BOOLEAN
    BY DEF load_all, SSTTypeOK
  <2>5. strategy' \in Strategies /\ smeta' \in Strategies
    BY DEF load_all, SSTTypeOK
  <2> QED
    BY <1>2, <1>3, <1>4, <1>5, <1>6, <2>1, <2>2, <2>3, <2>4, <2>5 DEF SSTTypeOK
<1>8. Numbered'
  <2>1. \A h \in Known' : h.seq < next_seq' /\ h.pos < next_pos' /\ h.lvl <= max_level'
    BY <1>2, <1>3, <1>5, <1>6
  <2>2. \A f \in disk' : f.lvl <= max_level' + 1
    BY <1>f, <1>2, <1>5
  <2>3. \A h, g \in Known' : h.pos < g.pos <=> h.seq < g.seq
    BY <1>5, <1>6
  <2>4. job'.lvl <= max_level'  BY <1>2, <1>4
  <2> QED
    BY <1>3, <1>5, <1>6, <2>1, <2>2, <2>3, <2>4 DEF IndexInv, Numbered
<1>9. JobStage'  BY <1>4 DEF JobStage
<1>10. Filed'  BY <1>4, <1>5, <1>6 DEF IndexInv, Filed
<1> QED  BY <1>7, <1>8, <1>9, <1>10 DEF IndexInv

-----------------------------------------------------------------------------
(* The clients: every step is a step of the manager or leaves it alone. *)

Inv == TypeOK /\ IndexInv

FlushedTable(ks, ds) ==
    [k \in Keys |-> IF k \in ks THEN [ver |-> next_ver, dead |-> k \in ds] ELSE NoEntry]

(* The invariant holds when the process starts on an empty directory. *)
LEMMA InvInit == Init => Inv
<1> SUFFICES ASSUME Init PROVE Inv  OBVIOUS
<1>1. SSTInv  BY InitSSTInv DEF Init
<1>2. next_ver \in Nat \ {0} /\ crashes \in Nat  BY DEF Init
<1>3. ~rd.on /\ rd \in [on : BOOLEAN, key : Nat, lvl : Nat, max : Nat, from : Nat, res : Nat]
  BY DEF Init, NoRead
<1>4. sc \in [on : BOOLEAN, lvl : Nat, got : SUBSET Handle, must : SUBSET Keys,
              missed : SUBSET Keys, moved : BOOLEAN]
  BY DEF Init, NoScan
<1>5. mixed \in BOOLEAN  BY DEF Init
<1> QED  BY <1>1, <1>2, <1>3, <1>4, <1>5 DEF Inv, TypeOK, SSTInv

(* Every step of flusher, compaction, readers and restart preserves it. *)
LEMMA InvNext == Inv /\ [Next]_vars => Inv'
<1> SUFFICES ASSUME Inv, [Next]_vars PROVE Inv'  OBVIOUS
<1> DEFINE RdType == [on : BOOLEAN, key : Nat, lvl : Nat, max : Nat, from : Nat, res : Nat]
           RdKey == rd.on => rd.key \in Keys
           ScType == [on : BOOLEAN, lvl : Nat, got : SUBSET Handle, must : SUBSET Keys,
                      missed : SUBSET Keys, moved : BOOLEAN]
<1>0. /\ SSTInv /\ next_ver \in Nat \ {0} /\ crashes \in Nat
      /\ rd \in RdType /\ RdKey /\ sc \in ScType
  BY DEF Inv, TypeOK, SSTInv
<1>n. NoRead \in RdType /\ ~NoRead.on /\ NoScan \in ScType
  BY DEF NoRead, NoScan
<1>m. mixed' \in BOOLEAN
  BY DEF Inv, TypeOK, Next, vars, Flush, Compact, Crash, GetBegin, GetLevel, GetEnd,
         ScanBegin, ScanLevel, ScanEnd
<1> SUFFICES /\ SSTInv' /\ next_ver' \in Nat \ {0} /\ crashes' \in Nat
             /\ rd' \in RdType /\ RdKey' /\ sc' \in ScType
  BY <1>m DEF Inv, TypeOK, SSTInv
<1>s. UNCHANGED sstVars => SSTInv'
  BY <1>0
  DEF sstVars, SSTInv, SSTTypeOK, IndexInv, Numbered, JobStage, Filed, Known, Merging, Target
<1>l. \A l \in Nat : Level(l) \in SUBSET Handle /\ \A h \in Level(l) : h.pos < next_pos
  BY <1>0 DEF Level, SSTInv, SSTTypeOK, IndexInv, Numbered, Known
<1> HIDE DEF RdType, ScType
<1>1. CASE Flush
  <2>1. PICK ks \in SUBSET Keys, ds \in SUBSET Keys : create_new_sstable(FlushedTable(ks, ds))
    BY <1>1 DEF Flush, FlushedTable
  <2>2. FlushedTable(ks, ds) \in Table
    BY <1>0 DEF FlushedTable, Table, Entry, NoEntry
  <2>3. SSTInv'  BY <1>0, <2>1, <2>2, CreateSSTInv
  <2> QED  BY <1>0, <1>1, <2>3 DEF Flush
<1>2. CASE Compact
  <2>1. SSTInv'  BY <1>0, <1>2, CompactionSSTInv DEF Compact
  <2>2. sc' \in ScType
    <3>1. sc' = [sc EXCEPT !.moved =
                   @ \/ (sc.on /\ ~(level_sstables \subseteq level_sstables'))]
      BY <1>2 DEF Compact
    <3> QED  BY <1>0, <3>1 DEF ScType
  <2> QED  BY <1>0, <1>2, <2>1, <2>2 DEF Compact
<1>3. CASE Crash
  <2>1. PICK st \in Strategies : load_all(st)  BY <1>3 DEF Crash
  <2>2. SSTInv'  BY <1>0, <2>1, LoadSSTInv
  <2> QED  BY <1>0, <1>n, <1>3, <2>2 DEF Crash
<1>4. ASSUME NEW k \in Keys, GetBegin(k)
      PROVE  /\ SSTInv' /\ next_ver' \in Nat \ {0} /\ crashes' \in Nat
             /\ rd' \in RdType /\ RdKey' /\ sc' \in ScType
  <2>1. rd' \in RdType /\ rd'.key \in Keys
    BY <1>0, <1>4, SSTableAssumption
    DEF GetBegin, RdType, SSTInv, SSTTypeOK, Table, Entry
  <2> QED  BY <1>0, <1>s, <1>4, <2>1 DEF GetBegin
<1>5. CASE GetLevel
  <2>1. rd.lvl \in Nat /\ rd.max \in Nat /\ rd.key \in Keys
    BY <1>0, <1>5 DEF GetLevel, RdType
  <2>2. Search(Level(rd.lvl), rd.key) \in Entry
    BY <1>0, <1>l, <2>1, SearchResult DEF SSTInv, SSTTypeOK
  <2>3. rd' \in RdType /\ rd'.key = rd.key
    <3> DEFINE e == Search(Level(rd.lvl), rd.key)
    <3>1. \/ rd' = [rd EXCEPT !.res = e.ver, !.lvl = rd.max + 1]
          \/ rd' = [rd EXCEPT !.lvl = @ + 1]
      BY <1>5 DEF GetLevel
    <3>2. e.ver \in Nat /\ rd.max + 1 \in Nat /\ rd.lvl + 1 \in Nat
      BY <2>1, <2>2 DEF Entry
    <3> HIDE DEF e
    <3> QED  BY <1>0, <3>1, <3>2 DEF RdType
  <2> QED  BY <1>0, <1>s, <1>5, <2>1, <2>3 DEF GetLevel
<1>6. CASE GetEnd
  BY <1>0, <1>n, <1>s, <1>6 DEF GetEnd
<1>7. CASE ScanBegin
  <2>1. sc' \in ScType
    BY <1>0, <1>7 DEF ScanBegin, ScType, SSTInv, SSTTypeOK
  <2> QED  BY <1>0, <1>s, <1>7, <2>1 DEF ScanBegin
<1>8. CASE ScanLevel
  <2>1. sc.lvl - 1 \in Nat /\ Level(sc.lvl - 1) \in SUBSET Handle
    <3>1. sc.lvl \in Nat /\ sc.lvl > 0  BY <1>0, <1>8 DEF ScanLevel, ScType
    <3> QED  BY <3>1, <1>l
  <2>2. sc' \in ScType
    BY <1>0, <1>8, <2>1 DEF ScanLevel, ScType
  <2> QED  BY <1>0, <1>s, <1>8, <2>2 DEF ScanLevel
<1>9. CASE ScanEnd
  BY <1>0, <1>n, <1>s, <1>9 DEF ScanEnd
<1>10. CASE UNCHANGED vars
  BY <1>0, <1>s, <1>10 DEF vars
<1> QED
  BY <1>1, <1>2, <1>3, <1>4, <1>5, <1>6, <1>7, <1>8, <1>9, <1>10 DEF Next

(* Types: every variable keeps its type in every reachable state. *)
THEOREM TypeCorrect == Spec => []TypeOK
<1>1. Inv => TypeOK  BY DEF Inv
<1> QED  BY InvInit, InvNext, <1>1, PTL DEF Spec

(* create_from_entries and the merges, sstable.cpp:978-1193: a table a reader *)
(* can reach through the index has its file on disk, in every reachable state.*)
THEOREM IndexedOnDiskAlways == Spec => []IndexedOnDisk
<1>1. Inv => IndexedOnDisk  BY DEF Inv, IndexInv, Filed, IndexedOnDisk
<1> QED  BY InvInit, InvNext, <1>1, PTL DEF Spec

(* sort_sstables_by_sequence, sstable.cpp:1132-1142: insertion order and      *)
(* sequence order of a level agree in every reachable state, so that a        *)
(* restart never reorders it.                                                 *)
THEOREM VectorOrderAlways == Spec => []VectorOrderIsSequenceOrder
<1>1. Inv => VectorOrderIsSequenceOrder
  BY DEF Inv, IndexInv, Numbered, Known, VectorOrderIsSequenceOrder
<1> QED  BY InvInit, InvNext, <1>1, PTL DEF Spec

-----------------------------------------------------------------------------
(* Durability: no key that is never deleted is ever lost. *)

(* The data invariant holds in the empty manager. *)
LEMMA DataInvInit == Init => DataInv
<1> SUFFICES ASSUME Init PROVE DataInv  OBVIOUS
<1>1. disk = {} /\ Known = {} /\ Merging = {} /\ job.out = EmptyTable /\ job.pc = "idle"
      /\ truth = EmptyTable
  BY DEF Init, SSTInit, IdleJob, Known, Merging
<1>2. Live(EmptyTable) /\ \A k \in Kept : ~Has(EmptyTable, k)
  BY DEF Live, EmptyTable, NoEntry, Has, Kept
<1>3. KeyNeverLost  BY <1>1, <1>2 DEF KeyNeverLost, Has
<1> QED  BY <1>1, <1>2, <1>3 DEF DataInv

(* A merge started on live tables of the index hands over all their keys. *)
LEMMA StartMergeDataInv ==
    ASSUME SSTInv, DataInv, NEW j \in Job, NEW kind \in {"tier", "level"}, NEW l \in Nat,
           NEW src \in SUBSET level_sstables, NEW nxt \in SUBSET level_sstables,
           job' = StartMerge(j, kind, l, src, nxt),
           UNCHANGED <<indexVars, disk, truth>>
    PROVE  DataInv'
<1> DEFINE out == Merged(src \cup nxt)
<1>1. src \cup nxt \in SUBSET Handle /\ \A h \in src \cup nxt : h.pos < next_pos
  BY DEF SSTInv, SSTTypeOK, IndexInv, Numbered, Known
<1>2. \A h \in src \cup nxt : Live(h.tbl)  BY DEF DataInv, Known
<1>3. Live(out) /\ \A k \in Kept : Held(src \cup nxt, k) <=> Has(out, k)
  BY <1>1, <1>2, MergedResult DEF SSTInv, SSTTypeOK
<1>4. job' = [j EXCEPT !.kind = kind, !.lvl = l, !.src = src, !.nxt = nxt, !.out = out,
                !.pc = IF KeysOf(out) # {} THEN "write"
                       ELSE IF kind = "tier" THEN "drop" ELSE "drop_next"]
  BY DEF StartMerge
<1>5. /\ job'.out = out /\ Merging' = src \cup nxt /\ Known' \subseteq Known
      /\ job'.pc # "write" => job'.pc \in {"drop", "drop_next"} /\ KeysOf(out) = {}
  <2> HIDE DEF out
  <2> QED  BY <1>4 DEF Job, Merging, Known, indexVars
<1> HIDE DEF out
<1>6. \A k \in Kept : job'.pc # "write" => ~Held(Merging', k)
  BY <1>3, <1>5 DEF KeysOf, Kept
<1>7. KeyNeverLost'  BY DEF DataInv, KeyNeverLost
<1> QED  BY <1>3, <1>5, <1>6, <1>7 DEF DataInv, Held

(* Every step of the compaction thread keeps every key on disk. *)
LEMMA CompactionDataInv ==
    ASSUME SSTInv, DataInv, CompactionStep
    PROVE  DataInv'
<1>t. /\ job \in Job /\ next_seq \in Nat \ {0} /\ job.todo \in Seq(Nat)
      /\ Live(EmptyTable) /\ \A k \in Kept : ~Has(EmptyTable, k)
  BY DEF SSTInv, SSTTypeOK, Job, Live, EmptyTable, NoEntry, Has, Kept
<1>1. CASE create_from_entries_write
  <2>1. /\ disk' = disk \cup {[seq |-> next_seq, lvl |-> Target(job), tbl |-> job.out]}
        /\ truth' = truth /\ Known' = Known /\ Merging' = Merging
        /\ job'.pc = "install" /\ job'.out = job.out /\ job.pc = "write"
    BY <1>1, <1>t DEF create_from_entries_write, indexVars, Known, Merging, Job
  <2>2. KeyNeverLost'  BY <2>1 DEF DataInv, KeyNeverLost
  <2> QED  BY <2>1, <2>2 DEF DataInv, Held
<1>2. CASE create_from_entries_fail
  <2>1. /\ disk' = disk /\ truth' = truth /\ Known' \subseteq Known
        /\ job'.pc \in {"idle", "check"} /\ job'.out = EmptyTable
    BY <1>2, <1>t DEF create_from_entries_fail, indexVars, Known, Merging, Job, IdleJob
  <2>2. KeyNeverLost'  BY <2>1 DEF DataInv, KeyNeverLost
  <2> QED  BY <1>t, <2>1, <2>2 DEF DataInv
<1>9. CASE create_from_entries_truncated
  <2>1. /\ disk' = disk /\ truth' = truth /\ Known' = Known /\ Merging' = Merging
        /\ job.pc = "write" /\ job'.pc = "install" /\ job'.out = EmptyTable
        /\ KeysOf(job.out) \subseteq Frail
    BY <1>9, <1>t DEF create_from_entries_truncated, indexVars, Known, Merging, Job
  <2>2. \A k \in Kept : ~Has(job.out, k)  BY <2>1 DEF KeysOf, Kept
  <2>3. \A k \in Kept : ~Held(Merging', k)  BY <2>1, <2>2 DEF DataInv
  <2>4. KeyNeverLost'  BY <2>1 DEF DataInv, KeyNeverLost
  <2> QED  BY <1>t, <2>1, <2>3, <2>4 DEF DataInv
<1>3. CASE create_from_entries_install
  <2> DEFINE new == [seq |-> next_seq - 1, lvl |-> Target(job), tbl |-> job.out,
                     pos |-> next_pos]
  <2>1. /\ level_sstables' = level_sstables \cup {new} /\ disk' = disk
        /\ job.pc = "install" /\ Merging' \subseteq Merging
        /\ job'.pc \in {"check", "drop", "drop_next"}
        /\ job'.out \in {job.out, EmptyTable}
        /\ truth' = IF job.kind = "flush" THEN Overwrite(truth, job.out) ELSE truth
    BY <1>3, <1>t DEF create_from_entries_install, Merging, Job, IdleJob
  <2>2. /\ \A k \in Kept : Has(job.out, k) =>
               [seq |-> next_seq - 1, lvl |-> Target(job), tbl |-> job.out] \in disk
        /\ \A h \in Merging : h.seq # next_seq - 1
    BY <1>t, <2>1 DEF SSTInv, SSTTypeOK, IndexInv, JobStage, Known, Handle, KeysOf, Kept
  <2>3. \A h \in Known' : Live(h.tbl)
    BY <2>1 DEF DataInv, Known
  <2>4. \A k \in Kept : Held(Merging', k) =>
            \E f \in disk' : Has(f.tbl, k) /\ \A h \in Merging' : f.seq # h.seq
    BY <2>1, <2>2 DEF DataInv, Held
  <2>5. KeyNeverLost'
    <3> SUFFICES ASSUME NEW k \in Kept, truth'[k].ver > 0
                 PROVE  \E f \in disk : Has(f.tbl, k)
      BY <2>1 DEF KeyNeverLost
    <3>1. CASE truth'[k] = truth[k]  BY <3>1 DEF DataInv, KeyNeverLost
    <3>2. CASE Has(job.out, k)  BY <2>2, <3>2
    <3> QED  BY <2>1, <3>1, <3>2 DEF Overwrite, Kept
  <2> QED  BY <1>t, <2>1, <2>3, <2>4, <2>5 DEF DataInv
<1>4. CASE merge_sstables
  <2> DEFINE l == Head(job.todo)
             j == [job EXCEPT !.todo = Tail(@)]
  <2>1. l \in Nat /\ Tail(job.todo) \in Seq(Nat)
    BY <1>4, <1>t DEF merge_sstables
  <2>2. j \in Job /\ j.src = job.src /\ j.nxt = job.nxt /\ j.pc = "check" /\ j.out = job.out
    BY <1>4, <1>t, <2>1 DEF merge_sstables, Job
  <2>3. UNCHANGED <<indexVars, disk, truth>>
    BY <1>4 DEF merge_sstables
  <2>4. CASE job' = j
    <3>1. Known' = Known /\ KeyNeverLost'
      BY <2>2, <2>3, <2>4 DEF Known, Merging, indexVars, DataInv, KeyNeverLost
    <3> HIDE DEF j
    <3> QED  BY <2>2, <2>3, <2>4, <3>1 DEF DataInv
  <2>5. CASE job' = StartTier(j, l) /\ job' # j
    <3>1. job' = StartMerge(j, "tier", l, Level(l), {})
      BY <2>5 DEF StartTier
    <3>2. Level(l) \in SUBSET level_sstables /\ {} \in SUBSET level_sstables
      BY DEF Level
    <3> HIDE DEF l, j
    <3> QED  BY <2>1, <2>2, <2>3, <3>1, <3>2, StartMergeDataInv
  <2>6. CASE job' = StartLevel(j, l) /\ job' # j
    <3> DEFINE oldest == CHOOSE h \in Level(l) : \A g \in Level(l) : Before(g, h)
               nxt == {g \in Level(l + 1) : Overlaps(oldest, g)}
    <3>1. Level(l) # {} /\ job' = StartMerge(j, "level", l, {oldest}, nxt)
      BY <2>6 DEF StartLevel
    <3>2. oldest \in Level(l)  BY <2>1, <3>1, OldestIn
    <3>3. {oldest} \in SUBSET level_sstables /\ nxt \in SUBSET level_sstables
      BY <3>2 DEF Level
    <3> HIDE DEF l, j, oldest, nxt
    <3> QED  BY <2>1, <2>2, <2>3, <3>1, <3>3, StartMergeDataInv
  <2>7. job' \in {j, StartTier(j, l), StartLevel(j, l)}
    <3>1. PICK should_merge \in MayMerge(l) :
             job' = IF l > max_level \/ ~should_merge THEN j
                    ELSE IF strategy = "size_tiered" \/ l = max_level
                         THEN StartTier(j, l) ELSE StartLevel(j, l)
      BY <1>4 DEF merge_sstables
    <3> HIDE DEF l, j
    <3> QED  BY <3>1
  <2> HIDE DEF l, j
  <2> QED  BY <2>4, <2>5, <2>6, <2>7
<1>5. CASE drop_next_level \/ drop_level
  <2>1. /\ level_sstables' \subseteq level_sstables /\ disk' = disk /\ truth' = truth
        /\ Merging' = Merging /\ job'.out = job.out
        /\ job.pc \in {"drop_next", "drop"} /\ job'.pc \in {"drop", "unlink"}
    BY <1>5, <1>t DEF drop_next_level, drop_level, Merging, Job
  <2>2. Known' \subseteq Known  BY <2>1 DEF Known
  <2>3. KeyNeverLost'  BY <2>1 DEF DataInv, KeyNeverLost
  <2> QED  BY <2>1, <2>2, <2>3 DEF DataInv
<1>6. CASE unlink_file
  <2>1. /\ level_sstables' = level_sstables /\ job' = job /\ Merging' = Merging
        /\ Known' = Known /\ truth' = truth /\ job.pc = "unlink"
    BY <1>6 DEF unlink_file, indexVars, Merging, Known
  <2>2. PICK u \in Merging : disk' = disk \ {FileOf(u)}
    BY <1>6, UnlinkedIsMerged
  <2>3. \A f \in disk : (\A h \in Merging : f.seq # h.seq) => f \in disk'
    BY <2>2 DEF FileOf
  <2>4. \A k \in Kept : Held(Merging, k) =>
            \E f \in disk' : Has(f.tbl, k) /\ \A h \in Merging : f.seq # h.seq
    BY <2>1, <2>3 DEF DataInv
  <2>5. KeyNeverLost'
    <3> SUFFICES ASSUME NEW k \in Kept, truth[k].ver > 0
                 PROVE  \E f \in disk' : Has(f.tbl, k)
      BY <2>1 DEF KeyNeverLost
    <3>1. PICK f \in disk : Has(f.tbl, k)  BY DEF DataInv, KeyNeverLost
    <3>2. CASE f \in disk'  BY <3>1, <3>2
    <3>3. CASE f = FileOf(u)
      <4>1. Held(Merging, k)  BY <3>1, <3>3 DEF Held, FileOf
      <4> QED  BY <2>4, <4>1
    <3> QED  BY <2>2, <3>2, <3>3
  <2> QED  BY <2>1, <2>2, <2>4, <2>5 DEF DataInv
<1>7. CASE merge_done \/ merge_return
  <2>1. /\ disk' = disk /\ truth' = truth /\ Known' \subseteq Known
        /\ job'.pc \in {"check", "idle"} /\ job'.out = EmptyTable
    <3>1. CASE merge_done
      <4> DEFINE todo == (IF job.kind = "tier" THEN <<job.lvl + 1>>
                          ELSE <<job.lvl, job.lvl + 1>>) \o job.todo
      <4>1. job' = [job EXCEPT !.pc = "check", !.src = {}, !.nxt = {}, !.out = EmptyTable,
                               !.todo = todo]
        BY <1>t, <3>1 DEF merge_done, Job
      <4> HIDE DEF todo
      <4> QED  BY <1>t, <3>1, <4>1 DEF merge_done, indexVars, Known, Merging, Job
    <3>2. CASE merge_return
      BY <3>2 DEF merge_return, indexVars, Known, Merging, IdleJob
    <3> QED  BY <1>7, <3>1, <3>2
  <2>2. KeyNeverLost'  BY <2>1 DEF DataInv, KeyNeverLost
  <2> QED  BY <1>t, <2>1, <2>2 DEF DataInv
<1>8. CASE normalize_sstables
  <2> DEFINE j == [job EXCEPT !.next_norm = @ + 1]
             l == job.next_norm
  <2>1. j \in Job /\ j.src = job.src /\ j.nxt = job.nxt /\ j.pc = "check"
        /\ j.out = job.out /\ l \in Nat
    BY <1>8, <1>t DEF normalize_sstables, Job
  <2>2. UNCHANGED <<indexVars, disk, truth>>
    BY <1>8 DEF normalize_sstables
  <2>3. CASE job' \in {j, IdleJob}
    <3>1. Known' \subseteq Known /\ job'.pc \in {"check", "idle"}
          /\ job'.out \in {job.out, EmptyTable}
      <4>1. CASE job' = j
        BY <2>1, <2>2, <4>1 DEF Known, Merging, indexVars
      <4>2. CASE job' = IdleJob
        BY <2>2, <4>2 DEF Known, Merging, indexVars, IdleJob
      <4> QED  BY <2>3, <4>1, <4>2
    <3>2. KeyNeverLost'  BY <2>2 DEF DataInv, KeyNeverLost
    <3> QED  BY <1>t, <2>2, <3>1, <3>2 DEF DataInv
  <2>4. CASE job' = StartTier(j, l) /\ job' # j
    <3>1. job' = StartMerge(j, "tier", l, Level(l), {})
      BY <2>4 DEF StartTier
    <3>2. Level(l) \in SUBSET level_sstables /\ {} \in SUBSET level_sstables
      BY DEF Level
    <3> HIDE DEF l, j
    <3> QED  BY <2>1, <2>2, <3>1, <3>2, StartMergeDataInv
  <2> QED  BY <1>8, <2>3, <2>4 DEF normalize_sstables
<1> QED
  BY <1>1, <1>2, <1>3, <1>4, <1>5, <1>6, <1>7, <1>8, <1>9 DEF CompactionStep

(* Every step keeps the data invariant. *)
LEMMA DataInvNext ==
    Inv /\ DataInv /\ [Next]_vars => DataInv'
<1> SUFFICES ASSUME Inv, DataInv, [Next]_vars PROVE DataInv'  OBVIOUS
<1>0. SSTInv  BY DEF Inv, TypeOK, SSTInv
<1>1. CASE Flush
  <2>1. PICK ks \in SUBSET Keys, ds \in SUBSET Mortal :
            create_new_sstable(FlushedTable(ks, ds))
    BY <1>1 DEF Flush, FlushedTable
  <2>2. Live(FlushedTable(ks, ds))
    BY DEF Live, FlushedTable, NoEntry, Kept
  <2>3. /\ disk' = disk /\ truth' = truth /\ level_sstables' = level_sstables
        /\ Merging' = {} /\ job'.out = FlushedTable(ks, ds) /\ job'.pc = "write"
    BY <2>1 DEF create_new_sstable, indexVars, IdleJob, Merging
  <2>4. Known' \subseteq Known  BY <2>3 DEF Known
  <2>5. KeyNeverLost'  BY <2>3 DEF DataInv, KeyNeverLost
  <2> QED  BY <2>2, <2>3, <2>4, <2>5 DEF DataInv, Held
<1>2. CASE Compact
  BY <1>0, <1>2, CompactionDataInv DEF Compact
<1>3. CASE Crash
  <2>1. PICK st \in Strategies : load_all(st)  BY <1>3 DEF Crash
  <2>2. /\ disk' = disk /\ level_sstables' = Loaded /\ Merging' = {}
        /\ job'.out = EmptyTable /\ job'.pc \in {"idle", "check"}
        /\ truth' = IF job.pc = "install" /\ job.kind = "flush"
                    THEN Overwrite(truth, job.out) ELSE truth
    BY <2>1 DEF load_all, IdleJob, Merging
  <2>3. \A h \in Known' : Live(h.tbl)
    BY <2>2 DEF Known, Loaded, DataInv
  <2>4. Live(EmptyTable)  BY DEF Live, EmptyTable, NoEntry, Kept
  <2>5. KeyNeverLost'
    <3> SUFFICES ASSUME NEW k \in Kept, truth'[k].ver > 0
                 PROVE  \E f \in disk : Has(f.tbl, k)
      BY <2>2 DEF KeyNeverLost
    <3>1. CASE truth'[k] = truth[k]  BY <3>1 DEF DataInv, KeyNeverLost
    <3>2. CASE job.pc = "install" /\ Has(job.out, k)
      BY <1>0, <3>2 DEF SSTInv, IndexInv, JobStage, KeysOf, Kept
    <3> QED  BY <2>2, <3>1, <3>2 DEF Overwrite, Kept
  <2> QED  BY <2>2, <2>3, <2>4, <2>5 DEF DataInv
<1>4. CASE UNCHANGED sstVars
  BY <1>4 DEF sstVars, DataInv, KeyNeverLost, Known, Merging, Held
<1> QED
  BY <1>1, <1>2, <1>3, <1>4
  DEF Next, vars, GetBegin, GetLevel, GetEnd, ScanBegin, ScanLevel, ScanEnd

(* merge_sstables_by_strategy_0/1, sstable.cpp:978-1130: no crash at any step  *)
(* of any flush, merge or normalisation, no builder that fails and no table    *)
(* that is cut short unnoticed loses the last copy of a key, unless the key is *)
(* deleted at times or was in the table that was cut short.                    *)
THEOREM NoKeyIsLost == Spec => []KeyNeverLost
<1>1. DataInv => KeyNeverLost  BY DEF DataInv
<1>2. Inv /\ DataInv /\ [Next]_vars => DataInv'  BY DataInvNext
<1> QED  BY InvInit, InvNext, DataInvInit, <1>1, <1>2, PTL DEF Spec

-----------------------------------------------------------------------------
(***************************************************************************)
(* What a lookup finds while the compaction thread works: GetFindsNewest,  *)
(* LevelTablesAgree, ReaderNeverStale and ScanMissesOnlyUnderMerge for     *)
(* every set of keys, every threshold, any number of flushes, merges and   *)
(* crashes.                                                                *)
(*                                                                         *)
(* The argument: a merge changes the index in three steps (its output is   *)
(* added, the tables of the next level go, the tables of the level go).    *)
(* When the merge starts, all the sets of tables the index and the disk    *)
(* will go through are already determined, and a lookup finds the same in  *)
(* each of them as it does before.                                         *)
(***************************************************************************)

-----------------------------------------------------------------------------
(* Lookups in a set of tables. *)

(* Tables with bounded positions, no two at the same place. *)
Ordered(S) ==
    /\ S \subseteq Handle
    /\ \E b \in Nat : \A h \in S : h.pos < b
    /\ \A g, h \in S : g.lvl = h.lvl /\ g.pos = h.pos => g = h

(* f is the table in which a lookup of k ends. *)
Hit(S, k, f) ==
    f \in S /\ Has(f.tbl, k) /\ \A g \in S : Has(g.tbl, k) => Before(f, g)

(* The tables a reader that has come to level r has still to search. *)
Below(S, r) == {h \in S : h.lvl >= r}

(* A part of an ordered set is ordered. *)
LEMMA OrderedPart ==
    ASSUME NEW S, Ordered(S), NEW T \in SUBSET S
    PROVE  Ordered(T)
BY DEF Ordered

(* A lookup finds the entry of the hit, and there is one if the key is held.  *)
LEMMA SearchHit ==
    ASSUME NEW S, Ordered(S), NEW k \in Keys
    PROVE  /\ \A f : Hit(S, k, f) => Search(S, k) = f.tbl[k]
           /\ Held(S, k) => \E f \in S : Hit(S, k, f)
           /\ ~Held(S, k) => Search(S, k) = NoEntry
<1> DEFINE hits == {h \in S : Has(h.tbl, k)}
<1>1. ASSUME Held(S, k)
      PROVE  Hit(S, k, First(hits)) /\ Search(S, k) = First(hits).tbl[k]
  <2>1. hits \in SUBSET Handle /\ hits # {}  BY <1>1 DEF Held, Ordered
  <2>2. PICK b \in Nat : \A h \in hits : h.pos < b  BY DEF Ordered
  <2>3. First(hits) \in hits /\ \A g \in hits : Before(First(hits), g)
    <3> HIDE DEF hits
    <3> QED  BY <2>1, <2>2, FirstIn
  <2>4. Search(S, k) = First(hits).tbl[k]  BY <2>1 DEF Search
  <2> QED  BY <2>3, <2>4 DEF Hit
<1>2. ASSUME NEW f, Hit(S, k, f) PROVE Search(S, k) = f.tbl[k]
  <2>1. Held(S, k) /\ f \in S  BY <1>2 DEF Hit, Held
  <2> DEFINE h == First(hits)
  <2>2. Hit(S, k, h) /\ Search(S, k) = h.tbl[k]  BY <1>1, <2>1
  <2> HIDE DEF h
  <2>3. Before(f, h) /\ Before(h, f) /\ h \in S  BY <1>2, <2>2 DEF Hit
  <2>4. f.lvl \in Nat /\ h.lvl \in Nat /\ f.pos \in Nat /\ h.pos \in Nat
    BY <2>1, <2>3 DEF Ordered, Handle
  <2>5. f.lvl = h.lvl /\ f.pos = h.pos  BY <2>3, <2>4 DEF Before
  <2>6. f = h  BY <2>1, <2>3, <2>5 DEF Ordered
  <2> QED  BY <2>2, <2>6
<1>3. ~Held(S, k) => Search(S, k) = NoEntry  BY DEF Held, Search
<1>4. Held(S, k) => \E f \in S : Hit(S, k, f)  BY <1>1 DEF Hit
<1> QED  BY <1>2, <1>3, <1>4

-----------------------------------------------------------------------------
(* What a merge does to lookups. *)

(* x stands for the tables M as far as the key k goes: it holds the version a *)
(* lookup in M finds, or does not hold the key and is not there (X = {}) or   *)
(* holds other keys.                                                          *)
Stands(X, M, k) ==
    \/ \E m \in M : /\ Hit(M, k, m) /\ X # {}
                   /\ \A x \in X : Has(x.tbl, k) /\ x.tbl[k].ver = m.tbl[k].ver
    \/ ~Held(M, k) /\ \A x \in X : ~Has(x.tbl, k)

(* A merge of tables src of level l and nxt of level l + 1 into X: src goes   *)
(* down oldest first, and a table of level l + 1 that stays in front of one   *)
(* that is merged agrees with it.                                             *)
MergeOf(S, l, src, nxt, X, k) ==
    /\ l \in Nat
    /\ src \subseteq S /\ nxt \subseteq S
    /\ \A o \in src : o.lvl = l
    /\ \A n \in nxt : n.lvl = l + 1
    /\ \A o \in src, g \in S : g.lvl = l /\ g \notin src => o.pos < g.pos
    /\ \A f \in S, n \in nxt :
          /\ f \notin nxt /\ f.lvl = l + 1 /\ f.pos > n.pos
          /\ Has(f.tbl, k) /\ Has(n.tbl, k) /\ \A o \in src : ~Has(o.tbl, k)
          => f.tbl[k].ver = n.tbl[k].ver
    /\ \A x \in X, y \in X : x = y
    /\ \A x \in X : x \in Handle /\ x.lvl = l + 1 /\ \A h \in S : h.pos < x.pos
    /\ Stands(X, src \cup nxt, k)

(* A set of tables on the way of that merge: the output is there, and the     *)
(* merged tables are gone or src is still there.                              *)
OnTheWay(T, S, src, nxt, X) ==
    \E D \in SUBSET (src \cup nxt) :
        (D = src \cup nxt \/ src \cap D = {}) /\ T = (S \cup X) \ D

(* With the output added, and the merged tables still there, partly gone or   *)
(* gone, a lookup finds the same version.                                     *)
LEMMA MergeFinds ==
    ASSUME NEW S, Ordered(S), NEW k \in Keys, NEW l, NEW src, NEW nxt, NEW X,
           MergeOf(S, l, src, nxt, X, k),
           NEW T, OnTheWay(T, S, src, nxt, X)
    PROVE  Ordered(T) /\ Search(T, k).ver = Search(S, k).ver
<1> DEFINE M == src \cup nxt
<1>d. PICK D \in SUBSET M : (D = src \cup nxt \/ src \cap D = {}) /\ T = (S \cup X) \ D
  BY DEF OnTheWay
<1> USE <1>d
<1>t. \A h \in S \cup X : h \in Handle /\ h.lvl \in Nat /\ h.pos \in Nat
  BY DEF Ordered, MergeOf, Handle
<1>l. l \in Nat  BY DEF MergeOf
<1>x. \A x \in X : x.lvl = l + 1 /\ x \notin S /\ x \in T /\ \A h \in S : h.pos < x.pos
  <2>1. \A x \in X, h \in S : h.pos < x.pos  BY DEF MergeOf
  <2>2. \A x \in X : x \notin S  BY <1>t, <2>1
  <2> QED  BY <2>1, <2>2 DEF MergeOf
<1>1. Ordered(T)
  <2>1. T \subseteq Handle  BY <1>t
  <2>2. \E b \in Nat : \A h \in T : h.pos < b
    <3>1. PICK b \in Nat : \A h \in S : h.pos < b  BY DEF Ordered
    <3>2. CASE X = {}  BY <3>1, <3>2
    <3>3. CASE X # {}
      <4>1. PICK x \in X : X = {x}  BY <3>3 DEF MergeOf
      <4>2. x.pos + 1 \in Nat /\ \A h \in T : h.pos < x.pos + 1  BY <1>t, <1>x, <4>1
      <4> QED  BY <4>2
    <3> QED  BY <3>2, <3>3
  <2>3. ASSUME NEW g \in T, NEW h \in T, g.lvl = h.lvl, g.pos = h.pos PROVE g = h
    <3>1. CASE g \in S /\ h \in S  BY <2>3, <3>1 DEF Ordered
    <3>2. CASE g \in X /\ h \in X  BY <3>2 DEF MergeOf
    <3>3. CASE g \in X /\ h \in S  BY <1>t, <1>x, <2>3, <3>3
    <3>4. CASE g \in S /\ h \in X  BY <1>t, <1>x, <2>3, <3>4
    <3> QED  BY <3>1, <3>2, <3>3, <3>4
  <2> QED  BY <2>1, <2>2, <2>3 DEF Ordered
<1>m. Ordered(M) /\ M \subseteq S
  <2>1. M \subseteq S  BY DEF MergeOf
  <2> QED  BY <2>1, OrderedPart
<1>2. CASE ~Held(S, k)
  <2>1. ~Held(M, k)  BY <1>m, <1>2 DEF Held
  <2>2. \A x \in X : ~Has(x.tbl, k)  BY <2>1 DEF MergeOf, Stands, Hit, Held
  <2>3. ~Held(T, k)  BY <1>2, <2>2 DEF Held
  <2> QED  BY <1>1, <1>2, <2>3, SearchHit
<1>3. CASE Held(S, k)
  <2>1. PICK f \in S : Hit(S, k, f)  BY <1>3, SearchHit
  <2>2. Search(S, k) = f.tbl[k]  BY <2>1, SearchHit
  <2>3. SUFFICES \E h : Hit(T, k, h) /\ h.tbl[k].ver = f.tbl[k].ver
    BY <1>1, <2>2, SearchHit
  <2>4. \A g \in S : Has(g.tbl, k) => Before(f, g)  BY <2>1 DEF Hit
  <2>5. Has(f.tbl, k)  BY <2>1 DEF Hit
  <2>6. \A o \in src : o.lvl = l  BY DEF MergeOf
  <2>7. \A n \in nxt : n.lvl = l + 1  BY DEF MergeOf
  \* What the output holds, once the table in which M's lookup ends is known.
  <2>8. ASSUME NEW n \in M, Hit(M, k, n)
        PROVE  \E x \in X : Has(x.tbl, k) /\ x.tbl[k].ver = n.tbl[k].ver
    <3>1. Held(M, k)  BY <2>8 DEF Held, Hit
    <3>2. PICK m \in M : /\ Hit(M, k, m) /\ X # {}
                         /\ \A x \in X : Has(x.tbl, k) /\ x.tbl[k].ver = m.tbl[k].ver
      <4> HIDE DEF M
      <4>1. Stands(X, M, k)  BY DEF MergeOf, M
      <4> QED  BY <3>1, <4>1 DEF Stands
    <3>3. Search(M, k) = m.tbl[k] /\ Search(M, k) = n.tbl[k]
      <4> HIDE DEF M
      <4> QED  BY <1>m, <2>8, <3>2, SearchHit
    <3> QED  BY <3>2, <3>3
  <2>9. CASE f \in src
    <3>1. Hit(M, k, f)  BY <1>m, <2>1, <2>9 DEF Hit
    <3>2. PICK x \in X : Has(x.tbl, k) /\ x.tbl[k].ver = f.tbl[k].ver
      BY <2>8, <2>9, <3>1
    <3>3. CASE f \in T
      <4>1. \A g \in T : Has(g.tbl, k) => Before(f, g)
        <5>1. \A g \in X : Before(f, g)
          BY <1>t, <1>x, <1>l, <2>6, <2>9 DEF Before
        <5> QED  BY <2>4, <5>1
      <4> QED  BY <2>5, <3>3, <4>1 DEF Hit
    <3>4. CASE f \notin T
      <4>1. src \subseteq D  BY <2>9, <3>4
      <4>2. ASSUME NEW g \in T, Has(g.tbl, k) PROVE Before(x, g)
        <5>1. CASE g \in X
          <6>1. g = x  BY <5>1 DEF MergeOf
          <6> QED  BY <1>t, <6>1 DEF Before
        <5>2. CASE g \in S
          <6>1. Before(f, g) /\ f.lvl = l /\ g \notin src
            BY <2>4, <2>6, <2>9, <4>1, <4>2, <5>2
          <6>2. g.lvl # l
            <7>1. ASSUME g.lvl = l PROVE FALSE
              <8>1. f.pos < g.pos  BY <2>9, <5>2, <6>1, <7>1 DEF MergeOf
              <8> QED  BY <1>t, <5>2, <6>1, <7>1, <8>1 DEF Before
            <7> QED  BY <7>1
          <6>3. g.lvl >= l + 1  BY <1>t, <1>l, <5>2, <6>1, <6>2 DEF Before
          <6> QED  BY <1>t, <1>l, <1>x, <5>2, <6>3 DEF Before
        <5> QED  BY <5>1, <5>2
      <4>3. Hit(T, k, x)  BY <1>x, <3>2, <4>2 DEF Hit
      <4> QED  BY <3>2, <4>3
    <3> QED  BY <3>3, <3>4
  <2>10. CASE f \notin src /\ f.lvl <= l
    <3>1. f \in T  BY <1>t, <1>l, <2>7, <2>10
    <3>2. \A g \in T : Has(g.tbl, k) => Before(f, g)
      <4>1. \A g \in X : Before(f, g)
        BY <1>t, <1>x, <1>l, <2>10 DEF Before
      <4> QED  BY <2>4, <4>1
    <3> QED  BY <2>5, <3>1, <3>2 DEF Hit
  <2>11. CASE f.lvl > l
    <3>1. \A o \in src : ~Has(o.tbl, k)
      <4>1. ASSUME NEW o \in src, Has(o.tbl, k) PROVE FALSE
        <5>1. Before(f, o) /\ o.lvl = l /\ o \in S  BY <1>m, <2>4, <2>6, <4>1
        <5> QED  BY <1>t, <1>l, <2>11, <5>1 DEF Before
      <4> QED  BY <4>1
    <3>2. \A g \in S : Has(g.tbl, k) => g.lvl >= f.lvl
      BY <1>t, <2>4 DEF Before
    <3>3. ASSUME NEW n \in nxt, Has(n.tbl, k)
          PROVE  \E h : Hit(T, k, h) /\ h.tbl[k].ver = f.tbl[k].ver
      <4>1. Held(M, k)  BY <3>3 DEF Held
      <4>2. PICK m \in M : Hit(M, k, m)
        <5> HIDE DEF M
        <5> QED  BY <1>m, <4>1, SearchHit
      <4>3. m \in nxt /\ Has(m.tbl, k) /\ m.lvl = l + 1 /\ m \in S
        BY <1>m, <2>7, <3>1, <4>2 DEF Hit
      <4>4. f.lvl = l + 1 /\ f.pos >= m.pos
        <5>1. Before(f, m)  BY <2>4, <4>3
        <5> QED  BY <1>t, <1>l, <2>11, <4>3, <5>1 DEF Before
      <4>5. m.tbl[k].ver = f.tbl[k].ver
        <5>1. CASE f \in nxt
          <6>1. Before(m, f)  BY <2>5, <4>2, <5>1 DEF Hit
          <6>2. m.pos = f.pos  BY <1>t, <4>3, <4>4, <6>1 DEF Before
          <6>3. m = f  BY <4>3, <4>4, <6>2 DEF Ordered
          <6> QED  BY <6>3
        <5>2. CASE f \notin nxt /\ f.pos = m.pos
          <6>1. m = f  BY <4>3, <4>4, <5>2 DEF Ordered
          <6> QED  BY <6>1
        <5>3. CASE f \notin nxt /\ f.pos > m.pos
          BY <2>5, <3>1, <4>3, <4>4, <5>3 DEF MergeOf
        <5> QED  BY <1>t, <4>3, <4>4, <5>1, <5>2, <5>3
      <4>6. PICK x \in X : Has(x.tbl, k) /\ x.tbl[k].ver = m.tbl[k].ver
        BY <2>8, <4>2
      <4>7. ASSUME NEW g \in T, Has(g.tbl, k) PROVE Before(x, g)
        <5>1. CASE g \in X
          <6>1. g = x  BY <5>1 DEF MergeOf
          <6> QED  BY <1>t, <6>1 DEF Before
        <5>2. CASE g \in S
          <6>1. g.lvl >= l + 1 /\ g.pos < x.pos  BY <1>x, <3>2, <4>4, <4>7, <5>2
          <6> QED  BY <1>t, <1>l, <1>x, <5>2, <6>1 DEF Before
        <5> QED  BY <5>1, <5>2
      <4>8. Hit(T, k, x)  BY <1>x, <4>6, <4>7 DEF Hit
      <4> QED  BY <4>5, <4>6, <4>8
    <3>4. ASSUME \A n \in nxt : ~Has(n.tbl, k)
          PROVE  Hit(T, k, f)
      <4>1. ~Held(M, k)  BY <3>1, <3>4 DEF Held
      <4>2. \A x \in X : ~Has(x.tbl, k)  BY <4>1 DEF MergeOf, Stands, Hit, Held
      <4>3. f \in T  BY <2>5, <3>1, <3>4
      <4> QED  BY <2>4, <2>5, <4>2, <4>3 DEF Hit
    <3> QED  BY <3>3, <3>4
  <2>12. f.lvl <= l \/ f.lvl > l  BY <1>t, <1>l
  <2> QED  BY <2>9, <2>10, <2>11, <2>12
<1> QED  BY <1>1, <1>2, <1>3

(* What a reader that has come to level r finds in T, compared with S. *)
ReadsAs(T, S, l, src, M, k, r) ==
    /\ r # l + 1 \/ ~Held(src, k) =>
          Search(Below(T, r), k).ver = Search(Below(S, r), k).ver
    /\ r = l + 1 /\ Held(src, k) =>
          /\ Search(Below(T, r), k).ver = Search(M, k).ver
          /\ \E o \in src : Has(o.tbl, k) /\ Search(M, k) = o.tbl[k]

(* The same for a reader that has come to level r.  Only a reader about to    *)
(* search level l + 1 may find something else than before: an entry of src,   *)
(* which it has passed by.                                                    *)
LEMMA MergeBelow ==
    ASSUME NEW S, Ordered(S), NEW k \in Keys, NEW l, NEW src, NEW nxt, NEW X,
           MergeOf(S, l, src, nxt, X, k), NEW r \in Nat,
           NEW T, OnTheWay(T, S, src, nxt, X), NEW M, M = src \cup nxt
    PROVE  ReadsAs(T, S, l, src, M, k, r)
<1>d. PICK D \in SUBSET M : (D = src \cup nxt \/ src \cap D = {}) /\ T = (S \cup X) \ D
  BY DEF OnTheWay
<1>t. \A h \in S \cup X : h \in Handle /\ h.lvl \in Nat /\ h.pos \in Nat
  BY DEF Ordered, MergeOf, Handle
<1>l. l \in Nat /\ src \subseteq S /\ nxt \subseteq S
  BY DEF MergeOf
<1>v. /\ \A o \in src : o.lvl = l
      /\ \A n \in nxt : n.lvl = l + 1
      /\ \A x \in X : x.lvl = l + 1
  BY DEF MergeOf
<1>o. Ordered(Below(S, r)) /\ Ordered(M) /\ Ordered(T)
  <2>1. Below(S, r) \in SUBSET S  BY DEF Below
  <2>2. M \in SUBSET S  BY <1>l
  <2>3. Ordered(T)  BY MergeFinds
  <2> QED  BY <2>1, <2>2, <2>3, OrderedPart
<1>1. CASE r <= l
  <2>1. Below(T, r) = (Below(S, r) \cup X) \ D
    <3>1. \A x \in X : x.lvl >= r  BY <1>v, <1>l, <1>1
    <3> QED  BY <1>d, <3>1 DEF Below
  <2>2. src \subseteq Below(S, r) /\ nxt \subseteq Below(S, r)
    BY <1>v, <1>l, <1>1 DEF Below
  <2>3. MergeOf(Below(S, r), l, src, nxt, X, k)
    <3>1. Below(S, r) \subseteq S  BY DEF Below
    <3> QED  BY <2>2, <3>1 DEF MergeOf
  <2>4. Search(Below(T, r), k).ver = Search(Below(S, r), k).ver
    <3>1. OnTheWay(Below(T, r), Below(S, r), src, nxt, X)  BY <1>d, <2>1 DEF OnTheWay
    <3> QED  BY <1>o, <2>3, <3>1, MergeFinds
  <2>5. r # l + 1  BY <1>1, <1>l
  <2> QED  BY <2>4, <2>5 DEF ReadsAs
<1>2. CASE r > l + 1
  <2>1. Below(T, r) = Below(S, r)
    <3>1. \A h \in X \cup D : ~(h.lvl >= r)  BY <1>d, <1>v, <1>l, <1>2
    <3> QED  BY <1>d, <3>1 DEF Below
  <2>2. r # l + 1  BY <1>2, <1>l
  <2> QED  BY <2>1, <2>2 DEF ReadsAs
<1>3. CASE r = l + 1 /\ ~Held(src, k)
  <2> DEFINE E == D \cap nxt
  <2>1. Below(T, r) = (Below(S, r) \cup X) \ E
    <3>1. \A x \in X : x.lvl >= r /\ x \notin D
      <4>1. \A x \in X : x \notin S  BY <1>t DEF MergeOf
      <4> QED  BY <1>d, <1>v, <1>l, <1>3, <4>1
    <3>2. \A o \in src : ~(o.lvl >= r)  BY <1>v, <1>l, <1>3
    <3> QED  BY <1>d, <3>1, <3>2 DEF Below
  <2>2. nxt \subseteq Below(S, r)  BY <1>v, <1>l, <1>3 DEF Below
  <2>3. Stands(X, {} \cup nxt, k)
    <3>1. Stands(X, M, k)  BY DEF MergeOf
    <3>2. ~Held(M, k) => ~Held(nxt, k)  BY DEF Held
    <3>3. \A m \in M : Hit(M, k, m) => m \in nxt /\ Hit(nxt, k, m)
      BY <1>3 DEF Hit, Held
    <3>4. Stands(X, nxt, k)
      <4>1. CASE Held(M, k)
        <5>1. PICK m \in M : /\ Hit(M, k, m) /\ X # {}
                             /\ \A x \in X : Has(x.tbl, k) /\ x.tbl[k].ver = m.tbl[k].ver
          BY <3>1, <4>1 DEF Stands
        <5> QED  BY <3>3, <5>1 DEF Stands
      <4>2. CASE ~Held(M, k)
        <5>1. \A x \in X : ~Has(x.tbl, k)  BY <3>1, <4>2 DEF Stands, Hit, Held
        <5> QED  BY <3>2, <4>2, <5>1 DEF Stands
      <4> QED  BY <4>1, <4>2
    <3>5. {} \cup nxt = nxt  OBVIOUS
    <3> QED  BY <3>4, <3>5
  <2>4. MergeOf(Below(S, r), l, {}, nxt, X, k)
    <3>1. Below(S, r) \subseteq S  BY DEF Below
    <3>2. \A o \in src : ~Has(o.tbl, k)  BY <1>3 DEF Held
    <3>3. \A f \in Below(S, r), n \in nxt :
            /\ f \notin nxt /\ f.lvl = l + 1 /\ f.pos > n.pos
            /\ Has(f.tbl, k) /\ Has(n.tbl, k)
            => f.tbl[k].ver = n.tbl[k].ver
      BY <3>1, <3>2 DEF MergeOf
    <3> QED  BY <2>2, <2>3, <3>1, <3>3 DEF MergeOf
  <2>5. Search(Below(T, r), k).ver = Search(Below(S, r), k).ver
    <3>1. E \in SUBSET ({} \cup nxt) /\ {} \cap E = {}  OBVIOUS
    <3>2. OnTheWay(Below(T, r), Below(S, r), {}, nxt, X)
      <4> HIDE DEF E
      <4> QED  BY <2>1, <3>1 DEF OnTheWay
    <3> QED  BY <1>o, <2>4, <3>2, MergeFinds
  <2> QED  BY <1>3, <2>5 DEF ReadsAs
<1>4. CASE r = l + 1 /\ Held(src, k)
  <2>1. PICK m \in M : /\ Hit(M, k, m) /\ X # {}
                       /\ \A x \in X : Has(x.tbl, k) /\ x.tbl[k].ver = m.tbl[k].ver
    <3>1. Held(M, k) /\ Stands(X, M, k)  BY <1>4 DEF Held, MergeOf
    <3> QED  BY <3>1 DEF Stands
  <2>2. m \in src
    <3>1. PICK o \in src : Has(o.tbl, k)  BY <1>4 DEF Held
    <3>2. Before(m, o)  BY <2>1, <3>1 DEF Hit
    <3> QED  BY <1>l, <1>v, <3>1, <3>2 DEF Before
  <2>3. Search(M, k) = m.tbl[k]
    <3> QED  BY <1>o, <2>1, SearchHit
  <2>4. PICK x \in X : Has(x.tbl, k) /\ x.tbl[k].ver = m.tbl[k].ver  BY <2>1
  <2>5. Hit(Below(T, r), k, x)
    <3>1. x \in T /\ x.lvl >= r
      <4>1. x \notin S  BY <1>t DEF MergeOf
      <4> QED  BY <1>d, <1>l, <1>v, <1>4, <4>1
    <3>2. ASSUME NEW g \in Below(T, r) PROVE Before(x, g)
      <4>1. CASE g \in X
        <5>1. g = x  BY <4>1 DEF MergeOf
        <5> QED  BY <1>t, <5>1 DEF Before
      <4>2. CASE g \in S
        <5>1. g.pos < x.pos /\ x.lvl = l + 1 /\ g.lvl >= l + 1
          BY <1>4, <3>2, <4>2 DEF MergeOf, Below
        <5> QED  BY <1>t, <1>l, <4>2, <5>1 DEF Before
      <4> QED  BY <1>d, <3>2, <4>1, <4>2 DEF Below
    <3> QED  BY <2>4, <3>1, <3>2 DEF Hit, Below
  <2>6. Search(Below(T, r), k) = x.tbl[k]
    <3>1. Below(T, r) \in SUBSET T  BY DEF Below
    <3>2. Ordered(Below(T, r))
      <4> QED  BY <1>o, <3>1, OrderedPart
    <3> QED  BY <2>5, <3>2, SearchHit
  <2>7. Has(m.tbl, k)  BY <2>1 DEF Hit
  <2> QED  BY <1>4, <2>2, <2>3, <2>4, <2>6, <2>7 DEF ReadsAs
<1>5. r <= l \/ r > l + 1 \/ r = l + 1  BY <1>l
<1> QED  BY <1>1, <1>2, <1>3, <1>4, <1>5

(* X holds the output of a merge of the tables M of S, if it has any entry. *)
Output(S, l, M, X) ==
    /\ \A x \in X, y \in X : x = y
    /\ \A x \in X : /\ x \in Handle /\ x.lvl = l + 1 /\ x.tbl = Merged(M)
                    /\ \A h \in S : h.pos < x.pos
    /\ X = {} => KeysOf(Merged(M)) = {}

(* Merged: the output stands for the tables it was made from. *)
LEMMA StandsMerged ==
    ASSUME NEW M, Ordered(M), \A h \in M : Live(h.tbl), NEW S, NEW l, NEW X,
           Output(S, l, M, X), NEW k \in Kept
    PROVE  Stands(X, M, k)
<1>0. k \in Keys  BY DEF Kept
<1>1. CASE Held(M, k)
  <2>1. PICK m \in M : Hit(M, k, m)  BY <1>0, <1>1, SearchHit
  <2>2. Search(M, k) = m.tbl[k] /\ ~m.tbl[k].dead
    BY <1>0, <2>1, SearchHit DEF Live
  <2>3. Merged(M)[k] = m.tbl[k]  BY <1>0, <2>2 DEF Merged
  <2>4. Has(Merged(M), k)  BY <2>1, <2>3 DEF Has, Hit
  <2>5. X # {}  BY <1>0, <2>4 DEF Output, KeysOf
  <2> QED  BY <2>1, <2>3, <2>4, <2>5 DEF Stands, Output
<1>2. CASE ~Held(M, k)
  <2>1. Search(M, k) = NoEntry  BY <1>0, <1>2, SearchHit
  <2>2. ~Has(Merged(M), k)  BY <1>0, <2>1 DEF Merged, Has, NoEntry
  <2> QED  BY <1>2, <2>2 DEF Stands, Output
<1> QED  BY <1>1, <1>2

(* merge_sstables_by_strategy_0: all tables of the level are merged. *)
LEMMA TierMergeOf ==
    ASSUME NEW S, Ordered(S), \A h \in S : Live(h.tbl), NEW l \in Nat,
           NEW src, src = {h \in S : h.lvl = l}, NEW X, Output(S, l, src \cup {}, X),
           NEW k \in Kept
    PROVE  MergeOf(S, l, src, {}, X, k)
<1>1. src \cup {} \subseteq S  OBVIOUS
<1>2. Stands(X, src \cup {}, k)
  <2> DEFINE M == src \cup {}
  <2>1. Ordered(M) /\ \A h \in M : Live(h.tbl)  BY <1>1, OrderedPart
  <2> HIDE DEF M
  <2>2. Stands(X, M, k)  BY <2>1, StandsMerged DEF M
  <2> QED  BY <2>2 DEF M
<1> QED  BY <1>1, <1>2 DEF MergeOf, Output

(* merge_sstables_by_strategy_1: the oldest table of the level is merged with *)
(* the tables of the next one whose key range overlaps its own.               *)
OldestDown(S, l, o, nxt) ==
    /\ l \in Nat /\ o \in S /\ o.lvl = l /\ \A g \in S : g.lvl = l => o.pos <= g.pos
    /\ nxt = {g \in S : g.lvl = l + 1 /\ Overlaps(o, g)}

(* Tables with a common key overlap, and so does a table covering one that    *)
(* overlaps.                                                                  *)
LEMMA OverlapFacts ==
    ASSUME NEW o, NEW g
    PROVE  /\ \A k \in Keys : Has(o.tbl, k) /\ Has(g.tbl, k) => Overlaps(o, g)
           /\ \A n : Overlaps(o, n) /\ Covers(g, n) => Overlaps(o, g)
<1>1. ASSUME NEW k \in Keys, Has(o.tbl, k), Has(g.tbl, k) PROVE Overlaps(o, g)
  <2>1. k \in KeysOf(o.tbl) /\ k \in KeysOf(g.tbl) /\ k <= k
    BY <1>1, SSTableAssumption DEF KeysOf
  <2> QED  BY <2>1 DEF Overlaps
<1>2. ASSUME NEW n, Overlaps(o, n), Covers(g, n) PROVE Overlaps(o, g)
  <2>1. PICK a \in KeysOf(o.tbl), b \in KeysOf(o.tbl), c \in KeysOf(n.tbl), d \in KeysOf(n.tbl) :
             a <= d /\ c <= b
    BY <1>2 DEF Overlaps
  <2>2. PICK d2 \in KeysOf(g.tbl) : d <= d2  BY <1>2, <2>1 DEF Covers
  <2>3. PICK c2 \in KeysOf(g.tbl) : c2 <= c  BY <1>2, <2>1 DEF Covers
  <2>4. {a, b, c, d, c2, d2} \subseteq Nat
    BY <2>1, <2>2, <2>3, SSTableAssumption DEF KeysOf
  <2>5. a <= d2 /\ c2 <= b  BY <2>1, <2>2, <2>3, <2>4
  <2> QED  BY <2>1, <2>2, <2>3, <2>5 DEF Overlaps
<1> QED  BY <1>1, <1>2

(* Where two tables of level l + 1 disagree on a key that the oldest table of *)
(* level l does not hold, the newer of them covers the older.                 *)
LEMMA DisagreeingCovers ==
    ASSUME NEW S, Ordered(S), Consistent(S), NEW l, NEW o, NEW nxt,
           OldestDown(S, l, o, nxt), NEW k \in Kept, ~Has(o.tbl, k),
           NEW g \in S, NEW h \in S, g.lvl = l + 1, h.lvl = l + 1, g.pos < h.pos,
           Has(g.tbl, k), Has(h.tbl, k), g.tbl[k].ver # h.tbl[k].ver
    PROVE  l # 0 /\ Covers(h, g)
<1>0. l \in Nat /\ o \in S /\ o.lvl = l /\ \A f \in S : f.lvl = l => o.pos <= f.pos
  BY DEF OldestDown
<1>1. IF g.lvl = 1 THEN OldestHas(S, k) ELSE Covers(h, g)
  BY <1>0 DEF Consistent
<1>2. ASSUME OldestHas(S, k), l = 0 PROVE FALSE
  <2>1. PICK p \in S : p.lvl = 0 /\ Has(p.tbl, k) /\ \A f \in S : f.lvl = 0 => p.pos <= f.pos
    BY <1>2 DEF OldestHas
  <2>2. p.pos <= o.pos /\ o.pos <= p.pos /\ o.pos \in Nat /\ p.pos \in Nat
    BY <1>0, <1>2, <2>1 DEF Ordered, Handle
  <2>3. p = o  BY <1>0, <1>2, <2>1, <2>2 DEF Ordered
  <2> QED  BY <2>1, <2>3
<1>3. CASE l = 0  BY <1>1, <1>2, <1>3
<1>4. CASE l # 0  BY <1>0, <1>1, <1>4
<1> QED  BY <1>3, <1>4

(* Taking only the overlapping tables of the next level is sound: a table of  *)
(* that level that stays in front of a merged one agrees with it.             *)
LEMMA OldestMergeOf ==
    ASSUME NEW S, Ordered(S), \A h \in S : Live(h.tbl), Consistent(S),
           NEW l, NEW o, NEW nxt, OldestDown(S, l, o, nxt),
           NEW X, Output(S, l, {o} \cup nxt, X), NEW k \in Kept
    PROVE  MergeOf(S, l, {o}, nxt, X, k)
<1>0. l \in Nat /\ o \in S /\ o.lvl = l /\ (\A g \in S : g.lvl = l => o.pos <= g.pos)
      /\ nxt = {g \in S : g.lvl = l + 1 /\ Overlaps(o, g)}
  BY DEF OldestDown
<1>1. Stands(X, {o} \cup nxt, k)
  <2> DEFINE M == {o} \cup nxt
  <2>1. M \in SUBSET S  BY <1>0
  <2>2. Ordered(M) /\ \A h \in M : Live(h.tbl)
    <3> HIDE DEF M
    <3> QED  BY <2>1, OrderedPart
  <2> HIDE DEF M
  <2>3. Stands(X, M, k)  BY <2>2, StandsMerged DEF M
  <2> QED  BY <2>3 DEF M
<1>2. ASSUME NEW f \in S, NEW n \in nxt, f \notin nxt, f.lvl = l + 1, f.pos > n.pos,
             Has(f.tbl, k), Has(n.tbl, k), \A p \in {o} : ~Has(p.tbl, k),
             f.tbl[k].ver # n.tbl[k].ver
      PROVE  FALSE
  <2>1. n \in S /\ n.lvl = l + 1 /\ Overlaps(o, n)  BY <1>0
  <2>2. n.pos < f.pos  BY <1>2, <2>1 DEF Ordered, Handle
  <2>3. ~Has(o.tbl, k)  BY <1>2
  <2>4. Covers(f, n)  BY <1>2, <2>1, <2>2, <2>3, DisagreeingCovers
  <2>5. Overlaps(o, f)  BY <2>1, <2>4, OverlapFacts
  <2> QED  BY <1>0, <1>2, <2>5
<1>3. ASSUME NEW p \in {o}, NEW g \in S, g.lvl = l, g \notin {o} PROVE p.pos < g.pos
  <2>1. o.pos <= g.pos /\ o.pos # g.pos /\ o.pos \in Nat /\ g.pos \in Nat
    BY <1>0, <1>3 DEF Ordered, Handle
  <2> QED  BY <1>3, <2>1
<1>4. {o} \subseteq S /\ nxt \subseteq S /\ (\A p \in {o} : p.lvl = l) /\ \A n \in nxt : n.lvl = l + 1
  BY <1>0
<1>5. /\ \A x \in X, y \in X : x = y
      /\ \A x \in X : x \in Handle /\ x.lvl = l + 1 /\ \A h \in S : h.pos < x.pos
  BY DEF Output
<1> QED  BY <1>0, <1>1, <1>2, <1>3, <1>4, <1>5 DEF MergeOf

(* No tombstone and no expired entry. *)
Tidy(tbl) == \A k \in Keys : ~tbl[k].dead

(* The output of a merge of tables without tombstones has all their keys. *)
LEMMA MergedKeys ==
    ASSUME NEW M, Ordered(M), \A h \in M : Tidy(h.tbl), NEW m \in M
    PROVE  KeysOf(m.tbl) \subseteq KeysOf(Merged(M))
<1> SUFFICES ASSUME NEW k \in Keys, Has(m.tbl, k) PROVE Has(Merged(M), k)
  BY DEF KeysOf
<1>1. Held(M, k)  BY DEF Held
<1>2. PICK f \in M : Hit(M, k, f)  BY <1>1, SearchHit
<1>3. Search(M, k) = f.tbl[k] /\ ~f.tbl[k].dead /\ Has(f.tbl, k)
  BY <1>2, SearchHit DEF Tidy, Hit
<1> QED  BY <1>3 DEF Merged, Has

(* A table covers each table whose keys it has, and each one such a table     *)
(* covers.                                                                    *)
LEMMA CoversMore ==
    ASSUME NEW x, NEW n, KeysOf(n.tbl) \subseteq KeysOf(x.tbl)
    PROVE  Covers(x, n) /\ \A g : Covers(n, g) => Covers(x, g)
<1>1. \A k \in KeysOf(n.tbl) : k <= k  BY SSTableAssumption DEF KeysOf
<1> QED  BY <1>1 DEF Covers

(* The merge of strategy 1 keeps the tables of a level in agreement.          *)
LEMMA AgreeMerge ==
    ASSUME NEW S, Ordered(S), \A h \in S : Live(h.tbl), Consistent(S),
           \A h \in S : h.lvl > 0 => Tidy(h.tbl),
           NEW l, NEW o, NEW nxt, OldestDown(S, l, o, nxt),
           NEW X, Output(S, l, {o} \cup nxt, X),
           NEW T, OnTheWay(T, S, {o}, nxt, X)
    PROVE  Consistent(T)
<1> DEFINE M == {o} \cup nxt
<1>0. l \in Nat /\ o \in S /\ o.lvl = l /\ (\A g \in S : g.lvl = l => o.pos <= g.pos)
      /\ nxt = {g \in S : g.lvl = l + 1 /\ Overlaps(o, g)}
  BY DEF OldestDown
<1>d. PICK D \in SUBSET M : (D = M \/ {o} \cap D = {}) /\ T = (S \cup X) \ D
  BY DEF OnTheWay
<1>x. /\ \A x \in X, y \in X : x = y
      /\ \A x \in X : /\ x \in Handle /\ x.lvl = l + 1 /\ x.tbl = Merged(M)
                      /\ \A h \in S : h.pos < x.pos
  BY DEF Output
<1>t. \A h \in S \cup X : h.lvl \in Nat /\ h.pos \in Nat  BY <1>x DEF Ordered, Handle
<1>m. Ordered(M) /\ \A h \in M : h \in S
  <2>1. M \in SUBSET S  BY <1>0
  <2> HIDE DEF M
  <2> QED  BY <2>1, OrderedPart
<1> HIDE DEF M
<1> SUFFICES ASSUME NEW g \in T, NEW h \in T, g.lvl = h.lvl, g.lvl > 0, g.pos < h.pos,
                    NEW k \in Kept, Has(g.tbl, k), Has(h.tbl, k),
                    g.tbl[k].ver # h.tbl[k].ver
             PROVE  IF g.lvl = 1 THEN OldestHas(T, k) ELSE Covers(h, g)
  BY DEF Consistent
<1>k. k \in Keys  BY DEF Kept
<1>g. g \in S
  <2>1. ASSUME g \in X PROVE FALSE
    <3>1. CASE h \in X  BY <1>x, <1>t, <2>1, <3>1
    <3>2. CASE h \in S
      <4>1. h.pos < g.pos /\ h.pos \in Nat /\ g.pos \in Nat  BY <1>x, <1>t, <2>1, <3>2
      <4> QED  BY <4>1
    <3> QED  BY <1>d, <3>1, <3>2
  <2> QED  BY <1>d, <2>1
\* The oldest table of level 0, as long as it is there.
<1>1. ASSUME NEW p \in S, p \in T, p.lvl = 0, Has(p.tbl, k),
             \A f \in S : f.lvl = 0 => p.pos <= f.pos
      PROVE  OldestHas(T, k)
  <2>1. \A f \in T : f.lvl = 0 => f \in S  BY <1>0, <1>d, <1>x
  <2> QED  BY <1>1, <2>1 DEF OldestHas
<1>2. CASE h \in S
  <2>1. IF g.lvl = 1 THEN OldestHas(S, k) ELSE Covers(h, g)
    BY <1>g, <1>2 DEF Consistent
  <2>2. CASE g.lvl # 1  BY <2>1, <2>2
  <2>3. CASE g.lvl = 1
    <3>1. PICK p \in S : p.lvl = 0 /\ Has(p.tbl, k) /\ \A f \in S : f.lvl = 0 => p.pos <= f.pos
      BY <2>1, <2>3 DEF OldestHas
    <3>2. CASE p \in T  BY <1>1, <2>3, <3>1, <3>2
    <3>3. CASE p \notin T
      <4>1. p \in M  BY <1>d, <3>1, <3>3
      <4>2. p = o /\ l = 0
        BY <1>0, <3>1, <4>1 DEF M
      <4>3. D = M  BY <1>d, <3>1, <3>3, <4>2
      <4>4. g \notin nxt  BY <1>d, <4>3 DEF M
      <4>5. Overlaps(o, g)  BY <1>k, <3>1, <4>2, OverlapFacts
      <4> QED  BY <1>0, <1>g, <2>3, <4>2, <4>4, <4>5
    <3> QED  BY <3>2, <3>3
  <2> QED  BY <2>2, <2>3
<1>3. CASE h \in X
  <2>1. h.lvl = l + 1 /\ h.tbl = Merged(M) /\ g.lvl = l + 1  BY <1>x, <1>3
  \* Below level 1 the output has the keys of every table merged.
  <2>2. ASSUME l # 0, NEW n \in M PROVE KeysOf(n.tbl) \subseteq KeysOf(h.tbl)
    <3>1. \A f \in M : f.lvl > 0  BY <1>0, <2>2 DEF M
    <3>2. \A f \in M : Tidy(f.tbl)  BY <1>m, <3>1
    <3> QED  BY <1>m, <2>1, <3>2, MergedKeys
  <2>3. ASSUME l # 0, g \in nxt PROVE Covers(h, g)
    BY <2>2, <2>3, CoversMore DEF M
  <2>4. CASE Has(o.tbl, k)
    <3>1. Overlaps(o, g)  BY <1>k, <2>4, OverlapFacts
    <3>2. g \in nxt  BY <1>0, <1>g, <2>1, <3>1
    <3>3. CASE l # 0  BY <1>0, <2>1, <2>3, <3>2, <3>3
    <3>4. CASE l = 0
      <4>1. o \notin D  BY <1>d, <3>2 DEF M
      <4>2. o \in T  BY <1>0, <1>d, <4>1
      <4>3. OldestHas(T, k)  BY <1>0, <1>1, <2>4, <3>4, <4>2
      <4> QED  BY <2>1, <3>4, <4>3
    <3> QED  BY <3>3, <3>4
  <2>5. CASE ~Has(o.tbl, k)
    <3>1. Held(M, k)
      <4>1. Merged(M)[k].ver > 0  BY <2>1 DEF Has
      <4>2. ASSUME ~Held(M, k) PROVE FALSE
        <5>1. Search(M, k) = NoEntry  BY <1>k, <1>m, <4>2, SearchHit
        <5> QED  BY <1>k, <4>1, <5>1 DEF Merged, NoEntry
      <4> QED  BY <4>2
    <3>2. PICK n \in M : Hit(M, k, n)  BY <1>k, <1>m, <3>1, SearchHit
    <3>3. n \in nxt /\ Has(n.tbl, k) /\ n \in S /\ n.lvl = l + 1
      BY <1>0, <2>5, <3>2 DEF Hit, M
    <3>4. h.tbl[k].ver = n.tbl[k].ver
      <4>1. Search(M, k) = n.tbl[k] /\ ~n.tbl[k].dead
        BY <1>k, <1>m, <3>2, <3>3, SearchHit DEF Live
      <4> QED  BY <1>k, <2>1, <4>1 DEF Merged
    <3>5. n.pos \in Nat /\ g.pos \in Nat /\ n.pos # g.pos
      <4>1. n # g  BY <3>4
      <4> QED  BY <1>t, <1>g, <2>1, <3>3, <4>1 DEF Ordered
    <3>6. CASE g.pos < n.pos
      <4>1. l # 0 /\ Covers(n, g)
        BY <1>g, <2>1, <2>5, <3>3, <3>4, <3>6, DisagreeingCovers
      <4>2. Covers(h, g)  BY <2>2, <3>2, <4>1, CoversMore
      <4> QED  BY <1>0, <2>1, <4>1, <4>2
    <3>7. CASE n.pos < g.pos
      <4>1. l # 0 /\ Covers(g, n)
        BY <1>g, <2>1, <2>5, <3>3, <3>4, <3>7, DisagreeingCovers
      <4>2. Overlaps(o, g)  BY <1>0, <3>3, <4>1, OverlapFacts
      <4>3. g \in nxt  BY <1>0, <1>g, <2>1, <4>2
      <4> QED  BY <1>0, <2>1, <2>3, <4>1, <4>3
    <3> QED  BY <3>5, <3>6, <3>7
  <2> QED  BY <2>4, <2>5
<1> QED  BY <1>d, <1>2, <1>3

(* The merge of a whole level into an empty one keeps them in agreement too.  *)
LEMMA AgreeTier ==
    ASSUME NEW S, Ordered(S), Consistent(S), NEW l \in Nat, \A h \in S : h.lvl <= l,
           NEW src, src = {h \in S : h.lvl = l}, NEW X, Output(S, l, src \cup {}, X),
           NEW T, OnTheWay(T, S, src, {}, X)
    PROVE  Consistent(T)
<1>d. PICK D \in SUBSET src : T = (S \cup X) \ D  BY DEF OnTheWay
<1>x. /\ \A x \in X, y \in X : x = y
      /\ \A x \in X : x \in Handle /\ x.lvl = l + 1
  BY DEF Output
<1>t. \A h \in S \cup X : h.lvl \in Nat /\ h.pos \in Nat  BY <1>x DEF Ordered, Handle
<1> SUFFICES ASSUME NEW g \in T, NEW h \in T, g.lvl = h.lvl, g.lvl > 0, g.pos < h.pos,
                    NEW k \in Kept, Has(g.tbl, k), Has(h.tbl, k),
                    g.tbl[k].ver # h.tbl[k].ver
             PROVE  IF g.lvl = 1 THEN OldestHas(T, k) ELSE Covers(h, g)
  BY DEF Consistent
<1>1. g \in S /\ h \in S
  <2>1. CASE g \in X /\ h \in X  BY <1>t, <1>x, <2>1
  <2>2. CASE g \in X /\ h \in S  BY <1>t, <1>x, <2>2
  <2>3. CASE g \in S /\ h \in X  BY <1>t, <1>x, <2>3
  <2> QED  BY <1>d, <2>1, <2>2, <2>3
<1>2. IF g.lvl = 1 THEN OldestHas(S, k) ELSE Covers(h, g)  BY <1>1 DEF Consistent
<1>3. CASE g.lvl = 1
  <2>1. PICK p \in S : p.lvl = 0 /\ Has(p.tbl, k) /\ \A f \in S : f.lvl = 0 => p.pos <= f.pos
    BY <1>2, <1>3 DEF OldestHas
  <2>2. 1 <= l  BY <1>1, <1>3
  <2>3. p \in T  BY <1>d, <2>1, <2>2
  <2>4. \A f \in T : f.lvl = 0 => f \in S  BY <1>d, <1>x
  <2>5. OldestHas(T, k)  BY <2>1, <2>3, <2>4 DEF OldestHas
  <2> QED  BY <1>3, <2>5
<1> QED  BY <1>2, <1>3

(* create_new_sstable: a table on top of level 0 is found first, and changes  *)
(* nothing for the keys it does not hold.                                     *)
LEMMA OnTop ==
    ASSUME NEW S, Ordered(S), NEW x \in Handle, x.lvl = 0, \A h \in S : h.pos < x.pos
    PROVE  /\ Ordered(S \cup {x})
           /\ \A k \in Keys : Search(S \cup {x}, k) =
                  IF Has(x.tbl, k) THEN x.tbl[k] ELSE Search(S, k)
           /\ Consistent(S) => Consistent(S \cup {x})
<1> DEFINE T == S \cup {x}
<1>t. \A h \in T : h \in Handle /\ h.lvl \in Nat /\ h.pos \in Nat  BY DEF Ordered, Handle
<1>1. Ordered(T)
  <2>1. x.pos + 1 \in Nat /\ \A h \in T : h.pos < x.pos + 1  BY <1>t
  <2>2. \A g, h \in T : g.lvl = h.lvl /\ g.pos = h.pos => g = h  BY <1>t DEF Ordered
  <2>3. T \subseteq Handle  BY <1>t
  <2> HIDE DEF T
  <2> QED  BY <2>1, <2>2, <2>3 DEF Ordered
<1>2. ASSUME NEW k \in Keys
      PROVE  Search(T, k) = IF Has(x.tbl, k) THEN x.tbl[k] ELSE Search(S, k)
  <2>1. CASE Has(x.tbl, k)
    <3>1. Hit(T, k, x)  BY <1>t, <2>1 DEF Hit, Before
    <3> HIDE DEF T
    <3> QED  BY <1>1, <2>1, <3>1, SearchHit
  <2>2. CASE ~Has(x.tbl, k)
    <3>1. {h \in T : Has(h.tbl, k)} = {h \in S : Has(h.tbl, k)}  BY <2>2
    <3>2. Search(T, k) = Search(S, k)
      <4> HIDE DEF T
      <4> QED  BY <3>1 DEF Search
    <3> QED  BY <2>2, <3>2
  <2> QED  BY <2>1, <2>2
<1>3. ASSUME Consistent(S) PROVE Consistent(T)
  <2> SUFFICES ASSUME NEW g \in T, NEW h \in T, g.lvl = h.lvl, g.lvl > 0, g.pos < h.pos,
                      NEW k \in Kept, Has(g.tbl, k), Has(h.tbl, k),
                      g.tbl[k].ver # h.tbl[k].ver
               PROVE  IF g.lvl = 1 THEN OldestHas(T, k) ELSE Covers(h, g)
    BY DEF Consistent
  <2>1. g \in S /\ h \in S  OBVIOUS
  <2>2. IF g.lvl = 1 THEN OldestHas(S, k) ELSE Covers(h, g)  BY <1>3, <2>1 DEF Consistent
  <2>3. ASSUME OldestHas(S, k) PROVE OldestHas(T, k)
    <3>1. PICK p \in S : p.lvl = 0 /\ Has(p.tbl, k) /\ \A f \in S : f.lvl = 0 => p.pos <= f.pos
      BY <2>3 DEF OldestHas
    <3>2. p.pos <= x.pos  BY <1>t
    <3> QED  BY <3>1, <3>2 DEF OldestHas
  <2> QED  BY <2>2, <2>3
<1> QED  BY <1>1, <1>2, <1>3

(* load_all: the vectors are rebuilt in the order of the sequence numbers. *)
Reloaded(h) == [seq |-> h.seq, lvl |-> h.lvl, tbl |-> h.tbl, pos |-> h.seq]
Reload(S) == {Reloaded(h) : h \in S}

(* A restart that finds the files of S finds the same in them. *)
LEMMA ReloadSame ==
    ASSUME NEW S, Ordered(S),
           NEW b \in Nat, \A h \in S : h.seq < b,
           \A h, g \in S : h.pos < g.pos <=> h.seq < g.seq,
           \A h, g \in S : h.seq = g.seq => h = g
    PROVE  /\ Ordered(Reload(S))
           /\ \A k \in Keys : Search(Reload(S), k) = Search(S, k)
           /\ Consistent(S) => Consistent(Reload(S))
<1> DEFINE T == Reload(S)
<1>s. \A h \in S : h \in Handle  BY DEF Ordered
<1>r. \A h \in S : /\ Reloaded(h) \in T /\ Reloaded(h) \in Handle
                   /\ Reloaded(h).lvl = h.lvl /\ Reloaded(h).tbl = h.tbl
                   /\ Reloaded(h).pos = h.seq
  BY <1>s DEF Reload, Reloaded, Handle
<1>q. \A t \in T : \E h \in S : t = Reloaded(h)  BY DEF Reload
<1>n. \A h \in S : h.seq \in Nat /\ h.pos \in Nat /\ h.lvl \in Nat  BY <1>s DEF Handle
<1> HIDE DEF T
<1>1. Ordered(T)
  <2>1. T \subseteq Handle /\ \A t \in T : t.pos < b  BY <1>r, <1>q
  <2>2. \A g, h \in T : g.lvl = h.lvl /\ g.pos = h.pos => g = h
    BY <1>r, <1>q
  <2> QED  BY <2>1, <2>2 DEF Ordered
<1>b. \A h, g \in S : Before(h, g) <=> Before(Reloaded(h), Reloaded(g))
  <2> TAKE h \in S, g \in S
  <2>1. h.pos < g.pos <=> h.seq < g.seq  OBVIOUS
  <2>2. h.pos >= g.pos <=> h.seq >= g.seq  BY <1>n, <2>1
  <2> QED  BY <1>r, <2>2 DEF Before
<1>2. ASSUME NEW k \in Keys PROVE Search(T, k) = Search(S, k)
  <2>1. CASE Held(S, k)
    <3>1. PICK f \in S : Hit(S, k, f)  BY <2>1, SearchHit
    <3>2. Hit(T, k, Reloaded(f))
      <4>1. ASSUME NEW g \in T, Has(g.tbl, k) PROVE Before(Reloaded(f), g)
        <5>1. PICK h \in S : g = Reloaded(h)  BY <1>q
        <5>2. Before(f, h)  BY <1>r, <3>1, <4>1, <5>1 DEF Hit
        <5> QED  BY <1>b, <5>1, <5>2
      <4> QED  BY <1>r, <3>1, <4>1 DEF Hit
    <3>3. Search(T, k) = Reloaded(f).tbl[k]  BY <1>1, <3>2, SearchHit
    <3>4. Search(S, k) = f.tbl[k]  BY <3>1, SearchHit
    <3> QED  BY <1>r, <3>3, <3>4
  <2>2. CASE ~Held(S, k)
    <3>1. ~Held(T, k)  BY <1>r, <1>q, <2>2 DEF Held
    <3> QED  BY <1>1, <2>2, <3>1, SearchHit
  <2> QED  BY <2>1, <2>2
<1>3. ASSUME Consistent(S) PROVE Consistent(T)
  <2> SUFFICES ASSUME NEW g \in T, NEW h \in T, g.lvl = h.lvl, g.lvl > 0, g.pos < h.pos,
                      NEW k \in Kept, Has(g.tbl, k), Has(h.tbl, k),
                      g.tbl[k].ver # h.tbl[k].ver
               PROVE  IF g.lvl = 1 THEN OldestHas(T, k) ELSE Covers(h, g)
    BY DEF Consistent
  <2>1. PICK c \in S : g = Reloaded(c)  BY <1>q
  <2>2. PICK d \in S : h = Reloaded(d)  BY <1>q
  <2>3. /\ g.lvl = c.lvl /\ g.tbl = c.tbl /\ g.pos = c.seq
        /\ h.lvl = d.lvl /\ h.tbl = d.tbl /\ h.pos = d.seq
    BY <1>r, <2>1, <2>2
  <2>4. c.pos < d.pos  BY <2>3
  <2>5. IF c.lvl = 1 THEN OldestHas(S, k) ELSE Covers(d, c)
    BY <1>3, <2>3, <2>4 DEF Consistent
  <2>6. Covers(d, c) => Covers(h, g)  BY <2>3 DEF Covers
  <2>7. ASSUME OldestHas(S, k) PROVE OldestHas(T, k)
    <3>1. PICK p \in S : p.lvl = 0 /\ Has(p.tbl, k) /\ \A f \in S : f.lvl = 0 => p.pos <= f.pos
      BY <2>7 DEF OldestHas
    <3>2. ASSUME NEW t \in T, t.lvl = 0 PROVE Reloaded(p).pos <= t.pos
      <4>1. PICK f \in S : t = Reloaded(f)  BY <1>q
      <4>2. p.pos <= f.pos  BY <1>r, <3>1, <3>2, <4>1
      <4>3. ~(f.seq < p.seq)  BY <1>n, <4>2
      <4> QED  BY <1>n, <1>r, <4>1, <4>3
    <3> QED  BY <1>r, <3>1, <3>2 DEF OldestHas
  <2> QED  BY <2>3, <2>5, <2>6, <2>7
<1> QED  BY <1>1, <1>2, <1>3 DEF T

(* Tables without entries change no lookup, and a restart does not find them. *)
Full(S) == {h \in S : KeysOf(h.tbl) # {}}

LEMMA FullSame ==
    ASSUME NEW S, Ordered(S)
    PROVE  /\ Ordered(Full(S)) /\ \A k \in Keys : Search(Full(S), k) = Search(S, k)
           /\ Consistent(S) => Consistent(Full(S))
<1> DEFINE T == Full(S)
<1>1. T \in SUBSET S  BY DEF Full
<1>2. Ordered(T)
  <2> HIDE DEF T
  <2> QED  BY <1>1, OrderedPart
<1>h. \A h \in S, k \in Keys : Has(h.tbl, k) => h \in T  BY DEF Full, KeysOf
<1>3. ASSUME NEW k \in Keys PROVE Search(T, k) = Search(S, k)
  <2>1. {h \in T : Has(h.tbl, k)} = {h \in S : Has(h.tbl, k)}  BY <1>1, <1>h
  <2> HIDE DEF T
  <2> QED  BY <2>1 DEF Search
<1>4. ASSUME Consistent(S) PROVE Consistent(T)
  <2> SUFFICES ASSUME NEW g \in T, NEW h \in T, g.lvl = h.lvl, g.lvl > 0, g.pos < h.pos,
                      NEW k \in Kept, Has(g.tbl, k), Has(h.tbl, k),
                      g.tbl[k].ver # h.tbl[k].ver
               PROVE  IF g.lvl = 1 THEN OldestHas(T, k) ELSE Covers(h, g)
    BY DEF Consistent
  <2>1. IF g.lvl = 1 THEN OldestHas(S, k) ELSE Covers(h, g)  BY <1>1, <1>4 DEF Consistent
  <2>2. k \in Keys  BY DEF Kept
  <2>3. OldestHas(S, k) => OldestHas(T, k)  BY <1>1, <1>h, <2>2 DEF OldestHas
  <2> QED  BY <2>1, <2>3
<1> QED  BY <1>2, <1>3, <1>4

(* Two tables without entries for the keys spoken of take each other's place. *)
LEMMA Unheard ==
    ASSUME NEW R, NEW x, NEW y, x.lvl = y.lvl, x.pos = y.pos,
           \A k \in Kept : ~Has(x.tbl, k) /\ ~Has(y.tbl, k)
    PROVE  /\ \A k \in Kept : Search(R \cup {x}, k) = Search(R \cup {y}, k)
           /\ \A k \in Kept, r \in Nat :
                  Search(Below(R \cup {x}, r), k) = Search(Below(R \cup {y}, r), k)
           /\ Consistent(R \cup {x}) => Consistent(R \cup {y})
<1>1. ASSUME NEW k \in Kept, NEW A, NEW B,
             {h \in A : Has(h.tbl, k)} = {h \in B : Has(h.tbl, k)}
      PROVE  Search(A, k) = Search(B, k)
  BY <1>1 DEF Search
<1>2. ASSUME NEW k \in Kept PROVE Search(R \cup {x}, k) = Search(R \cup {y}, k)
  <2>1. {h \in R \cup {x} : Has(h.tbl, k)} = {h \in R \cup {y} : Has(h.tbl, k)}
    OBVIOUS
  <2> QED  BY <1>1, <2>1
<1>3. ASSUME NEW k \in Kept, NEW r \in Nat
      PROVE  Search(Below(R \cup {x}, r), k) = Search(Below(R \cup {y}, r), k)
  <2>1. {h \in Below(R \cup {x}, r) : Has(h.tbl, k)}
            = {h \in Below(R \cup {y}, r) : Has(h.tbl, k)}
    BY DEF Below
  <2> QED  BY <1>1, <2>1
<1>4. ASSUME Consistent(R \cup {x}) PROVE Consistent(R \cup {y})
  <2> SUFFICES ASSUME NEW g \in R \cup {y}, NEW h \in R \cup {y},
                      g.lvl = h.lvl, g.lvl > 0, g.pos < h.pos,
                      NEW k \in Kept, Has(g.tbl, k), Has(h.tbl, k),
                      g.tbl[k].ver # h.tbl[k].ver
               PROVE  IF g.lvl = 1 THEN OldestHas(R \cup {y}, k) ELSE Covers(h, g)
    BY DEF Consistent
  <2>1. g \in R /\ h \in R  OBVIOUS
  <2>2. IF g.lvl = 1 THEN OldestHas(R \cup {x}, k) ELSE Covers(h, g)
    BY <1>4, <2>1 DEF Consistent
  <2>3. ASSUME OldestHas(R \cup {x}, k) PROVE OldestHas(R \cup {y}, k)
    <3>1. PICK o \in R \cup {x} : /\ o.lvl = 0 /\ Has(o.tbl, k)
                                  /\ \A f \in R \cup {x} : f.lvl = 0 => o.pos <= f.pos
      BY <2>3 DEF OldestHas
    <3>2. o \in R  BY <3>1
    <3>3. \A f \in R \cup {y} : f.lvl = 0 => o.pos <= f.pos  BY <3>1
    <3> QED  BY <3>1, <3>2, <3>3 DEF OldestHas
  <2> QED  BY <2>2, <2>3
<1> QED  BY <1>2, <1>3, <1>4

-----------------------------------------------------------------------------
(* The inductive invariant: the store. *)

(* Tombstones live in level 0 only: every merge drops them (989-1003). *)
TidyInv ==
    /\ \A h \in Known : h.lvl > 0 => Tidy(h.tbl)
    /\ \A f \in disk : f.lvl > 0 => Tidy(f.tbl)
    /\ job.kind # "flush" => Tidy(job.out)

(* Every file on disk belongs to a table the manager knows, and the merged    *)
(* tables keep theirs until the unlinking.                                    *)
AccountInv ==
    /\ \A f \in disk : \/ \E h \in Known : f = FileOf(h)
                       \/ /\ job.pc = "install"
                          /\ f = [seq |-> next_seq - 1, lvl |-> Target(job), tbl |-> job.out]
    /\ job.pc # "unlink" =>
          \A h \in Merging : KeysOf(h.tbl) # {} => FileOf(h) \in disk

(* Where the merged tables are from, and where the entries of the output are. *)
SourceInv ==
    /\ \A h \in job.src : h.lvl = job.lvl
    /\ \A h \in job.nxt : h.lvl = job.lvl + 1
    /\ job.pc \in {"write", "install"} /\ job.kind # "flush" =>
          \A k \in Keys : Has(job.out, k) => \E h \in Merging : h.tbl[k] = job.out[k]

(* A directory that was only ever compacted by level needs no normalisation.  *)
SteadyInv == strategy = "level" /\ ~mixed => smeta = "level" /\ ~job.norm

(* What is being flushed is newer than what is stored. *)
VersionInv ==
    \A k \in Keys :
        /\ truth[k].ver < next_ver
        /\ job.kind = "flush" /\ job.pc \in {"write", "install"} =>
              job.out[k].ver < next_ver /\ (Has(job.out, k) => truth[k].ver < job.out[k].ver)

StoreInv == TidyInv /\ AccountInv /\ SourceInv /\ SteadyInv /\ VersionInv

-----------------------------------------------------------------------------
(* The inductive invariant: lookups. *)

(* Lookups in S find the versions of "now"; under the level strategy the      *)
(* tables of a level agree.                                                   *)
Good(S, now, st) ==
    /\ \A k \in Kept : Search(S, k).ver = now[k].ver
    /\ st = "level" => Consistent(S)

(* A merge is under way. *)
Working == job.pc \in {"write", "install", "drop_next", "drop", "unlink"} /\ job.kind # "flush"

(* The table being created, as it will enter the index. *)
NewTable(n) == [seq |-> n, lvl |-> Target(job), tbl |-> job.out, pos |-> next_pos]
Coming ==
    IF job.pc = "write" THEN {NewTable(next_seq)}
    ELSE IF job.pc = "install" THEN {NewTable(next_seq - 1)} ELSE {}

(* The merged tables and the output together, and the sets the index then     *)
(* goes through.                                                              *)
Image == level_sstables \cup Merging \cup Coming
Stage(S) == S = Image \/ S = Image \ job.nxt \/ S = Image \ Merging

SearchInv ==
    ~interrupted /\ ~mixed =>
        /\ Good(level_sstables, truth, strategy)
        /\ Working => \A S : Stage(S) => Good(S, truth, strategy)

(* What readers that have come to level r find in those sets: the same, and   *)
(* the same as before the merge, unless the reader is about to search the     *)
(* level of the output and the entry comes from a table it has passed by.     *)
PassInv ==
    ~interrupted /\ ~mixed /\ Working =>
        \A k \in Kept, r \in Nat :
            /\ \A S : Stage(S) => Search(Below(S, r), k).ver = Search(Below(Image, r), k).ver
            /\ job.pc \in {"write", "install"} =>
                  \/ Search(Below(Image, r), k).ver = Search(Below(level_sstables, r), k).ver
                  \/ \E o \in job.src : /\ r = job.lvl + 1 /\ Has(o.tbl, k)
                                        /\ Search(Below(Image, r), k).ver = o.tbl[k].ver

-----------------------------------------------------------------------------
(* The store part is inductive. *)

(* A fresh directory. *)
LEMMA StoreInvInit == Init => StoreInv
<1> SUFFICES ASSUME Init PROVE StoreInv  OBVIOUS
<1>1. /\ disk = {} /\ Known = {} /\ Merging = {} /\ job.kind = "flush" /\ job.pc = "idle"
      /\ job.src = {} /\ job.nxt = {} /\ ~job.norm /\ smeta = strategy
      /\ truth = EmptyTable /\ next_ver = 1
  BY DEF Init, SSTInit, IdleJob, Known, Merging
<1>2. \A k \in Keys : truth[k].ver = 0  BY <1>1 DEF EmptyTable, NoEntry
<1> QED  BY <1>1, <1>2 DEF StoreInv, TidyInv, AccountInv, SourceInv, SteadyInv, VersionInv

(* What a merge that starts puts in the hands of the compaction thread. *)
LEMMA StartFields ==
    ASSUME NEW j \in Job, NEW kind, NEW l, NEW src, NEW nxt, NEW out,
           out = Merged(src \cup nxt), NEW J, J = StartMerge(j, kind, l, src, nxt)
    PROVE  /\ J.src = src /\ J.nxt = nxt /\ J.lvl = l /\ J.kind = kind /\ J.out = out
           /\ J.norm = j.norm
           /\ J.pc = IF KeysOf(out) # {} THEN "write"
                     ELSE IF kind = "tier" THEN "drop" ELSE "drop_next"
BY DEF StartMerge, Job

(* A step of the compaction thread that ends a merge_sstables call, returns   *)
(* or gives up, or one that starts a merge of tables of the index.            *)
Rests ==
    /\ UNCHANGED <<level_sstables, next_pos, next_seq, max_level, disk, truth, strategy>>
    /\ job'.pc \in {"idle", "check"}
    /\ job'.src = {} /\ job'.nxt = {}
    /\ job'.kind = "flush" \/ (job'.kind = job.kind /\ job'.out = job.out)
    /\ job'.norm => job.norm
Starts(kind, l, src, nxt) ==
    /\ UNCHANGED <<level_sstables, next_pos, next_seq, max_level, disk, truth, strategy>>
    /\ job.pc = "check" /\ l \in Nat /\ l <= max_level
    /\ src \subseteq level_sstables /\ nxt \subseteq level_sstables
    /\ job'.src = src /\ job'.nxt = nxt /\ job'.lvl = l /\ job'.kind = kind
    /\ job'.out = Merged(src \cup nxt)
    /\ job'.pc = IF KeysOf(job'.out) # {} THEN "write"
                 ELSE IF kind = "tier" THEN "drop" ELSE "drop_next"
    /\ job'.norm => job.norm
    /\ \/ kind = "tier" /\ src = Level(l) /\ nxt = {}
          /\ (strategy = "size_tiered" \/ l = max_level \/ job.norm)
       \/ kind = "level" /\ strategy # "size_tiered"
          /\ \E o : src = {o} /\ OldestDown(level_sstables, l, o, nxt)

(* merge_sstables and normalize_sstables, 862-976: nothing, or a merge. *)
LEMMA CheckStep ==
    ASSUME SSTInv, merge_sstables \/ normalize_sstables
    PROVE  \/ Rests
           \/ \E l \in Nat : Starts("tier", l, Level(l), {})
           \/ \E l \in Nat : \E o, nxt : Starts("level", l, {o}, nxt)
<1>t. /\ job \in Job /\ job.todo \in Seq(Nat) /\ max_level \in Nat /\ job.next_norm \in Nat
      /\ level_sstables \subseteq Handle
  BY DEF SSTInv, SSTTypeOK, Job
<1>u. /\ UNCHANGED <<level_sstables, next_pos, next_seq, max_level, disk, truth, strategy>>
      /\ job.pc = "check"
  BY DEF merge_sstables, normalize_sstables, indexVars
<1>e. job.src = {} /\ job.nxt = {}
  BY <1>u DEF SSTInv, IndexInv, JobStage, Merging
<1>1. ASSUME NEW j \in Job, NEW l \in Nat, l <= max_level, job' = StartTier(j, l),
             j.pc = "check", j.src = {}, j.nxt = {}, j.kind = job.kind, j.out = job.out,
             j.norm = job.norm,
             strategy = "size_tiered" \/ l = max_level \/ job.norm
      PROVE  Rests \/ Starts("tier", l, Level(l), {})
  <2>1. CASE Level(l) = {}
    BY <1>1, <1>u, <2>1 DEF StartTier, Rests
  <2>2. CASE Level(l) # {}
    <3>1. job' = StartMerge(j, "tier", l, Level(l), {})  BY <1>1, <2>2 DEF StartTier
    <3>2. Level(l) \subseteq level_sstables  BY DEF Level
    <3> QED  BY <1>1, <1>u, <3>1, <3>2, StartFields DEF Starts
  <2> QED  BY <2>1, <2>2
<1>2. ASSUME NEW j \in Job, NEW l \in Nat, l <= max_level, job' = StartLevel(j, l),
             j.pc = "check", j.src = {}, j.nxt = {}, j.kind = job.kind, j.out = job.out,
             j.norm = job.norm, strategy # "size_tiered"
      PROVE  Rests \/ \E o, nxt : Starts("level", l, {o}, nxt)
  <2>1. CASE Level(l) = {}
    BY <1>2, <1>u, <2>1 DEF StartLevel, Rests
  <2>2. CASE Level(l) # {}
    <3> DEFINE o == CHOOSE h \in Level(l) : \A g \in Level(l) : Before(g, h)
               nxt == {g \in Level(l + 1) : Overlaps(o, g)}
    <3>1. job' = StartMerge(j, "level", l, {o}, nxt)  BY <1>2, <2>2 DEF StartLevel
    <3>2. o \in Level(l) /\ \A g \in Level(l) : Before(g, o)  BY <2>2, OldestIn
    <3>3. nxt = {g \in level_sstables : g.lvl = l + 1 /\ Overlaps(o, g)}  BY DEF Level
    <3> HIDE DEF o, nxt
    <3>4. OldestDown(level_sstables, l, o, nxt)
      <4>1. ASSUME NEW g \in level_sstables, g.lvl = l PROVE o.pos <= g.pos
        <5>1. g \in Level(l) /\ o.lvl = l /\ o \in level_sstables  BY <3>2, <4>1 DEF Level
        <5>2. Before(g, o) /\ g.pos \in Nat /\ o.pos \in Nat
          BY <1>t, <3>2, <5>1 DEF Handle
        <5> QED  BY <4>1, <5>1, <5>2 DEF Before
      <4> QED  BY <3>2, <3>3, <4>1 DEF OldestDown, Level
    <3>5. {o} \subseteq level_sstables /\ nxt \subseteq level_sstables
      BY <3>2, <3>3 DEF Level
    <3>6. Starts("level", l, {o}, nxt)
      <4>1. \E p : {o} = {p} /\ OldestDown(level_sstables, l, p, nxt)  BY <3>4
      <4>2. /\ job'.src = {o} /\ job'.nxt = nxt /\ job'.lvl = l /\ job'.kind = "level"
            /\ job'.out = Merged({o} \cup nxt) /\ job'.norm = j.norm
            /\ job'.pc = IF KeysOf(job'.out) # {} THEN "write" ELSE "drop_next"
        BY <1>2, <3>1, StartFields
      <4> QED  BY <1>2, <1>u, <3>5, <4>1, <4>2 DEF Starts
    <3> QED  BY <3>6
  <2> QED  BY <2>1, <2>2
<1>3. CASE merge_sstables
  <2> DEFINE l == Head(job.todo)
             j == [job EXCEPT !.todo = Tail(@)]
  <2>1. l \in Nat /\ Tail(job.todo) \in Seq(Nat)  BY <1>t, <1>3 DEF merge_sstables
  <2>2. /\ j \in Job /\ j.pc = "check" /\ j.src = {} /\ j.nxt = {} /\ j.kind = job.kind
        /\ j.out = job.out /\ j.norm = job.norm
    BY <1>t, <1>u, <1>e, <2>1 DEF Job
  <2>3. \/ job' = j
        \/ /\ ~(l > max_level) /\ (strategy = "size_tiered" \/ l = max_level)
           /\ job' = StartTier(j, l)
        \/ ~(l > max_level) /\ strategy # "size_tiered" /\ job' = StartLevel(j, l)
    <3>1. PICK should_merge \in MayMerge(l) :
             job' = IF l > max_level \/ ~should_merge THEN j
                    ELSE IF strategy = "size_tiered" \/ l = max_level
                         THEN StartTier(j, l) ELSE StartLevel(j, l)
      BY <1>3 DEF merge_sstables
    <3> HIDE DEF l, j
    <3> QED  BY <3>1
  <2> HIDE DEF l, j
  <2>4. CASE job' = j  BY <1>u, <2>2, <2>4 DEF Rests
  <2>5. CASE job' = StartTier(j, l) /\ l <= max_level
             /\ (strategy = "size_tiered" \/ l = max_level)
    BY <1>1, <2>1, <2>2, <2>5
  <2>6. CASE job' = StartLevel(j, l) /\ l <= max_level /\ strategy # "size_tiered"
    BY <1>2, <2>1, <2>2, <2>6
  <2>7. l > max_level \/ l <= max_level  BY <1>t, <2>1
  <2> QED  BY <2>3, <2>4, <2>5, <2>6, <2>7
<1>4. CASE normalize_sstables
  <2> DEFINE l == job.next_norm
             j == [job EXCEPT !.next_norm = @ + 1]
  <2>1. l \in Nat /\ l + 1 \in Nat  BY <1>t
  <2>2. /\ j \in Job /\ j.pc = "check" /\ j.src = {} /\ j.nxt = {} /\ j.kind = job.kind
        /\ j.out = job.out /\ j.norm = job.norm
    BY <1>t, <1>u, <1>e, <2>1 DEF Job
  <2>3. job.norm /\ (job' = IdleJob \/ (l < max_level /\ job' = StartTier(j, l)))
    BY <1>4 DEF normalize_sstables
  <2> HIDE DEF l, j
  <2>4. CASE job' = IdleJob  BY <1>u, <2>4 DEF Rests, IdleJob
  <2>5. CASE l < max_level /\ job' = StartTier(j, l)
    <3>1. l <= max_level  BY <1>t, <2>1, <2>5
    <3> QED  BY <1>1, <2>1, <2>2, <2>3, <2>5, <3>1
  <2> QED  BY <2>3, <2>4, <2>5
<1> QED  BY <1>3, <1>4

(* A merge hands over entries of the merged tables, without tombstones. *)
LEMMA MergedFrom ==
    ASSUME NEW M \in SUBSET Handle, NEW b \in Nat, \A h \in M : h.pos < b
    PROVE  /\ Tidy(Merged(M))
           /\ \A k \in Keys : Has(Merged(M), k) => \E h \in M : h.tbl[k] = Merged(M)[k]
<1>1. \A k \in Keys : Merged(M)[k] = IF Search(M, k).dead THEN NoEntry ELSE Search(M, k)
  BY DEF Merged
<1>2. Tidy(Merged(M))
  <2> SUFFICES ASSUME NEW k \in Keys PROVE ~Merged(M)[k].dead  BY DEF Tidy
  <2>1. CASE Search(M, k).dead  BY <1>1, <2>1 DEF NoEntry
  <2>2. CASE ~Search(M, k).dead  BY <1>1, <2>2
  <2> QED  BY <2>1, <2>2
<1>3. ASSUME NEW k \in Keys, Has(Merged(M), k) PROVE \E h \in M : h.tbl[k] = Merged(M)[k]
  <2>1. Merged(M)[k] = Search(M, k) /\ Search(M, k).ver > 0
    BY <1>1, <1>3 DEF Has, NoEntry
  <2>2. Held(M, k)  BY <2>1, SearchResult DEF NoEntry
  <2> QED  BY <2>1, <2>2, SearchResult
<1> QED  BY <1>2, <1>3

(* Every step of the compaction thread keeps the store part. *)
LEMMA CompactStore ==
    ASSUME SSTInv, StoreInv, Compact, next_ver \in Nat \ {0}
    PROVE  StoreInv'
<1>v. next_ver \in Nat  OBVIOUS
<1>t. /\ job \in Job /\ next_seq \in Nat \ {0} /\ next_pos \in Nat
      /\ level_sstables \subseteq Handle /\ job.out \in Table /\ truth \in Table
      /\ smeta \in Strategies
  BY DEF SSTInv, SSTTypeOK, Job
<1>u. next_ver' = next_ver /\ mixed' = mixed /\ strategy' = strategy
  BY DEF Compact, CompactionStep, create_from_entries_write, create_from_entries_truncated,
         create_from_entries_fail, create_from_entries_install, merge_sstables, drop_next_level, drop_level,
         unlink_file, merge_done, normalize_sstables, merge_return
<1>e. Tidy(EmptyTable) /\ \A k \in Keys : EmptyTable[k].ver = 0
  BY DEF Tidy, EmptyTable, NoEntry
<1>m. \/ smeta' = smeta
      \/ smeta' = strategy
  BY DEF Compact, CompactionStep, create_from_entries_write, create_from_entries_truncated,
         create_from_entries_fail, create_from_entries_install, merge_sstables, drop_next_level, drop_level,
         unlink_file, merge_done, normalize_sstables, merge_return
<1>s. (job'.norm => job.norm) => SteadyInv'
  BY <1>u, <1>m DEF StoreInv, SteadyInv
<1>1. CASE create_from_entries_write
  <2>1. /\ disk' = disk \cup {[seq |-> next_seq, lvl |-> Target(job), tbl |-> job.out]}
        /\ next_seq' = next_seq + 1 /\ truth' = truth /\ level_sstables' = level_sstables
        /\ job.pc = "write"
    BY <1>1 DEF create_from_entries_write, indexVars
  <2>2. /\ job'.pc = "install" /\ job'.kind = job.kind /\ job'.lvl = job.lvl
        /\ job'.src = job.src /\ job'.nxt = job.nxt /\ job'.out = job.out
        /\ job'.norm = job.norm
    BY <1>1, <1>t DEF create_from_entries_write, Job
  <2>3. Merging' = Merging /\ Known' = Known /\ Target(job)' = Target(job)
    BY <2>1, <2>2 DEF Merging, Known, Target
  <2>4. TidyInv'
    <3>1. Target(job) > 0 => Tidy(job.out)
      BY DEF Target, StoreInv, TidyInv
    <3> QED  BY <2>1, <2>2, <2>3, <3>1 DEF StoreInv, TidyInv
  <2>5. AccountInv'
    <3>1. next_seq' - 1 = next_seq  BY <1>t, <2>1
    <3> QED  BY <2>1, <2>2, <2>3, <3>1 DEF StoreInv, AccountInv
  <2>6. SourceInv'  BY <2>1, <2>2, <2>3 DEF StoreInv, SourceInv
  <2>7. VersionInv'  BY <1>u, <2>1, <2>2 DEF StoreInv, VersionInv
  <2> QED  BY <1>s, <2>2, <2>4, <2>5, <2>6, <2>7 DEF StoreInv
<1>11. CASE create_from_entries_truncated
  <2>1. /\ disk' = disk /\ truth' = truth /\ level_sstables' = level_sstables
        /\ job.pc = "write"
    BY <1>11 DEF create_from_entries_truncated, indexVars
  <2>2. /\ job'.pc = "install" /\ job'.kind = job.kind /\ job'.lvl = job.lvl
        /\ job'.src = job.src /\ job'.nxt = job.nxt /\ job'.out = EmptyTable
        /\ job'.norm = job.norm
    BY <1>11, <1>t DEF create_from_entries_truncated, Job
  <2>3. Merging' = Merging /\ Known' = Known
    BY <2>1, <2>2 DEF Merging, Known
  <2>4. TidyInv'  BY <1>e, <2>1, <2>2, <2>3 DEF StoreInv, TidyInv
  <2>5. AccountInv'
    BY <2>1, <2>2, <2>3 DEF StoreInv, AccountInv
  <2>6. SourceInv'  BY <1>e, <2>2 DEF StoreInv, SourceInv, Has
  <2>7. VersionInv'
    <3> SUFFICES ASSUME NEW k \in Keys
                 PROVE  truth[k].ver < next_ver /\ 0 < next_ver
      BY <1>e, <1>u, <2>1, <2>2 DEF VersionInv, Has
    <3>1. truth[k].ver < next_ver /\ truth[k].ver \in Nat
      BY <1>t DEF StoreInv, VersionInv, Table, Entry
    <3> QED  BY <1>v, <3>1
  <2> QED  BY <1>s, <2>2, <2>4, <2>5, <2>6, <2>7 DEF StoreInv
<1>2. ASSUME Rests, Known' = Known,
             \A f \in disk : \E h \in Known : f = FileOf(h)
      PROVE  StoreInv'
  <2>1. Merging' = {}  BY <1>2 DEF Rests, Merging
  <2>2. TidyInv'  BY <1>2 DEF Rests, StoreInv, TidyInv
  <2>3. AccountInv'  BY <1>2, <2>1 DEF Rests, AccountInv
  <2>4. SourceInv'  BY <1>2 DEF Rests, SourceInv
  <2>5. VersionInv'  BY <1>2, <1>u DEF Rests, StoreInv, VersionInv
  <2> QED  BY <1>s, <1>2, <2>2, <2>3, <2>4, <2>5 DEF Rests, StoreInv
<1>3. CASE create_from_entries_fail
  <2>1. /\ disk' = disk /\ truth' = truth /\ level_sstables' = level_sstables
        /\ job.pc = "write"
    BY <1>3 DEF create_from_entries_fail, indexVars
  <2>2. /\ job'.pc \in {"idle", "check"} /\ job'.src = {} /\ job'.nxt = {}
        /\ job'.out = EmptyTable /\ (job'.norm => job.norm)
    BY <1>3, <1>t DEF create_from_entries_fail, IdleJob, Job
  <2>3. Merging' = {} /\ Known' = level_sstables /\ Known = level_sstables
    BY <2>1, <2>2 DEF Merging, Known, SSTInv, IndexInv, JobStage
  <2>4. TidyInv'  BY <1>e, <2>1, <2>2, <2>3 DEF StoreInv, TidyInv
  <2>5. AccountInv'  BY <2>1, <2>2, <2>3 DEF StoreInv, AccountInv
  <2>6. SourceInv'  BY <2>2 DEF SourceInv
  <2>7. VersionInv'  BY <1>u, <2>1, <2>2 DEF StoreInv, VersionInv
  <2> QED  BY <1>s, <2>2, <2>4, <2>5, <2>6, <2>7 DEF StoreInv
<1>4. CASE create_from_entries_install
  <2> DEFINE new == NewTable(next_seq - 1)
  <2>1. /\ level_sstables' = level_sstables \cup {new} /\ disk' = disk /\ next_seq' = next_seq
        /\ job.pc = "install"
        /\ truth' = IF job.kind = "flush" THEN Overwrite(truth, job.out) ELSE truth
    BY <1>4 DEF create_from_entries_install, NewTable
  <2>2. /\ new.lvl = Target(job) /\ new.tbl = job.out
        /\ FileOf(new) = [seq |-> next_seq - 1, lvl |-> Target(job), tbl |-> job.out]
    BY DEF NewTable, FileOf
  <2> HIDE DEF new
  <2>3. \A k \in Keys : truth'[k].ver < next_ver
    <3> TAKE k \in Keys
    <3>1. CASE job.kind = "flush"
      BY <2>1, <3>1 DEF StoreInv, VersionInv, Overwrite
    <3>2. CASE job.kind # "flush"  BY <2>1, <3>2 DEF StoreInv, VersionInv
    <3> QED  BY <3>1, <3>2
  <2>4. Target(job) > 0 => Tidy(job.out)  BY DEF Target, StoreInv, TidyInv
  <2>5. Merging \subseteq level_sstables
    BY <2>1 DEF SSTInv, IndexInv, JobStage
  <2>6. /\ job'.pc \in {"check", "drop", "drop_next"}
        /\ job'.norm => job.norm
        /\ \/ job'.kind = "flush" /\ job'.src = {} /\ job'.nxt = {}
           \/ /\ job'.kind # "flush" /\ job'.src = job.src /\ job'.nxt = job.nxt
              /\ job'.lvl = job.lvl /\ job'.out = job.out /\ job.kind # "flush"
    <3>1. CASE job.kind = "flush"
      BY <1>4, <3>1 DEF create_from_entries_install, IdleJob
    <3>2. CASE job.kind # "flush"
      BY <1>4, <1>t, <3>2 DEF create_from_entries_install, Job
    <3> QED  BY <3>1, <3>2
  <2>7. Known' = level_sstables \cup {new} /\ Known = level_sstables
        /\ Merging' \subseteq Merging
    BY <2>1, <2>5, <2>6 DEF Known, Merging
  <2>8. TidyInv'  BY <2>1, <2>2, <2>4, <2>6, <2>7 DEF StoreInv, TidyInv
  <2>9. AccountInv'
    BY <2>1, <2>2, <2>7 DEF StoreInv, AccountInv
  <2>10. SourceInv'  BY <2>6 DEF StoreInv, SourceInv
  <2>11. VersionInv'  BY <1>u, <2>3, <2>6 DEF VersionInv
  <2> QED  BY <1>s, <2>6, <2>8, <2>9, <2>10, <2>11 DEF StoreInv
<1>5. ASSUME NEW kind \in {"tier", "level"}, NEW l, NEW src, NEW nxt, Starts(kind, l, src, nxt)
      PROVE  StoreInv'
  <2> DEFINE M == src \cup nxt
  <2>1. M \in SUBSET Handle /\ \A h \in M : h.pos < next_pos
    BY <1>5, <1>t DEF Starts, SSTInv, IndexInv, Numbered, Known
  <2>2. Merging' = M /\ Known' = level_sstables /\ job'.out = Merged(M)
    BY <1>5 DEF Starts, Merging, Known
  <2>3. Known = level_sstables
    BY <1>5 DEF Starts, SSTInv, IndexInv, JobStage, Known
  <2>4. M \subseteq level_sstables  BY <1>5 DEF Starts
  <2>5. (\A h \in src : h.lvl = l) /\ (\A h \in nxt : h.lvl = l + 1)
    BY <1>5 DEF Starts, Level, OldestDown
  <2> HIDE DEF M
  <2>6. Tidy(job'.out) /\ \A k \in Keys : Has(job'.out, k) => \E h \in M : h.tbl[k] = job'.out[k]
    BY <1>t, <2>1, <2>2, MergedFrom
  <2>7. TidyInv'  BY <1>5, <2>2, <2>3, <2>6 DEF Starts, StoreInv, TidyInv
  <2>8. AccountInv'
    <3>1. \A h \in level_sstables : KeysOf(h.tbl) # {} => FileOf(h) \in disk
      BY DEF SSTInv, IndexInv, Filed
    <3> QED  BY <1>5, <2>2, <2>3, <2>4, <3>1 DEF Starts, StoreInv, AccountInv
  <2>9. SourceInv'  BY <1>5, <2>2, <2>5, <2>6 DEF Starts, SourceInv
  <2>10. VersionInv'  BY <1>5, <1>u DEF Starts, StoreInv, VersionInv
  <2> QED  BY <1>s, <1>5, <2>7, <2>8, <2>9, <2>10 DEF Starts, StoreInv
<1>6. CASE merge_sstables \/ normalize_sstables
  <2>1. job.pc = "check"  BY <1>6 DEF merge_sstables, normalize_sstables
  <2>2. Merging = {} /\ Known = level_sstables
    BY <2>1 DEF SSTInv, IndexInv, JobStage, Known
  <2>3. CASE Rests
    <3>1. Known' = Known  BY <2>2, <2>3 DEF Rests, Known, Merging
    <3> QED  BY <1>2, <2>1, <2>3, <3>1 DEF StoreInv, AccountInv
  <2>4. CASE ~Rests
    BY <1>5, <1>6, <2>4, CheckStep
  <2> QED  BY <2>3, <2>4
<1>7. CASE drop_next_level \/ drop_level
  <2>1. /\ level_sstables' \subseteq level_sstables /\ disk' = disk /\ truth' = truth
        /\ level_sstables \ Merging \subseteq level_sstables'
        /\ job.pc \in {"drop_next", "drop"} /\ next_seq' = next_seq
    BY <1>7 DEF drop_next_level, drop_level, Merging
  <2>2. /\ job'.pc \in {"drop", "unlink"} /\ job'.kind = job.kind /\ job'.lvl = job.lvl
        /\ job'.src = job.src /\ job'.nxt = job.nxt /\ job'.out = job.out
        /\ job'.norm = job.norm
    BY <1>7, <1>t DEF drop_next_level, drop_level, Job
  <2>3. Merging' = Merging /\ Known' = Known
    BY <2>1, <2>2 DEF Merging, Known
  <2>4. TidyInv'  BY <2>1, <2>2, <2>3 DEF StoreInv, TidyInv
  <2>5. AccountInv'  BY <2>1, <2>2, <2>3 DEF StoreInv, AccountInv
  <2>6. SourceInv'  BY <2>2 DEF StoreInv, SourceInv
  <2>7. VersionInv'  BY <1>u, <2>1, <2>2 DEF StoreInv, VersionInv
  <2> QED  BY <1>s, <2>2, <2>4, <2>5, <2>6, <2>7 DEF StoreInv
<1>8. CASE unlink_file
  <2>1. /\ level_sstables' = level_sstables /\ disk' \subseteq disk /\ truth' = truth
        /\ job' = job /\ job.pc = "unlink" /\ next_seq' = next_seq
    BY <1>8 DEF unlink_file, indexVars
  <2>2. Merging' = Merging /\ Known' = Known  BY <2>1 DEF Merging, Known
  <2>3. TidyInv'  BY <2>1, <2>2 DEF StoreInv, TidyInv
  <2>4. AccountInv'  BY <2>1, <2>2 DEF StoreInv, AccountInv
  <2>5. SourceInv'  BY <2>1 DEF StoreInv, SourceInv
  <2>6. VersionInv'  BY <1>u, <2>1 DEF StoreInv, VersionInv
  <2> QED  BY <1>s, <2>1, <2>3, <2>4, <2>5, <2>6 DEF StoreInv
<1>9. CASE merge_done
  <2>1. /\ level_sstables' = level_sstables /\ disk' = disk /\ truth' = truth
        /\ job.pc = "unlink" /\ Unlinkable = {}
    BY <1>9 DEF merge_done, indexVars
  <2>2. /\ job'.pc = "check" /\ job'.src = {} /\ job'.nxt = {} /\ job'.out = EmptyTable
        /\ job'.norm = job.norm
    <3> DEFINE todo == (IF job.kind = "tier" THEN <<job.lvl + 1>>
                        ELSE <<job.lvl, job.lvl + 1>>) \o job.todo
    <3>1. job' = [job EXCEPT !.pc = "check", !.src = {}, !.nxt = {}, !.out = EmptyTable,
                             !.todo = todo]
      BY <1>t, <1>9 DEF merge_done, Job
    <3> HIDE DEF todo
    <3> QED  BY <1>t, <3>1 DEF Job
  <2>3. Merging' = {} /\ Known' = level_sstables  BY <2>1, <2>2 DEF Merging, Known
  <2>4. \A f \in disk : \E h \in level_sstables : f = FileOf(h)
    BY <2>1 DEF StoreInv, AccountInv, Known, Merging, Unlinkable
  <2>5. TidyInv'  BY <1>e, <2>1, <2>2, <2>3 DEF StoreInv, TidyInv, Known
  <2>6. AccountInv'  BY <2>1, <2>3, <2>4 DEF AccountInv
  <2>7. SourceInv'  BY <2>2 DEF SourceInv
  <2>8. VersionInv'  BY <1>u, <2>1, <2>2 DEF StoreInv, VersionInv
  <2> QED  BY <1>s, <2>2, <2>5, <2>6, <2>7, <2>8 DEF StoreInv
<1>10. CASE merge_return
  <2>1. Rests  BY <1>10 DEF merge_return, indexVars, Rests, IdleJob
  <2>2. job.pc = "check"  BY <1>10 DEF merge_return
  <2>3. Known' = Known
    BY <2>1, <2>2 DEF Rests, Known, Merging, SSTInv, IndexInv, JobStage
  <2> QED  BY <1>2, <2>1, <2>2, <2>3 DEF StoreInv, AccountInv
<1> QED
  BY <1>1, <1>3, <1>4, <1>6, <1>7, <1>8, <1>9, <1>10, <1>11 DEF Compact, CompactionStep

(* Every step keeps the store part. *)
LEMMA StoreInvNext == Inv /\ StoreInv /\ [Next]_vars => StoreInv'
<1> SUFFICES ASSUME Inv, StoreInv, [Next]_vars PROVE StoreInv'  OBVIOUS
<1>0. SSTInv /\ next_ver \in Nat \ {0}  BY DEF Inv, TypeOK, SSTInv
<1>1. CASE Flush
  <2>1. PICK ks \in SUBSET Keys, ds \in SUBSET Keys : create_new_sstable(FlushedTable(ks, ds))
    BY <1>1 DEF Flush, FlushedTable
  <2>2. \A k \in Keys : FlushedTable(ks, ds)[k].ver \in {0, next_ver}
    BY DEF FlushedTable, NoEntry
  <2>3. /\ disk' = disk /\ truth' = truth /\ level_sstables' = level_sstables
        /\ job'.out = FlushedTable(ks, ds) /\ job'.pc = "write" /\ job'.kind = "flush"
        /\ job'.src = {} /\ job'.nxt = {} /\ ~job'.norm /\ strategy' = strategy
        /\ smeta' = smeta /\ job.pc = "idle"
    BY <2>1 DEF create_new_sstable, indexVars, IdleJob
  <2>4. next_ver' = next_ver + 1 /\ mixed' = mixed  BY <1>1 DEF Flush
  <2>5. Merging' = {} /\ Known' = level_sstables /\ Known = level_sstables
    BY <1>0, <2>3 DEF Merging, Known, SSTInv, IndexInv, JobStage
  <2>6. TidyInv'  BY <2>3, <2>5 DEF StoreInv, TidyInv
  <2>7. AccountInv'  BY <2>3, <2>5 DEF StoreInv, AccountInv
  <2>8. SourceInv'  BY <2>3 DEF SourceInv
  <2>9. SteadyInv'  BY <2>3, <2>4 DEF StoreInv, SteadyInv
  <2>10. VersionInv'
    <3> SUFFICES ASSUME NEW k \in Keys
                 PROVE  /\ truth[k].ver < next_ver + 1
                        /\ job'.out[k].ver < next_ver + 1
                        /\ Has(job'.out, k) => truth[k].ver < job'.out[k].ver
      BY <2>3, <2>4 DEF VersionInv
    <3>1. truth[k].ver < next_ver /\ truth[k].ver \in Nat
      BY <1>0 DEF StoreInv, VersionInv, SSTInv, SSTTypeOK, Table, Entry
    <3>2. job'.out[k].ver \in {0, next_ver}  BY <2>2, <2>3
    <3> QED  BY <1>0, <3>1, <3>2 DEF Has
  <2> QED  BY <2>6, <2>7, <2>8, <2>9, <2>10 DEF StoreInv
<1>2. CASE Compact
  BY <1>0, <1>2, CompactStore
<1>3. CASE Crash
  <2>1. PICK st \in Strategies : load_all(st) /\ mixed' = (mixed \/ (st # strategy /\ st = "level"))
    BY <1>3 DEF Crash
  <2>2. /\ disk' = disk /\ level_sstables' = Loaded /\ strategy' = st /\ smeta' = smeta
        /\ job'.src = {} /\ job'.nxt = {} /\ job'.kind = "flush" /\ job'.pc \in {"idle", "check"}
        /\ (st = smeta => ~job'.norm)
        /\ truth' = IF job.pc = "install" /\ job.kind = "flush"
                    THEN Overwrite(truth, job.out) ELSE truth
    BY <2>1 DEF load_all, IdleJob
  <2>3. next_ver' = next_ver  BY <1>3 DEF Crash
  <2>4. Merging' = {} /\ Known' = Loaded  BY <2>2 DEF Merging, Known
  <2>5. \A f \in disk : \E h \in Loaded : f = FileOf(h)
    <3> TAKE f \in disk
    <3>1. f = [seq |-> f.seq, lvl |-> f.lvl, tbl |-> f.tbl]
      BY <1>0 DEF SSTInv, SSTTypeOK, File
    <3> DEFINE h == [seq |-> f.seq, lvl |-> f.lvl, tbl |-> f.tbl, pos |-> f.seq]
    <3>2. h \in Loaded  BY DEF Loaded
    <3>3. h.seq = f.seq /\ h.lvl = f.lvl /\ h.tbl = f.tbl  OBVIOUS
    <3> HIDE DEF h
    <3>4. f = FileOf(h)  BY <3>1, <3>3 DEF FileOf
    <3> QED  BY <3>2, <3>4
  <2>6. TidyInv'  BY <2>2, <2>4 DEF StoreInv, TidyInv, Loaded
  <2>7. AccountInv'  BY <2>2, <2>4, <2>5 DEF AccountInv
  <2>8. SourceInv'  BY <2>2 DEF SourceInv
  <2>9. SteadyInv'
    <3>1. CASE st = "level" /\ ~mixed'
      <4>1. strategy = "level" /\ ~mixed  BY <2>1, <3>1
      <4>2. smeta = "level"  BY <4>1 DEF StoreInv, SteadyInv
      <4> QED  BY <2>2, <3>1, <4>2 DEF SteadyInv
    <3>2. CASE ~(st = "level" /\ ~mixed')  BY <2>2, <3>2 DEF SteadyInv
    <3> QED  BY <3>1, <3>2
  <2>10. VersionInv'
    <3>1. ASSUME NEW k \in Keys PROVE truth'[k].ver < next_ver
      <4>1. CASE job.pc = "install" /\ job.kind = "flush"
        BY <2>2, <4>1 DEF StoreInv, VersionInv, Overwrite
      <4>2. CASE ~(job.pc = "install" /\ job.kind = "flush")
        BY <2>2, <4>2 DEF StoreInv, VersionInv
      <4> QED  BY <4>1, <4>2
    <3> QED  BY <2>2, <2>3, <3>1 DEF VersionInv
  <2> QED  BY <2>6, <2>7, <2>8, <2>9, <2>10 DEF StoreInv
<1>4. CASE UNCHANGED <<sstVars, next_ver, mixed>>
  <2>1. TidyInv'  BY <1>4 DEF sstVars, StoreInv, TidyInv, Known, Merging
  <2>2. AccountInv'  BY <1>4 DEF sstVars, StoreInv, AccountInv, Known, Merging, Target
  <2>3. SourceInv'  BY <1>4 DEF sstVars, StoreInv, SourceInv, Merging
  <2>4. SteadyInv' /\ VersionInv'  BY <1>4 DEF sstVars, StoreInv, SteadyInv, VersionInv
  <2> QED  BY <2>1, <2>2, <2>3, <2>4 DEF StoreInv
<1> QED
  BY <1>1, <1>2, <1>3, <1>4
  DEF Next, vars, GetBegin, GetLevel, GetEnd, ScanBegin, ScanLevel, ScanEnd

-----------------------------------------------------------------------------
(* The lookup part is inductive. *)

(* The index is ordered, and so is it with the table that is coming in. *)
LEMMA IndexOrdered ==
    ASSUME SSTInv
    PROVE  /\ Ordered(Known) /\ Ordered(level_sstables)
           /\ \A h \in level_sstables : h.pos < next_pos /\ h.lvl <= max_level
<1>1. Known \subseteq Handle
  BY DEF SSTInv, SSTTypeOK, Job, Known, Merging
<1>2. \A h \in Known : h.pos < next_pos /\ h.lvl <= max_level
  BY DEF SSTInv, IndexInv, Numbered
<1>3. ASSUME NEW g \in Known, NEW h \in Known, g.pos = h.pos PROVE g = h
  <2>1. g.seq \in Nat /\ h.seq \in Nat /\ g.pos \in Nat /\ h.pos \in Nat
    BY <1>1 DEF Handle
  <2>2. ~(g.pos < h.pos) /\ ~(h.pos < g.pos)  BY <1>3, <2>1
  <2>3. ~(g.seq < h.seq) /\ ~(h.seq < g.seq)
    BY <2>2 DEF SSTInv, IndexInv, Numbered
  <2>4. g.seq = h.seq  BY <2>1, <2>3
  <2> QED  BY <2>4 DEF SSTInv, IndexInv, Numbered
<1>4. Ordered(Known)
  BY <1>1, <1>2, <1>3 DEF Ordered, SSTInv, SSTTypeOK
<1>5. level_sstables \in SUBSET Known  BY DEF Known
<1> QED  BY <1>2, <1>4, <1>5, OrderedPart

(* What a lookup finds is decided when the merge starts. *)
LEMMA StartSearch ==
    ASSUME SSTInv, DataInv, StoreInv, SearchInv, ~interrupted, ~mixed,
           UNCHANGED <<interrupted, mixed>>,
           NEW kind \in {"tier", "level"}, NEW l, NEW src, NEW nxt, Starts(kind, l, src, nxt)
    PROVE  SearchInv' /\ PassInv'
<1> DEFINE L == level_sstables
           M == src \cup nxt
           X == Coming'
<1>s. /\ UNCHANGED <<level_sstables, next_pos, next_seq, max_level, disk, truth, strategy>>
      /\ job.pc = "check" /\ l \in Nat /\ l <= max_level
      /\ src \subseteq L /\ nxt \subseteq L
      /\ job'.src = src /\ job'.nxt = nxt /\ job'.lvl = l /\ job'.kind = kind
      /\ job'.out = Merged(M)
      /\ job'.pc = IF KeysOf(job'.out) # {} THEN "write"
                   ELSE IF kind = "tier" THEN "drop" ELSE "drop_next"
  BY DEF Starts
<1>t. L \in SUBSET Handle /\ next_pos \in Nat /\ next_seq \in Nat /\ max_level \in Nat
  BY DEF SSTInv, SSTTypeOK
<1>o. Ordered(L) /\ \A h \in L : h.pos < next_pos /\ h.lvl <= max_level /\ h.lvl \in Nat
  BY <1>t, IndexOrdered DEF Handle
<1>l. \A h \in L : Live(h.tbl) /\ (h.lvl > 0 => Tidy(h.tbl))
  BY DEF DataInv, StoreInv, TidyInv, Known
<1>g. Good(L, truth, strategy)  BY DEF SearchInv
<1>m. M \in SUBSET L /\ Merged(M) \in Table
  <2>1. M \in SUBSET Handle /\ \A h \in M : h.pos < next_pos  BY <1>s, <1>t, <1>o
  <2> HIDE DEF M
  <2>2. Merged(M) \in Table  BY <1>t, <2>1, MergedResult
  <2> QED  BY <1>s, <2>2 DEF M
<1>1. Output(L, l, M, X)
  <2> DEFINE x == [seq |-> next_seq, lvl |-> l + 1, tbl |-> Merged(M), pos |-> next_pos]
  <2>1. x \in Handle /\ x.lvl = l + 1 /\ x.tbl = Merged(M) /\ x.pos = next_pos
    <3> HIDE DEF M
    <3> QED  BY <1>s, <1>t, <1>m DEF Handle
  <2>2. CASE KeysOf(Merged(M)) # {}
    <3>1. job'.pc = "write" /\ job'.kind # "flush"  BY <1>s, <2>2
    <3>2. X = {x}  BY <1>s, <3>1 DEF Coming, NewTable, Target
    <3> HIDE DEF X, x, M
    <3> QED  BY <1>o, <2>1, <3>2 DEF Output
  <2>3. CASE KeysOf(Merged(M)) = {}
    <3>1. job'.pc \in {"drop", "drop_next"}  BY <1>s, <2>3
    <3>2. X = {}  BY <3>1 DEF Coming
    <3> HIDE DEF X, M
    <3> QED  BY <2>3, <3>2 DEF Output
  <2> QED  BY <2>2, <2>3
<1>2. Image' = L \cup X /\ Merging' = M
  <2>1. Merging' = M  BY <1>s DEF Merging
  <2> HIDE DEF X
  <2>2. Image' = level_sstables' \cup Merging' \cup X  BY DEF Image, X
  <2> QED  BY <1>s, <2>1, <2>2
<1>3. /\ Working'
      /\ \A S : Stage(S)' => OnTheWay(S, L, src, nxt, X)
  <2> HIDE DEF X
  <2>1. Working'  BY <1>s DEF Working
  <2>2. src \cap nxt = {}
    <3>1. (\A h \in src : h.lvl = l) /\ (\A h \in nxt : h.lvl = l + 1)
      BY DEF Starts, Level, OldestDown
    <3> QED  BY <1>s, <3>1
  <2>3. ASSUME NEW S, Stage(S)' PROVE OnTheWay(S, L, src, nxt, X)
    <3>1. S = (L \cup X) \ {} \/ S = (L \cup X) \ nxt \/ S = (L \cup X) \ M
      BY <1>s, <1>2, <2>3 DEF Stage
    <3>2. src \cap {} = {} /\ {} \subseteq src \cup nxt  OBVIOUS
    <3> QED  BY <2>2, <3>1, <3>2 DEF OnTheWay
  <2> QED  BY <2>1, <2>3
<1>4. \A k \in Kept : MergeOf(L, l, src, nxt, X, k)
  <2> HIDE DEF X
  <2>1. CASE kind = "tier"
    <3>1. src = {h \in L : h.lvl = l} /\ nxt = {}  BY <2>1 DEF Starts, Level
    <3>2. Output(L, l, src \cup {}, X)  BY <1>1, <3>1
    <3> HIDE DEF L, M
    <3> QED  BY <1>o, <1>l, <1>s, <3>1, <3>2, TierMergeOf
  <2>2. CASE kind = "level"
    <3>1. PICK o : src = {o} /\ OldestDown(L, l, o, nxt)  BY <2>2 DEF Starts
    <3>2. strategy = "level"
      BY <2>2, SSTableAssumption DEF Starts, SSTInv, SSTTypeOK
    <3>3. Consistent(L)  BY <1>g, <3>2 DEF Good
    <3>4. Output(L, l, {o} \cup nxt, X)  BY <1>1, <3>1
    <3> HIDE DEF L, M
    <3> QED  BY <1>o, <1>l, <3>1, <3>3, <3>4, OldestMergeOf
  <2> QED  BY <2>1, <2>2
<1>5. ASSUME NEW S, Stage(S)', strategy = "level" PROVE Consistent(S)
  <2> HIDE DEF X
  <2>1. Consistent(L) /\ OnTheWay(S, L, src, nxt, X)  BY <1>3, <1>5, <1>g DEF Good
  <2>2. CASE kind = "tier"
    <3>1. src = {h \in L : h.lvl = l} /\ nxt = {}  BY <2>2 DEF Starts, Level
    <3>2. Output(L, l, src \cup {}, X)  BY <1>1, <3>1
    <3>3. l = max_level
      BY <1>5, <2>2 DEF Starts, StoreInv, SteadyInv
    <3>4. \A h \in L : h.lvl <= l  BY <1>o, <3>3
    <3> HIDE DEF L, M
    <3> QED  BY <1>o, <1>s, <2>1, <3>1, <3>2, <3>4, AgreeTier
  <2>3. CASE kind = "level"
    <3>1. PICK o : src = {o} /\ OldestDown(L, l, o, nxt)  BY <2>3 DEF Starts
    <3>4. Output(L, l, {o} \cup nxt, X) /\ OnTheWay(S, L, {o}, nxt, X)  BY <1>1, <2>1, <3>1
    <3> HIDE DEF L, M
    <3> QED  BY <1>o, <1>l, <2>1, <3>1, <3>4, AgreeMerge
  <2> QED  BY <2>2, <2>3
<1>6. ASSUME NEW S, Stage(S)', NEW k \in Kept PROVE Search(S, k).ver = truth[k].ver
  <2> HIDE DEF X, L, M
  <2>1. k \in Keys  BY DEF Kept
  <2>2. Search(S, k).ver = Search(L, k).ver
    BY <1>o, <1>3, <1>4, <1>6, <2>1, MergeFinds
  <2> QED  BY <1>g, <2>2 DEF Good
<1>7. SearchInv'
  <2>1. Good(level_sstables', truth', strategy')  BY <1>g, <1>s
  <2>2. \A S : Stage(S)' => Good(S, truth', strategy')
    BY <1>s, <1>5, <1>6 DEF Good
  <2> QED  BY <2>1, <2>2 DEF SearchInv
<1>8. PassInv'
  <2> HIDE DEF X
  <2> SUFFICES ASSUME NEW k \in Kept, NEW r \in Nat
               PROVE  /\ \A S : Stage(S)' =>
                            Search(Below(S, r), k).ver = Search(Below(Image', r), k).ver
                      /\ \/ Search(Below(Image', r), k).ver = Search(Below(L, r), k).ver
                         \/ \E o \in src : /\ r = l + 1 /\ Has(o.tbl, k)
                                           /\ Search(Below(Image', r), k).ver = o.tbl[k].ver
    BY <1>s DEF PassInv
  <2>1. k \in Keys /\ Stage(Image)'  BY DEF Kept, Stage
  <2>2. ASSUME NEW S, Stage(S)' PROVE ReadsAs(S, L, l, src, M, k, r)
    <3>1. OnTheWay(S, L, src, nxt, X) /\ MergeOf(L, l, src, nxt, X, k)  BY <1>3, <1>4, <2>2
    <3>2. M = src \cup nxt  OBVIOUS
    <3> HIDE DEF L, M
    <3> QED  BY <1>o, <2>1, <3>1, <3>2, MergeBelow
  <2> USE DEF ReadsAs
  <2> HIDE DEF L, M
  <2>3. CASE r # l + 1 \/ ~Held(src, k)  BY <2>1, <2>2, <2>3
  <2>4. CASE r = l + 1 /\ Held(src, k)  BY <2>1, <2>2, <2>4
  <2> QED  BY <2>3, <2>4
<1> QED  BY <1>7, <1>8

(* A step of a merge under way: the index goes on to the next of its sets. *)
LEMMA MoveStep ==
    ASSUME SSTInv,
           \/ create_from_entries_write /\ job.kind # "flush"
           \/ create_from_entries_install /\ job.kind # "flush"
           \/ drop_next_level \/ drop_level \/ unlink_file
    PROVE  /\ Working /\ Working' /\ Image' = Image /\ Merging' = Merging
           /\ job'.src = job.src /\ job'.nxt = job.nxt /\ job'.lvl = job.lvl
           /\ truth' = truth /\ strategy' = strategy
           /\ level_sstables' = level_sstables \/ Stage(level_sstables')
           /\ job'.pc \in {"write", "install"} =>
                 job.pc = "write" /\ level_sstables' = level_sstables
<1>t. job \in Job /\ next_seq \in Nat \ {0}
  BY DEF SSTInv, SSTTypeOK, Job
<1>j. /\ job.kind = "flush" => job.pc \in {"idle", "write", "install", "check"}
      /\ job.pc \in {"write", "install", "drop_next"} => Merging \subseteq level_sstables
      /\ job.pc = "drop" => job.src \subseteq level_sstables /\ job.nxt \cap level_sstables = {}
  BY DEF SSTInv, IndexInv, JobStage
<1>1. CASE create_from_entries_write /\ job.kind # "flush"
  <2>1. /\ job'.pc = "install" /\ job'.kind = job.kind /\ job'.lvl = job.lvl
        /\ job'.src = job.src /\ job'.nxt = job.nxt /\ job'.out = job.out
        /\ job.pc = "write"
    BY <1>1, <1>t DEF create_from_entries_write, Job
  <2>2. /\ level_sstables' = level_sstables /\ truth' = truth /\ strategy' = strategy
        /\ next_pos' = next_pos /\ next_seq' - 1 = next_seq
    BY <1>1, <1>t DEF create_from_entries_write, indexVars
  <2>3. Merging' = Merging  BY <2>1 DEF Merging
  <2>4. Coming' = Coming  BY <2>1, <2>2 DEF Coming, NewTable, Target
  <2>5. Image' = Image  BY <2>2, <2>3, <2>4 DEF Image
  <2> QED  BY <1>1, <2>1, <2>2, <2>3, <2>5 DEF Working
<1>2. CASE create_from_entries_install /\ job.kind # "flush"
  <2>1. /\ job'.pc \in {"drop", "drop_next"} /\ job'.kind = job.kind /\ job'.lvl = job.lvl
        /\ job'.src = job.src /\ job'.nxt = job.nxt /\ job.pc = "install"
    BY <1>2, <1>t DEF create_from_entries_install, Job
  <2>2. /\ level_sstables' = level_sstables \cup Coming /\ truth' = truth
        /\ strategy' = strategy
    BY <1>2, <2>1 DEF create_from_entries_install, Coming, NewTable
  <2>3. Merging' = Merging /\ Coming' = {}  BY <2>1 DEF Merging, Coming
  <2>4. Image' = Image /\ level_sstables' = Image
    BY <1>j, <2>1, <2>2, <2>3 DEF Image
  <2> QED  BY <1>2, <2>1, <2>2, <2>3, <2>4 DEF Working, Stage
<1>3. CASE drop_next_level
  <2>1. /\ job'.pc = "drop" /\ job'.kind = job.kind /\ job'.lvl = job.lvl
        /\ job'.src = job.src /\ job'.nxt = job.nxt /\ job.pc = "drop_next"
    BY <1>3, <1>t DEF drop_next_level, Job
  <2>2. level_sstables' = level_sstables \ job.nxt /\ truth' = truth /\ strategy' = strategy
    BY <1>3 DEF drop_next_level
  <2>3. Merging' = Merging /\ Coming' = {} /\ Coming = {}  BY <2>1 DEF Merging, Coming
  <2>4. Image' = Image /\ level_sstables' = Image \ job.nxt
    BY <1>j, <2>1, <2>2, <2>3 DEF Image, Merging
  <2> QED  BY <1>j, <2>1, <2>2, <2>3, <2>4 DEF Working, Stage
<1>4. CASE drop_level
  <2>1. /\ job'.pc = "unlink" /\ job'.kind = job.kind /\ job'.lvl = job.lvl
        /\ job'.src = job.src /\ job'.nxt = job.nxt /\ job.pc = "drop"
    BY <1>4, <1>t DEF drop_level, Job
  <2>2. level_sstables' = level_sstables \ job.src /\ truth' = truth /\ strategy' = strategy
    BY <1>4 DEF drop_level
  <2>3. Merging' = Merging /\ Coming' = {} /\ Coming = {}  BY <2>1 DEF Merging, Coming
  <2>4. Image' = Image /\ level_sstables' = Image \ Merging
    BY <1>j, <2>1, <2>2, <2>3 DEF Image, Merging
  <2> QED  BY <1>j, <2>1, <2>2, <2>3, <2>4 DEF Working, Stage
<1>5. CASE unlink_file
  <2>1. /\ job' = job /\ level_sstables' = level_sstables /\ truth' = truth
        /\ strategy' = strategy /\ job.pc = "unlink"
    BY <1>5 DEF unlink_file, indexVars
  <2>2. Merging' = Merging /\ Coming' = {} /\ Coming = {}  BY <2>1 DEF Merging, Coming
  <2>3. Image' = Image  BY <2>1, <2>2 DEF Image
  <2> QED  BY <1>j, <2>1, <2>2, <2>3 DEF Working
<1> QED  BY <1>1, <1>2, <1>3, <1>4, <1>5

(* Every step of the compaction thread keeps the lookup part. *)
LEMMA CompactSearch ==
    ASSUME SSTInv, DataInv, StoreInv, SearchInv, PassInv, Compact
    PROVE  SearchInv' /\ PassInv'
<1>u. mixed' = mixed /\ interrupted' = interrupted
  BY DEF Compact, CompactionStep, create_from_entries_write, create_from_entries_truncated,
         create_from_entries_fail, create_from_entries_install, merge_sstables, drop_next_level, drop_level,
         unlink_file, merge_done, normalize_sstables, merge_return
<1>0. CASE interrupted \/ mixed  BY <1>0, <1>u DEF SearchInv, PassInv
<1> SUFFICES ASSUME ~interrupted, ~mixed PROVE SearchInv' /\ PassInv'  BY <1>0
<1>g. Good(level_sstables, truth, strategy)  BY DEF SearchInv
<1>t. job \in Job  BY DEF SSTInv, SSTTypeOK
<1>1. ASSUME level_sstables' = level_sstables, truth' = truth, strategy' = strategy, ~Working'
      PROVE  SearchInv' /\ PassInv'
  BY <1>1, <1>g DEF SearchInv, PassInv
<1>2. CASE \/ create_from_entries_write /\ job.kind # "flush"
           \/ create_from_entries_install /\ job.kind # "flush"
           \/ drop_next_level \/ drop_level \/ unlink_file
  <2>1. /\ Working /\ Working' /\ Image' = Image /\ Merging' = Merging
        /\ job'.src = job.src /\ job'.nxt = job.nxt /\ job'.lvl = job.lvl
        /\ truth' = truth /\ strategy' = strategy
        /\ level_sstables' = level_sstables \/ Stage(level_sstables')
        /\ job'.pc \in {"write", "install"} =>
              job.pc = "write" /\ level_sstables' = level_sstables
    BY <1>2, MoveStep
  <2>2. \A S : Stage(S)' <=> Stage(S)  BY <2>1 DEF Stage
  <2>3. \A S : Stage(S) => Good(S, truth, strategy)  BY <2>1 DEF SearchInv
  <2>4. SearchInv'
    <3>1. Good(level_sstables', truth', strategy')  BY <1>g, <2>1, <2>3
    <3>2. \A S : Stage(S)' => Good(S, truth', strategy')  BY <2>1, <2>2, <2>3
    <3> QED  BY <3>1, <3>2 DEF SearchInv
  <2>5. PassInv'
    <3> SUFFICES ASSUME NEW k \in Kept, NEW r \in Nat
                 PROVE  /\ \A S : Stage(S) =>
                              Search(Below(S, r), k).ver = Search(Below(Image, r), k).ver
                        /\ job'.pc \in {"write", "install"} =>
                              \/ Search(Below(Image, r), k).ver =
                                     Search(Below(level_sstables, r), k).ver
                              \/ \E o \in job.src :
                                    /\ r = job.lvl + 1 /\ Has(o.tbl, k)
                                    /\ Search(Below(Image, r), k).ver = o.tbl[k].ver
      BY <2>1, <2>2 DEF PassInv
    <3> QED  BY <2>1 DEF PassInv
  <2> QED  BY <2>4, <2>5
<1>8. CASE create_from_entries_truncated
  <2>1. /\ level_sstables' = level_sstables /\ truth' = truth /\ strategy' = strategy
        /\ next_pos' = next_pos /\ next_seq' = next_seq + 1 /\ next_seq \in Nat
        /\ KeysOf(job.out) \subseteq Frail /\ job.pc = "write"
    BY <1>8 DEF create_from_entries_truncated, indexVars, SSTInv, SSTTypeOK
  <2>2. /\ job'.pc = "install" /\ job'.kind = job.kind /\ job'.lvl = job.lvl
        /\ job'.src = job.src /\ job'.nxt = job.nxt /\ job'.out = EmptyTable
    BY <1>8, <1>t DEF create_from_entries_truncated, Job
  <2>3. CASE job.kind = "flush"  BY <1>1, <2>1, <2>2, <2>3 DEF Working
  <2> SUFFICES ASSUME job.kind # "flush" PROVE SearchInv' /\ PassInv'  BY <2>3
  <2> DEFINE R == level_sstables \cup Merging
             x == NewTable(next_seq)
             y == [x EXCEPT !.tbl = EmptyTable]
  <2>4. /\ x.lvl = y.lvl /\ x.pos = y.pos /\ x.seq = next_seq /\ y.seq = next_seq
        /\ x.tbl = job.out /\ y.tbl = EmptyTable
    BY DEF NewTable
  <2>5. \A k \in Kept : ~Has(x.tbl, k) /\ ~Has(y.tbl, k)
    BY <2>1, <2>4 DEF KeysOf, Kept, Has, EmptyTable, NoEntry
  <2>6. x \notin R /\ y \notin R
    <3>1. \A h \in R : h.seq < next_seq
      BY DEF SSTInv, IndexInv, Numbered, Known
    <3>2. next_seq \in Nat  BY <2>1
    <3> HIDE DEF R, x, y
    <3>3. \A h \in R : h.seq # next_seq  BY <3>1, <3>2
    <3> QED  BY <2>4, <3>3
  <2>7. Coming' = {y}
    <3>1. Coming' = {[seq |-> next_seq, lvl |-> Target(job), tbl |-> EmptyTable,
                      pos |-> next_pos]}
      <4>1. next_seq' - 1 = next_seq  BY <2>1
      <4>2. Target(job)' = Target(job)  BY <2>2 DEF Target
      <4> QED  BY <2>1, <2>2, <4>1, <4>2 DEF Coming, NewTable
    <3> QED  BY <3>1 DEF NewTable
  <2>8. /\ Merging' = Merging /\ Working /\ Working'
        /\ Image = R \cup {x} /\ Image' = R \cup {y}
    <3> HIDE DEF y
    <3> QED  BY <2>1, <2>2, <2>7 DEF Merging, Working, Image, Coming
  <2>9. job.nxt \subseteq R /\ Merging \subseteq R  BY DEF Merging
  <2> HIDE DEF x, y, R
  <2>u. ASSUME NEW Q
        PROVE  /\ \A k \in Kept : Search(Q \cup {x}, k) = Search(Q \cup {y}, k)
               /\ \A k \in Kept, r \in Nat :
                      Search(Below(Q \cup {x}, r), k) = Search(Below(Q \cup {y}, r), k)
               /\ Consistent(Q \cup {x}) => Consistent(Q \cup {y})
    BY <2>4, <2>5, Unheard
  <2>10. ASSUME NEW S, Stage(S)'
         PROVE  \E D : S = (R \ D) \cup {y} /\ Stage((R \ D) \cup {x})
    <3>1. S = (R \ {}) \cup {y} \/ S = (R \ job.nxt) \cup {y} \/ S = (R \ Merging) \cup {y}
      BY <2>2, <2>6, <2>8, <2>9, <2>10 DEF Stage
    <3>2. /\ Stage((R \ {}) \cup {x}) /\ Stage((R \ job.nxt) \cup {x})
          /\ Stage((R \ Merging) \cup {x})
      BY <2>6, <2>8, <2>9 DEF Stage
    <3> QED  BY <3>1, <3>2
  <2>11. ASSUME NEW S, Stage(S)' PROVE Good(S, truth, strategy)
    <3>1. PICK D : S = (R \ D) \cup {y} /\ Stage((R \ D) \cup {x})  BY <2>10, <2>11
    <3>2. Good((R \ D) \cup {x}, truth, strategy)  BY <2>8, <3>1 DEF SearchInv
    <3> QED  BY <2>u, <3>1, <3>2 DEF Good
  <2>12. SearchInv'
    <3>1. Good(level_sstables', truth', strategy')  BY <1>g, <2>1
    <3>2. \A S : Stage(S)' => Good(S, truth', strategy')  BY <2>1, <2>11
    <3> QED  BY <3>1, <3>2 DEF SearchInv
  <2>13. ASSUME NEW k \in Kept, NEW r \in Nat
         PROVE  /\ \A S : Stage(S)' =>
                      Search(Below(S, r), k).ver = Search(Below(Image', r), k).ver
                /\ Search(Below(Image', r), k) = Search(Below(Image, r), k)
    <3>1. Search(Below(Image', r), k) = Search(Below(Image, r), k)
      BY <2>u, <2>8
    <3>2. ASSUME NEW S, Stage(S)'
          PROVE  Search(Below(S, r), k).ver = Search(Below(Image', r), k).ver
      <4>1. PICK D : S = (R \ D) \cup {y} /\ Stage((R \ D) \cup {x})  BY <2>10, <3>2
      <4>2. Search(Below(S, r), k) = Search(Below((R \ D) \cup {x}, r), k)
        BY <2>u, <4>1
      <4>3. Search(Below((R \ D) \cup {x}, r), k).ver = Search(Below(Image, r), k).ver
        BY <2>8, <4>1 DEF PassInv
      <4> QED  BY <3>1, <4>2, <4>3
    <3> QED  BY <3>1, <3>2
  <2>14. PassInv'
    <3> SUFFICES ASSUME NEW k \in Kept, NEW r \in Nat
                 PROVE  /\ \A S : Stage(S)' =>
                              Search(Below(S, r), k).ver = Search(Below(Image', r), k).ver
                        /\ \/ Search(Below(Image', r), k).ver =
                                  Search(Below(level_sstables, r), k).ver
                           \/ \E o \in job.src :
                                 /\ r = job.lvl + 1 /\ Has(o.tbl, k)
                                 /\ Search(Below(Image', r), k).ver = o.tbl[k].ver
      BY <2>1, <2>2 DEF PassInv
    <3>1. \/ Search(Below(Image, r), k).ver = Search(Below(level_sstables, r), k).ver
          \/ \E o \in job.src : /\ r = job.lvl + 1 /\ Has(o.tbl, k)
                               /\ Search(Below(Image, r), k).ver = o.tbl[k].ver
      BY <2>1, <2>8 DEF PassInv
    <3> QED  BY <2>13, <3>1
  <2> QED  BY <2>12, <2>14
<1>3. CASE create_from_entries_write /\ job.kind = "flush"
  <2>1. job'.kind = "flush"  BY <1>3, <1>t DEF create_from_entries_write, Job
  <2> QED  BY <1>1, <1>3, <2>1 DEF create_from_entries_write, indexVars, Working
<1>4. CASE create_from_entries_fail
  <2>1. job'.pc \in {"idle", "check"}
    BY <1>4, <1>t DEF create_from_entries_fail, IdleJob, Job
  <2> QED  BY <1>1, <1>4, <2>1 DEF create_from_entries_fail, indexVars, Working
<1>5. CASE create_from_entries_install /\ job.kind = "flush"
  <2> DEFINE x == NewTable(next_seq - 1)
  <2>1. /\ level_sstables' = level_sstables \cup {x} /\ truth' = Overwrite(truth, job.out)
        /\ strategy' = strategy /\ job'.kind = "flush" /\ job.pc = "install"
    BY <1>5 DEF create_from_entries_install, IdleJob, NewTable, Target
  <2>2. x \in Handle /\ x.lvl = 0 /\ x.pos = next_pos /\ x.tbl = job.out
    <3>1. next_seq - 1 \in Nat /\ next_pos \in Nat /\ job.out \in Table
      BY <1>t DEF SSTInv, SSTTypeOK, Job
    <3> QED  BY <1>5, <3>1 DEF NewTable, Target, Handle
  <2> HIDE DEF x
  <2>3. Ordered(level_sstables) /\ \A h \in level_sstables : h.pos < x.pos
    BY <2>2, IndexOrdered
  <2>4. \A k \in Kept : Search(level_sstables', k).ver = truth'[k].ver
    <3> TAKE k \in Kept
    <3>1. k \in Keys  BY DEF Kept
    <3>2. Search(level_sstables', k) =
              IF Has(x.tbl, k) THEN x.tbl[k] ELSE Search(level_sstables, k)
      BY <2>1, <2>2, <2>3, <3>1, OnTop
    <3>3. truth'[k] = IF Has(job.out, k) THEN job.out[k] ELSE truth[k]
      BY <2>1, <3>1 DEF Overwrite
    <3> QED  BY <1>g, <2>2, <3>2, <3>3 DEF Good
  <2>5. strategy' = "level" => Consistent(level_sstables')
    BY <1>g, <2>1, <2>2, <2>3, OnTop DEF Good
  <2> QED  BY <2>1, <2>4, <2>5 DEF SearchInv, PassInv, Good, Working
<1>6. CASE merge_sstables \/ normalize_sstables
  <2>1. CASE Rests  BY <1>1, <2>1 DEF Rests, Working
  <2>2. CASE ~Rests  BY <1>u, <1>6, <2>2, CheckStep, StartSearch
  <2> QED  BY <2>1, <2>2
<1>7. CASE merge_done \/ merge_return
  <2>1. job'.pc \in {"idle", "check"}
    <3>1. CASE merge_done
      <4> DEFINE todo == (IF job.kind = "tier" THEN <<job.lvl + 1>>
                          ELSE <<job.lvl, job.lvl + 1>>) \o job.todo
      <4>1. job' = [job EXCEPT !.pc = "check", !.src = {}, !.nxt = {}, !.out = EmptyTable,
                               !.todo = todo]
        BY <1>t, <3>1 DEF merge_done, Job
      <4> HIDE DEF todo
      <4> QED  BY <1>t, <4>1 DEF Job
    <3>2. CASE merge_return  BY <3>2 DEF merge_return, IdleJob
    <3> QED  BY <1>7, <3>1, <3>2
  <2> QED  BY <1>1, <1>7, <2>1 DEF merge_done, merge_return, indexVars, Working
<1> QED
  BY <1>2, <1>3, <1>4, <1>5, <1>6, <1>7, <1>8 DEF Compact, CompactionStep

(* load_all after a crash that cut no unlinking short finds the files of one  *)
(* of the sets in which lookups were right.                                   *)
LEMMA RestartSet ==
    ASSUME SSTInv, StoreInv,
           ~(/\ job.pc = "unlink" /\ Unlinkable # {}
             /\ \E h \in Merging \ Unlinkable : KeysOf(h.tbl) # {})
    PROVE  \E S : /\ Loaded = Reload(Full(S))
                  /\ \/ S = level_sstables /\ job.pc # "install"
                     \/ S = level_sstables \cup Coming /\ job.pc = "install"
                     \/ S = Image /\ Working /\ S = Known /\ job.pc # "install"
<1>j. /\ job.pc \in {"idle", "check"} => Merging = {}
      /\ job.kind = "flush" => job.pc \in {"idle", "write", "install", "check"}
      /\ job.pc \in {"write", "install"} => Merging \subseteq level_sstables
      /\ job.pc \in JobPC
  BY DEF SSTInv, IndexInv, JobStage, SSTTypeOK, Job
<1>d. \A h \in level_sstables : KeysOf(h.tbl) # {} => FileOf(h) \in disk
  BY DEF SSTInv, IndexInv, Filed
<1>1. ASSUME NEW U, \A f \in disk : \E h \in U : f = FileOf(h),
             \A h \in U : KeysOf(h.tbl) # {} => FileOf(h) \in disk
      PROVE  Loaded = Reload(Full(U))
  <2> DEFINE S == Full(U)
  <2>0. (\A f \in disk : \E h \in S : f = FileOf(h)) /\ \A h \in S : FileOf(h) \in disk
    <3>1. \A f \in disk : KeysOf(f.tbl) # {}  BY DEF SSTInv, IndexInv, Filed
    <3>2. \A h : FileOf(h).tbl = h.tbl  BY DEF FileOf
    <3> QED  BY <1>1, <3>1, <3>2 DEF Full
  <2> HIDE DEF S
  <2>1. \A f \in disk, h \in S : f = FileOf(h) =>
            f.seq = h.seq /\ f.lvl = h.lvl /\ f.tbl = h.tbl
    BY DEF FileOf
  <2>2. Loaded \subseteq Reload(S)  BY <2>0, <2>1 DEF Loaded, Reload, Reloaded
  <2>3. Reload(S) \subseteq Loaded
    <3> SUFFICES ASSUME NEW h \in S PROVE Reloaded(h) \in Loaded  BY DEF Reload
    <3>1. FileOf(h) \in disk /\ FileOf(h).seq = h.seq /\ FileOf(h).lvl = h.lvl
          /\ FileOf(h).tbl = h.tbl
      BY <2>0 DEF FileOf
    <3> HIDE DEF FileOf
    <3> QED  BY <3>1 DEF Loaded, Reloaded
  <2> QED  BY <2>2, <2>3 DEF S
<1>2. CASE job.pc \in {"idle", "check", "write"}
  <2>1. Known = level_sstables  BY <1>j, <1>2 DEF Known
  <2>2. \A f \in disk : \E h \in level_sstables : f = FileOf(h)
    BY <1>2, <2>1 DEF StoreInv, AccountInv
  <2> QED  BY <1>1, <1>2, <1>d, <2>2
<1>3. CASE job.pc = "install"
  <2> DEFINE x == NewTable(next_seq - 1)
  <2>1. Known = level_sstables /\ Coming = {x}  BY <1>j, <1>3 DEF Known, Coming
  <2>2. FileOf(x) = [seq |-> next_seq - 1, lvl |-> Target(job), tbl |-> job.out]
    BY DEF FileOf, NewTable
  <2>x. x.tbl = job.out  BY DEF NewTable
  <2> HIDE DEF x
  <2>3. KeysOf(x.tbl) # {} => FileOf(x) \in disk
    BY <1>3, <2>2, <2>x DEF SSTInv, IndexInv, JobStage
  <2>4. \A f \in disk : \E h \in level_sstables \cup Coming : f = FileOf(h)
    BY <2>1, <2>2 DEF StoreInv, AccountInv
  <2>5. Loaded = Reload(Full(level_sstables \cup Coming))
    BY <1>1, <1>d, <2>1, <2>3, <2>4
  <2> QED  BY <1>3, <2>5
<1>4. CASE \/ job.pc \in {"drop_next", "drop"}
           \/ /\ job.pc = "unlink"
              /\ \A h \in Merging \ Unlinkable : KeysOf(h.tbl) = {}
  <2>1. Working /\ Coming = {}  BY <1>j, <1>4 DEF Working, Coming
  <2>2. Image = Known  BY <2>1 DEF Image, Known
  <2>3. \A h \in Merging : KeysOf(h.tbl) # {} => FileOf(h) \in disk
    BY <1>4 DEF StoreInv, AccountInv, Unlinkable, Merging
  <2>4. \A f \in disk : \E h \in Known : f = FileOf(h)
    BY <1>4 DEF StoreInv, AccountInv
  <2>5. Loaded = Reload(Full(Known))  BY <1>1, <1>d, <2>3, <2>4 DEF Known
  <2> QED  BY <1>4, <2>1, <2>2, <2>5
<1>5. CASE job.pc = "unlink" /\ Unlinkable = {}
  <2>1. \A f \in disk : \E h \in level_sstables : f = FileOf(h)
    BY <1>5 DEF StoreInv, AccountInv, Known, Merging, Unlinkable
  <2> QED  BY <1>1, <1>5, <1>d, <2>1
<1> QED  BY <1>j, <1>2, <1>3, <1>4, <1>5 DEF JobPC

(* In the order of positions and of sequence numbers, a table that is coming  *)
(* in is the last one.                                                        *)
LEMMA RestartOrdered ==
    ASSUME SSTInv, NEW S,
           \/ S \subseteq Known
           \/ S = level_sstables \cup Coming /\ job.pc = "install"
    PROVE  /\ Ordered(S) /\ \A h \in S : h.seq < next_seq
           /\ \A h, g \in S : h.pos < g.pos <=> h.seq < g.seq
           /\ \A h, g \in S : h.seq = g.seq => h = g
<1> DEFINE x == NewTable(next_seq - 1)
<1>t. /\ Known \subseteq Handle /\ next_pos \in Nat /\ next_seq \in Nat /\ next_seq - 1 \in Nat
      /\ job.out \in Table /\ Target(job) \in Nat
  BY DEF SSTInv, SSTTypeOK, Job, Known, Merging, Target
<1>k. \A h \in Known : /\ h.seq < next_seq /\ h.pos < next_pos
                       /\ h.seq \in Nat /\ h.pos \in Nat
  BY <1>t DEF SSTInv, IndexInv, Numbered, Handle
<1>o. /\ \A h, g \in Known : h.pos < g.pos <=> h.seq < g.seq
      /\ \A h, g \in Known : h.seq = g.seq => h = g
  BY DEF SSTInv, IndexInv, Numbered
<1>x. x \in Handle /\ x.seq = next_seq - 1 /\ x.pos = next_pos
  BY <1>t DEF NewTable, Handle
<1> HIDE DEF x
<1>1. /\ S \subseteq Handle /\ \A h \in S : h.seq < next_seq /\ h.pos < next_pos + 1
      /\ \A h, g \in S : h.pos < g.pos <=> h.seq < g.seq
      /\ \A h, g \in S : h.seq = g.seq => h = g
  <2>1. CASE S \subseteq Known  BY <1>t, <1>k, <1>o, <2>1
  <2>2. CASE S = level_sstables \cup Coming /\ job.pc = "install"
    <3>1. S \subseteq Known \cup {x}  BY <2>2 DEF Coming, Known, x
    <3>2. \A h \in Known : h.seq < next_seq - 1 /\ h.pos < next_pos
      BY <1>k, <2>2 DEF SSTInv, IndexInv, JobStage
    <3>3. S \subseteq Handle /\ \A h \in S : h.seq < next_seq /\ h.pos < next_pos + 1
      BY <1>t, <1>k, <1>x, <3>1
    <3>4. ASSUME NEW h \in S, NEW g \in S
          PROVE  (h.pos < g.pos <=> h.seq < g.seq) /\ (h.seq = g.seq => h = g)
      <4>1. CASE h \in Known /\ g \in Known  BY <1>o, <4>1
      <4>2. CASE h = x /\ g = x  BY <1>t, <1>x, <4>2
      <4>3. CASE h = x /\ g \in Known
        <5>1. ~(h.pos < g.pos) /\ ~(h.seq < g.seq) /\ h.seq # g.seq
          BY <1>t, <1>k, <1>x, <3>2, <4>3
        <5> QED  BY <5>1
      <4>4. CASE h \in Known /\ g = x
        <5>1. h.pos < g.pos /\ h.seq < g.seq /\ h.seq # g.seq
          BY <1>t, <1>k, <1>x, <3>2, <4>4
        <5> QED  BY <5>1
      <4> QED  BY <3>1, <4>1, <4>2, <4>3, <4>4
    <3> QED  BY <3>3, <3>4
  <2> QED  BY <2>1, <2>2
<1>2. ASSUME NEW g \in S, NEW h \in S, g.pos = h.pos PROVE g = h
  <2>1. g.seq \in Nat /\ h.seq \in Nat /\ g.pos \in Nat /\ h.pos \in Nat
    BY <1>1 DEF Handle
  <2>2. ~(g.pos < h.pos) /\ ~(h.pos < g.pos)  BY <1>2, <2>1
  <2>3. ~(g.seq < h.seq) /\ ~(h.seq < g.seq)  BY <1>1, <2>2
  <2>4. g.seq = h.seq  BY <2>1, <2>3
  <2> QED  BY <1>1, <2>4
<1>3. next_pos + 1 \in Nat  BY <1>t
<1> QED  BY <1>1, <1>2, <1>3 DEF Ordered

(* A restart finds what the process that died would have found. *)
LEMMA CrashSearch ==
    ASSUME SSTInv, StoreInv, SearchInv, Crash
    PROVE  SearchInv' /\ PassInv'
<1>1. PICK st \in Strategies : load_all(st) /\ mixed' = (mixed \/ (st # strategy /\ st = "level"))
  BY DEF Crash
<1>2. /\ level_sstables' = Loaded /\ strategy' = st /\ job'.kind = "flush"
      /\ truth' = IF job.pc = "install" /\ job.kind = "flush"
                  THEN Overwrite(truth, job.out) ELSE truth
      /\ interrupted' = (\/ interrupted
                         \/ /\ job.pc = "unlink" /\ Unlinkable # {}
                            /\ \E h \in Merging \ Unlinkable : KeysOf(h.tbl) # {})
  BY <1>1 DEF load_all, IdleJob, Merging
<1>3. ~Working'  BY <1>2 DEF Working
<1>4. PassInv'  BY <1>3 DEF PassInv
<1> SUFFICES ASSUME ~interrupted', ~mixed' PROVE Good(Loaded, truth', strategy')
  BY <1>2, <1>3, <1>4 DEF SearchInv
<1>5. /\ ~interrupted /\ ~mixed /\ (st = "level" => strategy = "level")
      /\ ~(/\ job.pc = "unlink" /\ Unlinkable # {}
           /\ \E h \in Merging \ Unlinkable : KeysOf(h.tbl) # {})
  BY <1>1, <1>2
<1>g. /\ Good(level_sstables, truth, strategy)
      /\ Working => \A S : Stage(S) => Good(S, truth, strategy)
  BY <1>5 DEF SearchInv
<1>6. PICK S : /\ Loaded = Reload(Full(S))
               /\ \/ S = level_sstables /\ job.pc # "install"
                  \/ S = level_sstables \cup Coming /\ job.pc = "install"
                  \/ S = Image /\ Working /\ S = Known /\ job.pc # "install"
  BY <1>5, RestartSet
<1>7. /\ Ordered(S) /\ \A h \in S : h.seq < next_seq
      /\ \A h, g \in S : h.pos < g.pos <=> h.seq < g.seq
      /\ \A h, g \in S : h.seq = g.seq => h = g
  <2>1. S \subseteq Known \/ (S = level_sstables \cup Coming /\ job.pc = "install")
    BY <1>6 DEF Known
  <2> QED  BY <2>1, RestartOrdered
<1>8. Good(S, truth', strategy)
  <2>1. CASE S = level_sstables /\ job.pc # "install"  BY <1>2, <1>g, <2>1
  <2>2. CASE S = Image /\ Working /\ job.pc # "install"
    BY <1>2, <1>g, <2>2 DEF Stage
  <2>3. CASE S = level_sstables \cup Coming /\ job.pc = "install" /\ job.kind # "flush"
    <3>1. Merging \subseteq level_sstables  BY <2>3 DEF SSTInv, IndexInv, JobStage
    <3>2. S = Image /\ Working  BY <2>3, <3>1 DEF Image, Working
    <3> QED  BY <1>2, <1>g, <2>3, <3>2 DEF Stage
  <2>4. CASE S = level_sstables \cup Coming /\ job.pc = "install" /\ job.kind = "flush"
    <3> DEFINE x == NewTable(next_seq - 1)
    <3>1. S = level_sstables \cup {x}  BY <2>4 DEF Coming
    <3>2. x \in Handle /\ x.lvl = 0 /\ x.pos = next_pos /\ x.tbl = job.out
      <4>1. next_seq - 1 \in Nat /\ next_pos \in Nat /\ job.out \in Table
        BY DEF SSTInv, SSTTypeOK, Job
      <4> QED  BY <2>4, <4>1 DEF NewTable, Target, Handle
    <3> HIDE DEF x
    <3>3. Ordered(level_sstables) /\ \A h \in level_sstables : h.pos < x.pos
      BY <3>2, IndexOrdered
    <3>4. \A k \in Kept : Search(S, k).ver = truth'[k].ver
      <4> TAKE k \in Kept
      <4>1. k \in Keys  BY DEF Kept
      <4>2. Search(S, k) = IF Has(x.tbl, k) THEN x.tbl[k] ELSE Search(level_sstables, k)
        BY <3>1, <3>2, <3>3, <4>1, OnTop
      <4>3. truth'[k] = IF Has(job.out, k) THEN job.out[k] ELSE truth[k]
        BY <1>2, <2>4, <4>1 DEF Overwrite
      <4> QED  BY <1>g, <3>2, <4>2, <4>3 DEF Good
    <3>5. strategy = "level" => Consistent(S)
      BY <1>g, <3>1, <3>2, <3>3, OnTop DEF Good
    <3> QED  BY <3>4, <3>5 DEF Good
  <2> QED  BY <1>6, <2>1, <2>2, <2>3, <2>4
<1>9. next_seq \in Nat  BY DEF SSTInv, SSTTypeOK
<1>10. /\ \A k \in Keys : Search(Loaded, k) = Search(S, k)
       /\ Consistent(S) => Consistent(Loaded)
  <2> DEFINE F == Full(S)
  <2>1. /\ Ordered(F) /\ \A k \in Keys : Search(F, k) = Search(S, k)
        /\ Consistent(S) => Consistent(F)
    BY <1>7, FullSame
  <2>2. F \subseteq S  BY DEF Full
  <2> HIDE DEF F
  <2>3. /\ \A h \in F : h.seq < next_seq
        /\ \A h, g \in F : h.pos < g.pos <=> h.seq < g.seq
        /\ \A h, g \in F : h.seq = g.seq => h = g
    BY <1>7, <2>2
  <2>4. /\ \A k \in Keys : Search(Reload(F), k) = Search(F, k)
        /\ Consistent(F) => Consistent(Reload(F))
    BY <1>9, <2>1, <2>3, ReloadSame
  <2> QED  BY <1>6, <2>1, <2>4 DEF F
<1> QED  BY <1>2, <1>5, <1>8, <1>10 DEF Good, Kept

(* The lookup part holds at the start. *)
LEMMA SearchInvInit == Init => SearchInv /\ PassInv
<1> SUFFICES ASSUME Init PROVE SearchInv /\ PassInv  OBVIOUS
<1>1. level_sstables = {} /\ truth = EmptyTable /\ job.kind = "flush"
  BY DEF Init, SSTInit, IdleJob
<1>2. \A k \in Kept : Search({}, k).ver = EmptyTable[k].ver
  BY DEF Search, EmptyTable, NoEntry, Kept
<1>3. Consistent({})  BY DEF Consistent
<1> QED  BY <1>1, <1>2, <1>3 DEF SearchInv, PassInv, Good, Working

(* Everything that is proved about the store and lookups, together. *)
LookupInv == Inv /\ DataInv /\ StoreInv /\ SearchInv /\ PassInv

(* Every step keeps it. *)
LEMMA LookupInvNext == LookupInv /\ [Next]_vars => LookupInv'
<1> SUFFICES ASSUME LookupInv, [Next]_vars PROVE LookupInv'  OBVIOUS
<1>0. SSTInv  BY DEF LookupInv, Inv, TypeOK, SSTInv
<1>i. Inv' /\ DataInv' /\ StoreInv'
  BY InvNext, DataInvNext, StoreInvNext DEF LookupInv
<1> SUFFICES SearchInv' /\ PassInv'  BY <1>i DEF LookupInv
<1>1. CASE Flush
  <2>1. PICK ks \in SUBSET Keys, ds \in SUBSET Keys : create_new_sstable(FlushedTable(ks, ds))
    BY <1>1 DEF Flush, FlushedTable
  <2>2. /\ level_sstables' = level_sstables /\ truth' = truth /\ strategy' = strategy
        /\ interrupted' = interrupted /\ job'.kind = "flush"
    BY <2>1 DEF create_new_sstable, indexVars, IdleJob
  <2>3. mixed' = mixed  BY <1>1 DEF Flush
  <2> QED  BY <2>2, <2>3 DEF LookupInv, SearchInv, PassInv, Working
<1>2. CASE Compact  BY <1>0, <1>2, CompactSearch DEF LookupInv
<1>3. CASE Crash  BY <1>0, <1>3, CrashSearch DEF LookupInv
<1>4. CASE UNCHANGED <<sstVars, mixed>>
  <2>1. /\ UNCHANGED <<level_sstables, truth, strategy, interrupted, mixed, job, next_seq, next_pos>>
    BY <1>4 DEF sstVars
  <2>2. Image' = Image /\ Merging' = Merging /\ (Working' <=> Working)
    BY <2>1 DEF Image, Merging, Working, Coming, NewTable, Target
  <2>3. \A S : Stage(S)' <=> Stage(S)  BY <2>1, <2>2 DEF Stage
  <2>4. SearchInv'  BY <2>1, <2>2, <2>3 DEF LookupInv, SearchInv
  <2>5. PassInv'  BY <2>1, <2>2, <2>3 DEF LookupInv, PassInv
  <2> QED  BY <2>4, <2>5
<1> QED
  BY <1>1, <1>2, <1>3, <1>4
  DEF Next, vars, GetBegin, GetLevel, GetEnd, ScanBegin, ScanLevel, ScanEnd

(* And it holds at the start. *)
LEMMA LookupInvInit == Init => LookupInv
BY InvInit, DataInvInit, StoreInvInit, SearchInvInit DEF LookupInv

(* SSTableManager::get, sstable.cpp:1195-1223: between any two steps of any    *)
(* flush, merge or normalisation and after every restart that cut no unlink    *)
(* loop short, a lookup finds the newest entry ever flushed for a key that is  *)
(* never deleted, as long as no restart went over to the level strategy.       *)
THEOREM GetFindsNewestAlways == Spec => []GetFindsNewest
<1>1. LookupInv => GetFindsNewest
  <2> SUFFICES ASSUME LookupInv, ~interrupted, ~mixed, NEW k \in Kept
               PROVE  get(k).ver = truth[k].ver
    BY DEF GetFindsNewest
  <2>1. SSTInv  BY DEF LookupInv, Inv, TypeOK, SSTInv
  <2>2. {h \in level_sstables : h.lvl <= max_level} = level_sstables
    BY <2>1, IndexOrdered
  <2>3. Search(level_sstables, k).ver = truth[k].ver
    BY DEF LookupInv, SearchInv, Good
  <2> QED  BY <2>2, <2>3 DEF get
<1> QED  BY LookupInvInit, LookupInvNext, <1>1, PTL DEF Spec

(* merge_sstables_by_strategy_1, sstable.cpp:1038-1130: under the level        *)
(* strategy the tables of a level below the first agree on the keys they       *)
(* share, up to the tables a later merge takes together, which is what makes   *)
(* merging only the overlapping ones sound.                                    *)
THEOREM LevelTablesAgreeAlways == Spec => []LevelTablesAgree
<1>1. LookupInv => LevelTablesAgree
  BY DEF LookupInv, SearchInv, Good, LevelTablesAgree
<1> QED  BY LookupInvInit, LookupInvNext, <1>1, PTL DEF Spec

-----------------------------------------------------------------------------
(* The reader that goes level by level. *)

(* What the reader has still to search is not older than what was current     *)
(* when it started, and neither is what appeared in the levels it has passed. *)
ReaderInv ==
    rd.on =>
        /\ rd.res > 0 => rd.lvl > rd.max
        /\ rd.key \in Kept /\ ~interrupted /\ ~mixed =>
              /\ rd.from <= truth[rd.key].ver
              /\ rd.res > 0 => rd.from <= rd.res
              /\ rd.res = 0 => rd.from <= Search(Below(level_sstables, rd.lvl), rd.key).ver
              /\ \A h \in level_sstables :
                    h.lvl < rd.lvl /\ Has(h.tbl, rd.key) => rd.res > 0 \/ rd.from <= h.tbl[rd.key].ver

(* The reader between two steps of the compaction thread. *)
LEMMA ReaderSteps ==
    ASSUME LookupInv, ReaderInv, (\E k \in Keys : GetBegin(k)) \/ GetLevel \/ GetEnd
    PROVE  ReaderInv'
<1>0. SSTInv  BY DEF LookupInv, Inv, TypeOK, SSTInv
<1>t. /\ rd \in [on : BOOLEAN, key : Nat, lvl : Nat, max : Nat, from : Nat, res : Nat]
      /\ rd.on => rd.key \in Keys
  BY DEF LookupInv, Inv, TypeOK
<1>l. /\ Ordered(level_sstables)
      /\ \A h \in level_sstables : h.lvl \in Nat /\ h.pos \in Nat
  BY <1>0, IndexOrdered DEF Ordered, Handle
<1>1. ASSUME NEW k \in Keys, GetBegin(k) PROVE ReaderInv'
  <2>1. /\ rd'.key = k /\ rd'.lvl = 0 /\ rd'.from = truth[k].ver /\ rd'.res = 0
        /\ UNCHANGED <<level_sstables, truth, interrupted, mixed>>
    BY <1>1 DEF GetBegin, sstVars
  <2>2. Below(level_sstables, 0) = level_sstables  BY <1>l DEF Below
  <2>3. truth[k].ver \in Nat  BY <1>0 DEF SSTInv, SSTTypeOK, Table, Entry
  <2>4. k \in Kept /\ ~interrupted /\ ~mixed => Search(level_sstables, k).ver = truth[k].ver
    BY DEF LookupInv, SearchInv, Good
  <2>5. \A h \in level_sstables : ~(h.lvl < 0)  BY <1>l
  <2> QED  BY <2>1, <2>2, <2>3, <2>4, <2>5 DEF ReaderInv
<1>2. CASE GetLevel
  <2> DEFINE k == rd.key
             r == rd.lvl
             e == Search(Level(r), k)
             B == Below(level_sstables, r)
             C == Below(level_sstables, r + 1)
  <2>1. /\ rd.on /\ k \in Keys /\ r \in Nat /\ rd.max \in Nat /\ rd.from \in Nat /\ r <= rd.max
        /\ UNCHANGED <<level_sstables, truth, interrupted, mixed>>
    BY <1>t, <1>2 DEF GetLevel, sstVars
  <2>2. rd.res = 0  BY <1>t, <2>1 DEF ReaderInv
  <2>3. \/ /\ e.ver > 0
           /\ rd' = [rd EXCEPT !.res = e.ver, !.lvl = rd.max + 1]
        \/ ~(e.ver > 0) /\ rd' = [rd EXCEPT !.lvl = @ + 1]
    BY <1>2 DEF GetLevel
  <2>4. Level(r) \in SUBSET level_sstables /\ B \in SUBSET level_sstables
        /\ C \in SUBSET level_sstables
    BY DEF Level, Below
  <2>5. Ordered(Level(r)) /\ Ordered(B) /\ Ordered(C)
    <3> HIDE DEF B, C
    <3> QED  BY <1>l, <2>4, OrderedPart
  <2>6. B = Level(r) \cup C /\ \A h \in Level(r) : h.lvl = r
    BY <1>l, <2>1 DEF Level, Below
  <2>7. \A h \in C : h.lvl > r  BY <1>l, <2>1 DEF Below
  <2>k. k \in Keys  BY <2>1
  <2>8. CASE e.ver > 0 /\ rd' = [rd EXCEPT !.res = e.ver, !.lvl = rd.max + 1]
    <3>1. /\ rd'.on /\ rd'.key = k /\ rd'.res = e.ver /\ rd'.lvl = rd.max + 1
          /\ rd'.from = rd.from /\ rd'.max = rd.max
      <4> HIDE DEF e
      <4> QED  BY <1>t, <2>1, <2>8
    <3>2. Held(Level(r), k)
      BY <2>1, <2>5, <2>8, SearchHit DEF NoEntry
    <3>3. PICK f \in Level(r) : Hit(Level(r), k, f)
      <4> HIDE DEF k, r
      <4> QED  BY <2>k, <2>5, <3>2, SearchHit
    <3>4. Hit(B, k, f)
      <4>1. \A g \in C : Before(f, g)  BY <2>6, <2>7 DEF Before
      <4> HIDE DEF B, C, k, r
      <4> QED  BY <2>6, <3>3, <4>1 DEF Hit
    <3>5. Search(B, k) = e
      <4> HIDE DEF B, C, k, r
      <4> QED  BY <2>k, <2>5, <3>3, <3>4, SearchHit
    <3>6. rd'.lvl > rd'.max /\ rd'.res > 0  BY <2>1, <2>8, <3>1
    <3>7. k \in Kept /\ ~interrupted /\ ~mixed => rd.from <= e.ver /\ rd.from <= truth[k].ver
      BY <2>1, <2>2, <3>5 DEF ReaderInv
    <3>8. rd'.res # 0  BY <3>6
    <3> HIDE DEF e, B, C, r
    <3> QED  BY <2>1, <3>1, <3>6, <3>7, <3>8 DEF ReaderInv
  <2>9. CASE ~(e.ver > 0) /\ rd' = [rd EXCEPT !.lvl = @ + 1]
    <3>1. /\ rd'.on /\ rd'.key = k /\ rd'.res = 0 /\ rd'.lvl = r + 1
          /\ rd'.from = rd.from
      <4> HIDE DEF e
      <4> QED  BY <1>t, <2>1, <2>2, <2>9
    <3>2. \A h \in Level(r) : ~Has(h.tbl, k)
      <4>1. ASSUME Held(Level(r), k) PROVE FALSE
        <5>1. PICK f \in Level(r) : Hit(Level(r), k, f)
          <6> HIDE DEF k, r
          <6> QED  BY <2>k, <2>5, <4>1, SearchHit
        <5>2. e = f.tbl[k] /\ Has(f.tbl, k)
          <6> HIDE DEF k, r
          <6> QED  BY <2>k, <2>5, <5>1, SearchHit DEF Hit
        <5> QED  BY <2>9, <5>2 DEF Has
      <4> QED  BY <4>1 DEF Held
    <3>3. {h \in B : Has(h.tbl, k)} = {h \in C : Has(h.tbl, k)}
      <4> HIDE DEF B, C, k, r
      <4> QED  BY <2>6, <3>2
    <3>4. Search(B, k) = Search(C, k)
      <4> HIDE DEF B, C, k, r
      <4> QED  BY <3>3 DEF Search
    <3>5. \A h \in level_sstables : h.lvl < r + 1 /\ Has(h.tbl, k) => h.lvl < r
      BY <1>l, <2>1, <3>2 DEF Level
    <3>6. ASSUME k \in Kept, ~interrupted, ~mixed
          PROVE  /\ rd.from <= truth[k].ver /\ rd.from <= Search(C, k).ver
                 /\ \A h \in level_sstables :
                       h.lvl < r + 1 /\ Has(h.tbl, k) => rd.from <= h.tbl[k].ver
      <4>1. rd.from <= truth[k].ver /\ rd.from <= Search(B, k).ver
        BY <2>1, <2>2, <3>6 DEF ReaderInv
      <4>2. \A h \in level_sstables : h.lvl < r /\ Has(h.tbl, k) => rd.from <= h.tbl[k].ver
        <5>1. ~(rd.res > 0)  BY <2>2
        <5> QED  BY <2>1, <3>6, <5>1 DEF ReaderInv
      <4> HIDE DEF B, C
      <4> QED  BY <3>4, <3>5, <4>1, <4>2
    <3>7. ~(rd'.res > 0)  BY <3>1
    <3> HIDE DEF e, B
    <3> QED  BY <2>1, <3>1, <3>6, <3>7 DEF ReaderInv
  <2> QED  BY <2>3, <2>8, <2>9
<1>3. CASE GetEnd
  BY <1>3 DEF GetEnd, NoRead, ReaderInv
<1> QED  BY <1>1, <1>2, <1>3

(* The compaction thread under the reader's feet. *)
LEMMA ReaderCompact ==
    ASSUME LookupInv, ReaderInv, Compact
    PROVE  ReaderInv'
<1>0. SSTInv  BY DEF LookupInv, Inv, TypeOK, SSTInv
<1>u. mixed' = mixed /\ interrupted' = interrupted /\ rd' = rd
  BY DEF Compact, CompactionStep, create_from_entries_write, create_from_entries_truncated,
         create_from_entries_fail, create_from_entries_install, merge_sstables, drop_next_level, drop_level,
         unlink_file, merge_done, normalize_sstables, merge_return
<1> DEFINE k == rd.key
           r == rd.lvl
           Now == Search(Below(level_sstables, r), k).ver
           Then == Search(Below(level_sstables', r), k).ver
<1>k. CASE ~(rd.on /\ k \in Kept /\ ~interrupted /\ ~mixed)
  BY <1>u, <1>k DEF ReaderInv
<1> SUFFICES ASSUME rd.on, k \in Kept, ~interrupted, ~mixed PROVE ReaderInv'  BY <1>k
<1>t. /\ job \in Job /\ k \in Keys /\ r \in Nat /\ rd.from \in Nat /\ rd.res \in Nat
      /\ truth[k].ver \in Nat
  BY DEF LookupInv, Inv, TypeOK, SSTTypeOK, Table, Entry
<1>l. /\ Ordered(level_sstables)
      /\ \A h \in level_sstables :
            h.lvl \in Nat /\ h.pos \in Nat /\ h.tbl[k].ver \in Nat
  <2>1. Ordered(level_sstables)  BY <1>0, IndexOrdered
  <2> QED  BY <1>t, <2>1 DEF Ordered, Handle, Table, Entry
<1>r. /\ rd.from <= truth[k].ver
      /\ rd.res = 0 => rd.from <= Now
      /\ \A h \in level_sstables :
            h.lvl < r /\ Has(h.tbl, k) => rd.res > 0 \/ rd.from <= h.tbl[k].ver
  BY DEF ReaderInv
<1>g. ASSUME rd.from <= truth'[k].ver,
             rd.res = 0 => rd.from <= Then,
             \A h \in level_sstables' :
                h.lvl < r /\ Has(h.tbl, k) => rd.res > 0 \/ rd.from <= h.tbl[k].ver
      PROVE  ReaderInv'
  BY <1>u, <1>g DEF ReaderInv
<1>1. CASE level_sstables' = level_sstables /\ truth' = truth
  BY <1>1, <1>r, <1>g
<1>2. CASE create_from_entries_install /\ job.kind = "flush"
  <2> DEFINE x == NewTable(next_seq - 1)
  <2>1. /\ level_sstables' = level_sstables \cup {x} /\ truth' = Overwrite(truth, job.out)
        /\ job.pc = "install"
    BY <1>2 DEF create_from_entries_install, NewTable, Target
  <2>2. x \in Handle /\ x.lvl = 0 /\ x.pos = next_pos /\ x.tbl = job.out
    <3>1. next_seq - 1 \in Nat /\ next_pos \in Nat /\ job.out \in Table
      BY <1>0, <1>t DEF SSTInv, SSTTypeOK, Job
    <3> QED  BY <1>2, <3>1 DEF NewTable, Target, Handle
  <2> HIDE DEF x
  <2>3. \A h \in level_sstables : h.pos < x.pos  BY <1>0, <2>2, IndexOrdered
  <2>4. x.tbl[k].ver \in Nat /\ (Has(x.tbl, k) => rd.from <= x.tbl[k].ver)
    <3>1. Has(job.out, k) => truth[k].ver < job.out[k].ver
      BY <1>2, <1>t, <2>1 DEF LookupInv, StoreInv, VersionInv
    <3>2. job.out[k].ver \in Nat  BY <1>t DEF Job, Table, Entry
    <3> QED  BY <1>t, <1>r, <2>2, <3>1, <3>2
  <2>5. rd.from <= truth'[k].ver
    <3>1. truth'[k] = IF Has(job.out, k) THEN job.out[k] ELSE truth[k]
      BY <1>t, <2>1 DEF Overwrite
    <3> QED  BY <1>r, <2>2, <2>4, <3>1
  <2>6. rd.res = 0 => rd.from <= Then
    <3>1. CASE r = 0
      <4>1. Below(level_sstables', r) = level_sstables' /\ Below(level_sstables, r) = level_sstables
        BY <1>l, <2>1, <2>2, <3>1 DEF Below
      <4>2. Search(level_sstables', k) =
                IF Has(x.tbl, k) THEN x.tbl[k] ELSE Search(level_sstables, k)
        BY <1>t, <1>l, <2>1, <2>2, <2>3, OnTop
      <4> QED  BY <1>r, <2>4, <4>1, <4>2
    <3>2. CASE r > 0
      <4>0. ~(x.lvl >= r)  BY <1>t, <2>2, <3>2
      <4>1. Below(level_sstables', r) = Below(level_sstables, r)
        BY <2>1, <4>0 DEF Below
      <4> QED  BY <1>r, <4>1
    <3> QED  BY <1>t, <3>1, <3>2
  <2>7. \A h \in level_sstables' :
            h.lvl < r /\ Has(h.tbl, k) => rd.res > 0 \/ rd.from <= h.tbl[k].ver
    BY <1>r, <2>1, <2>4
  <2> HIDE DEF Then, k, r
  <2> QED  BY <1>g, <2>5, <2>6, <2>7
<1>3. CASE \/ create_from_entries_install /\ job.kind # "flush"
           \/ drop_next_level \/ drop_level
  <2>1. /\ Working /\ truth' = truth
        /\ level_sstables' = level_sstables \/ Stage(level_sstables')
    BY <1>0, <1>3, MoveStep
  <2>2. CASE level_sstables' = level_sstables  BY <1>1, <2>1, <2>2
  <2> SUFFICES ASSUME Stage(level_sstables') PROVE ReaderInv'  BY <2>1, <2>2
  <2> DEFINE There == Search(Below(Image, r), k).ver
  <2>3. Then = There  BY <1>t, <2>1 DEF LookupInv, PassInv
  <2>4. CASE create_from_entries_install /\ job.kind # "flush"
    <3>1. job.pc = "install" /\ Merging \subseteq level_sstables
      BY <1>0, <2>4 DEF create_from_entries_install, SSTInv, IndexInv, JobStage
    <3>2. \/ There = Now
          \/ \E o \in job.src : r = job.lvl + 1 /\ Has(o.tbl, k) /\ There = o.tbl[k].ver
      BY <1>t, <2>1, <3>1 DEF LookupInv, PassInv
    <3>s. /\ \A h \in job.src : h.lvl = job.lvl
          /\ \A h \in job.nxt : h.lvl = job.lvl + 1
          /\ Has(job.out, k) => \E h \in Merging : h.tbl[k] = job.out[k]
      BY <1>t, <2>4, <3>1 DEF LookupInv, StoreInv, SourceInv
    <3>n. job.lvl \in Nat  BY <1>t DEF Job
    <3>3. rd.res = 0 => rd.from <= Then
      <4>1. CASE There = Now  BY <1>r, <2>3, <4>1
      <4>2. ASSUME NEW o \in job.src, r = job.lvl + 1, Has(o.tbl, k), There = o.tbl[k].ver
            PROVE  rd.res = 0 => rd.from <= Then
        <5>1. o \in level_sstables /\ o.lvl < r  BY <3>1, <3>s, <3>n, <4>2 DEF Merging
        <5> HIDE DEF Then, There
        <5> QED  BY <1>r, <2>3, <4>2, <5>1
      <4> QED  BY <3>2, <4>1, <4>2
    <3>4. ASSUME NEW h \in level_sstables', h.lvl < r, Has(h.tbl, k)
          PROVE  rd.res > 0 \/ rd.from <= h.tbl[k].ver
      <4>1. CASE h \in level_sstables  BY <1>r, <3>4, <4>1
      <4>2. CASE h \notin level_sstables
        <5>1. h.lvl = job.lvl + 1 /\ h.tbl = job.out
          BY <2>4, <4>2 DEF create_from_entries_install, Target
        <5>2. PICK g \in Merging : g.tbl[k] = job.out[k]  BY <3>s, <3>4, <5>1
        <5>3. g \in level_sstables /\ g.lvl < r /\ Has(g.tbl, k)
          BY <3>1, <3>s, <3>n, <3>4, <5>1, <5>2, <1>t DEF Merging, Has
        <5> QED  BY <1>r, <5>1, <5>2, <5>3
      <4> QED  BY <4>1, <4>2
    <3>5. rd.from <= truth'[k].ver  BY <1>r, <2>1
    <3> HIDE DEF Then, k, r
    <3> QED  BY <1>g, <3>3, <3>4, <3>5
  <2>5. CASE drop_next_level \/ drop_level
    <3>1. level_sstables' \subseteq level_sstables
      BY <2>5 DEF drop_next_level, drop_level
    <3>2. Stage(level_sstables)
      <4>1. /\ job.pc \in {"drop_next", "drop"} /\ Coming = {}
        BY <2>5 DEF drop_next_level, drop_level, Coming
      <4>2. /\ job.pc = "drop_next" => Merging \subseteq level_sstables
            /\ job.pc = "drop" => /\ job.src \subseteq level_sstables
                                  /\ job.nxt \cap level_sstables = {}
                                  /\ job.src \cap job.nxt = {}
        BY <1>0 DEF SSTInv, IndexInv, JobStage
      <4>3. CASE job.pc = "drop_next"  BY <4>1, <4>2, <4>3 DEF Stage, Image
      <4>4. CASE job.pc = "drop"
        <5>1. level_sstables = Image \ job.nxt  BY <4>1, <4>2, <4>4 DEF Image, Merging
        <5> QED  BY <5>1 DEF Stage
      <4> QED  BY <4>1, <4>3, <4>4
    <3>3. Now = There  BY <1>t, <2>1, <3>2 DEF LookupInv, PassInv
    <3>4. rd.from <= truth'[k].ver  BY <1>r, <2>1
    <3> HIDE DEF Then, Now, There, k, r
    <3> QED  BY <1>g, <1>r, <2>3, <3>1, <3>3, <3>4
  <2> QED  BY <1>3, <2>4, <2>5
<1>4. CASE \/ create_from_entries_write \/ create_from_entries_truncated
           \/ create_from_entries_fail \/ merge_sstables
           \/ unlink_file \/ merge_done \/ normalize_sstables \/ merge_return
  <2>1. level_sstables' = level_sstables /\ truth' = truth
    BY <1>4 DEF create_from_entries_write, create_from_entries_truncated,
                create_from_entries_fail, merge_sstables, unlink_file, merge_done, normalize_sstables, merge_return, indexVars
  <2> QED  BY <1>1, <2>1
<1> QED  BY <1>2, <1>3, <1>4 DEF Compact, CompactionStep

(* Every step keeps the reader's part. *)
LEMMA ReaderInvNext == LookupInv /\ ReaderInv /\ [Next]_vars => ReaderInv'
<1> SUFFICES ASSUME LookupInv, ReaderInv, [Next]_vars PROVE ReaderInv'  OBVIOUS
<1>1. CASE Flush
  <2>1. PICK ks \in SUBSET Keys, ds \in SUBSET Keys : create_new_sstable(FlushedTable(ks, ds))
    BY <1>1 DEF Flush, FlushedTable
  <2>2. /\ level_sstables' = level_sstables /\ truth' = truth /\ interrupted' = interrupted
        /\ mixed' = mixed /\ rd' = rd
    BY <1>1, <2>1 DEF Flush, create_new_sstable, indexVars
  <2> QED  BY <2>2 DEF ReaderInv
<1>2. CASE Compact  BY <1>2, ReaderCompact
<1>3. CASE Crash  BY <1>3 DEF Crash, NoRead, ReaderInv
<1>4. CASE (\E k \in Keys : GetBegin(k)) \/ GetLevel \/ GetEnd  BY <1>4, ReaderSteps
<1>5. CASE ScanBegin \/ ScanLevel \/ ScanEnd \/ UNCHANGED vars
  BY <1>5 DEF ScanBegin, ScanLevel, ScanEnd, vars, sstVars, ReaderInv
<1> QED  BY <1>1, <1>2, <1>3, <1>4, <1>5 DEF Next

(* SSTableManager::get, sstable.cpp:1197-1201: whatever is flushed and merged  *)
(* between the levels it locks one after the other, a reader of a key that is  *)
(* never deleted returns nothing older than what was current when it started,  *)
(* as long as no level was added below the max level it has read.              *)
THEOREM ReaderNeverStaleAlways == Spec => []ReaderNeverStale
<1>1. Init => LookupInv /\ ReaderInv
  BY LookupInvInit DEF Init, NoRead, ReaderInv
<1>2. LookupInv /\ ReaderInv /\ [Next]_vars => LookupInv' /\ ReaderInv'
  BY LookupInvNext, ReaderInvNext
<1>3. LookupInv /\ ReaderInv => ReaderNeverStale
  <2> SUFFICES ASSUME LookupInv, ReaderInv, rd.on, rd.lvl > rd.max, rd.max = max_level,
                      ~interrupted, ~mixed, rd.key \in Kept
               PROVE  rd.res >= rd.from
    BY DEF ReaderNeverStale
  <2>1. rd.res \in Nat /\ rd.from \in Nat /\ rd.lvl \in Nat /\ max_level \in Nat
    BY DEF LookupInv, Inv, TypeOK, SSTTypeOK
  <2>2. CASE rd.res > 0  BY <2>1, <2>2 DEF ReaderInv
  <2>3. CASE rd.res = 0
    <3>1. SSTInv  BY DEF LookupInv, Inv, TypeOK, SSTInv
    <3>2. \A h \in level_sstables : h.lvl \in Nat /\ h.lvl <= max_level
      BY <3>1, IndexOrdered DEF Ordered, Handle
    <3>3. Below(level_sstables, rd.lvl) = {}  BY <2>1, <3>2 DEF Below
    <3>4. Search(Below(level_sstables, rd.lvl), rd.key).ver = 0
      BY <3>3 DEF Search, NoEntry
    <3> QED  BY <2>1, <2>3, <3>4 DEF ReaderInv
  <2> QED  BY <2>1, <2>2, <2>3
<1> QED  BY <1>1, <1>2, <1>3, PTL DEF Spec

-----------------------------------------------------------------------------
(* The scanner that copies the levels from the deepest to the first. *)

(* Until a merge takes a table out of the index, every key that was stored    *)
(* when the scan began is in a table it has copied or in a level it has still *)
(* to copy.                                                                   *)
ScanInv ==
    ~sc.moved =>
        /\ sc.missed = {}
        /\ sc.on => /\ \A h \in sc.got : h.pos < next_pos
                    /\ \A k \in sc.must :
                          Held(sc.got \cup {h \in level_sstables : h.lvl < sc.lvl}, k)

(* A step of the compaction thread, as the scanner sees it. *)
LEMMA ScanCompact ==
    ASSUME Inv, ScanInv, Compact
    PROVE  ScanInv'
<1>t. /\ sc \in [on : BOOLEAN, lvl : Nat, got : SUBSET Handle, must : SUBSET Keys,
                 missed : SUBSET Keys, moved : BOOLEAN]
      /\ next_pos \in Nat
  BY DEF Inv, TypeOK, SSTTypeOK
<1>1. sc' = [sc EXCEPT !.moved =
                 @ \/ (sc.on /\ ~(level_sstables \subseteq level_sstables'))]
  BY DEF Compact
<1>2. /\ sc'.on = sc.on /\ sc'.lvl = sc.lvl /\ sc'.got = sc.got /\ sc'.must = sc.must
      /\ sc'.missed = sc.missed
      /\ ~sc'.moved => ~sc.moved /\ (sc.on => level_sstables \subseteq level_sstables')
  BY <1>t, <1>1
<1>3. next_pos' = next_pos \/ next_pos' = next_pos + 1
  BY DEF Compact, CompactionStep, create_from_entries_write, create_from_entries_truncated,
         create_from_entries_fail, create_from_entries_install, merge_sstables, drop_next_level, drop_level,
         unlink_file, merge_done, normalize_sstables, merge_return, indexVars
<1> SUFFICES ASSUME ~sc'.moved, sc.on
             PROVE  /\ \A h \in sc.got : h.pos < next_pos'
                    /\ \A k \in sc.must :
                          Held(sc.got \cup {h \in level_sstables' : h.lvl < sc.lvl}, k)
  BY <1>2 DEF ScanInv
<1>4. \A h \in sc.got : h.pos < next_pos /\ h.pos \in Nat  BY <1>2, <1>t DEF ScanInv, Handle
<1>5. \A k \in sc.must : Held(sc.got \cup {h \in level_sstables : h.lvl < sc.lvl}, k)
  BY <1>2 DEF ScanInv
<1>6. level_sstables \subseteq level_sstables'  BY <1>2
<1> QED  BY <1>t, <1>3, <1>4, <1>5, <1>6 DEF Held

(* The scanner's own steps. *)
LEMMA ScanSteps ==
    ASSUME Inv, ScanInv, ScanBegin \/ ScanLevel \/ ScanEnd
    PROVE  ScanInv'
<1>0. SSTInv  BY DEF Inv, TypeOK, SSTInv
<1>t. /\ sc \in [on : BOOLEAN, lvl : Nat, got : SUBSET Handle, must : SUBSET Keys,
                 missed : SUBSET Keys, moved : BOOLEAN]
      /\ next_pos \in Nat /\ max_level \in Nat /\ level_sstables \subseteq Handle
  BY DEF Inv, TypeOK, SSTTypeOK
<1>l. \A h \in level_sstables : h.lvl \in Nat /\ h.pos < next_pos /\ h.lvl <= max_level
  BY <1>0, <1>t, IndexOrdered DEF Handle
<1>u. level_sstables' = level_sstables /\ next_pos' = next_pos
  BY DEF ScanBegin, ScanLevel, ScanEnd, sstVars
<1>1. CASE ScanBegin
  <2>1. /\ sc'.missed = {} /\ sc'.got = {} /\ sc'.lvl = max_level + 1
        /\ sc'.must = {k \in Keys : Visible(get(k)) > 0}
    BY <1>1 DEF ScanBegin
  <2>2. ASSUME NEW k \in Keys, Visible(get(k)) > 0 PROVE Held(level_sstables, k)
    <3>1. get(k) = Search(level_sstables, k)
      <4>1. {h \in level_sstables : h.lvl <= max_level} = level_sstables  BY <1>l
      <4> QED  BY <4>1 DEF get
    <3>2. ~Held(level_sstables, k) => Search(level_sstables, k) = NoEntry
      BY <1>0, IndexOrdered, SearchHit
    <3> QED  BY <2>2, <3>1, <3>2 DEF Visible, NoEntry
  <2>3. {h \in level_sstables : h.lvl < max_level + 1} = level_sstables  BY <1>t, <1>l
  <2>4. \A k \in sc'.must :
            Held(sc'.got \cup {h \in level_sstables' : h.lvl < sc'.lvl}, k)
    BY <1>u, <2>1, <2>2, <2>3
  <2> QED  BY <2>1, <2>4 DEF ScanInv
<1>2. CASE ScanLevel
  <2> DEFINE got == sc.got \cup Level(sc.lvl - 1)
  <2>1. /\ sc.on /\ sc.lvl > 0 /\ sc'.on /\ sc'.lvl = sc.lvl - 1 /\ sc'.got = got
        /\ sc'.must = sc.must /\ sc'.moved = sc.moved
        /\ sc'.missed = IF sc.lvl > 1 THEN {}
                        ELSE {k \in sc.must : Search(sc.got \cup Level(0), k).ver = 0}
    BY <1>t, <1>2 DEF ScanLevel
  <2> SUFFICES ASSUME ~sc.moved PROVE ScanInv'  BY <2>1 DEF ScanInv
  <2>2. /\ \A h \in sc.got : h.pos < next_pos
        /\ \A k \in sc.must : Held(sc.got \cup {h \in level_sstables : h.lvl < sc.lvl}, k)
    BY <2>1 DEF ScanInv
  <2>3. \A h \in got : h.pos < next_pos /\ h \in Handle  BY <1>t, <1>l, <2>2 DEF Level
  <2>4. sc.got \cup {h \in level_sstables : h.lvl < sc.lvl}
            = got \cup {h \in level_sstables : h.lvl < sc.lvl - 1}
    <3>1. \A h \in level_sstables :
              h.lvl < sc.lvl <=> h.lvl = sc.lvl - 1 \/ h.lvl < sc.lvl - 1
      BY <1>t, <1>l, <2>1
    <3> QED  BY <3>1 DEF Level
  <2>5. \A k \in sc.must : Held(got \cup {h \in level_sstables : h.lvl < sc.lvl - 1}, k)
    BY <2>2, <2>4
  <2>6. sc'.missed = {}
    <3>1. CASE sc.lvl > 1  BY <2>1, <3>1
    <3>2. CASE ~(sc.lvl > 1)
      <4>1. sc.lvl = 1  BY <1>t, <2>1, <3>2
      <4>2. got = sc.got \cup Level(0)
            /\ {h \in level_sstables : h.lvl < sc.lvl - 1} = {}
        BY <1>l, <4>1
      <4>3. ASSUME NEW k \in sc.must PROVE Search(got, k).ver # 0
        <5>1. k \in Keys /\ Held(got, k)  BY <1>t, <2>5, <4>2
        <5>2. got \in SUBSET Handle  BY <2>3
        <5> HIDE DEF got
        <5>3. PICK h \in got : Has(h.tbl, k) /\ Search(got, k) = h.tbl[k]
          BY <1>t, <2>3, <5>1, <5>2, SearchResult
        <5> QED  BY <5>3 DEF Has
      <4> HIDE DEF got
      <4> QED  BY <2>1, <3>2, <4>2, <4>3
    <3> QED  BY <3>1, <3>2
  <2> HIDE DEF got
  <2> QED  BY <1>u, <2>1, <2>3, <2>5, <2>6 DEF ScanInv
<1>3. CASE ScanEnd  BY <1>3 DEF ScanEnd, NoScan, ScanInv
<1> QED  BY <1>1, <1>2, <1>3

(* Every step keeps the scanner's part. *)
LEMMA ScanInvNext == Inv /\ ScanInv /\ [Next]_vars => ScanInv'
<1> SUFFICES ASSUME Inv, ScanInv, [Next]_vars PROVE ScanInv'  OBVIOUS
<1>1. CASE Flush
  <2>1. PICK ks \in SUBSET Keys, ds \in SUBSET Keys : create_new_sstable(FlushedTable(ks, ds))
    BY <1>1 DEF Flush, FlushedTable
  <2>2. level_sstables' = level_sstables /\ next_pos' = next_pos /\ sc' = sc
    BY <1>1, <2>1 DEF Flush, create_new_sstable, indexVars
  <2> QED  BY <2>2 DEF ScanInv
<1>2. CASE Compact  BY <1>2, ScanCompact
<1>3. CASE Crash  BY <1>3 DEF Crash, NoScan, ScanInv
<1>4. CASE ScanBegin \/ ScanLevel \/ ScanEnd  BY <1>4, ScanSteps
<1>5. CASE (\E k \in Keys : GetBegin(k)) \/ GetLevel \/ GetEnd \/ UNCHANGED vars
  BY <1>5 DEF GetBegin, GetLevel, GetEnd, vars, sstVars, ScanInv
<1> QED  BY <1>1, <1>2, <1>3, <1>4, <1>5 DEF Next

(* for_each_oldest, sstable.cpp:1279-1298: a scan that misses a key stored     *)
(* before it began was overtaken by a merge that took tables out of the index; *)
(* flushes, new levels and the order of the locks never make it miss one.      *)
THEOREM ScanMissesOnlyUnderMergeAlways == Spec => []ScanMissesOnlyUnderMerge
<1>1. Init => Inv /\ ScanInv  BY InvInit DEF Init, NoScan, ScanInv
<1>2. Inv /\ ScanInv /\ [Next]_vars => Inv' /\ ScanInv'  BY InvNext, ScanInvNext
<1>3. ScanInv => ScanMissesOnlyUnderMerge  BY DEF ScanInv, ScanMissesOnlyUnderMerge
<1> QED  BY <1>1, <1>2, <1>3, PTL DEF Spec

=============================================================================
