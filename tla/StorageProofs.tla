--------------------------- MODULE StorageProofs ---------------------------
(***************************************************************************)
(* Proofs about module Storage for keys that hold strings: what memtable,  *)
(* immutable memtables, SSTables, log files and the three threads keep     *)
(* between any two steps, for any number of writes, removals, rotations,   *)
(* failed flushes and crashes, and what the readers rest on.               *)
(***************************************************************************)
EXTENDS Storage, OrderLemmas

-----------------------------------------------------------------------------
(* Strings. *)

(* The commands of string_processor and DEL only. *)
StringsOnly == UNION Workloads \subseteq Keys \X {"set", "remove"}

(* The entry that write number m leaves, the tombstones, and what a table can *)
(* hold for a key after n writes.                                             *)
Value(m) == Fresh("str", <<<<m>>>>)
Tombs == {e \in EValue : e.typ = "str" /\ e.dead /\ ~e.odd}
Entries(n) == {NoEntry} \cup Tombs \cup {Value(m) : m \in 1 .. n}
Tables(n) == [Keys -> Entries(n)]

(* How new an entry is, and that an entry hides nothing newer than b. *)
Num(e) == Number(Contents(e))
Covers(e, b) == Present(e) => NoOlder(e, b)

-----------------------------------------------------------------------------
(* The inductive invariant. *)

Record(n) == {[op |-> "remove", key |-> k, arg |-> <<>>] : k \in Keys}
             \cup {[op |-> "set", key |-> k, arg |-> <<m>>] : k \in Keys, m \in 1 .. n}
Immutable(n) == [id : WalIds, tbl : Tables(n)]

(* The tables and the log. *)
DataInv ==
    /\ nops \in 0 .. MaxOps /\ crashes \in 0 .. MaxCrashes
    /\ memtable \in Tables(nops) /\ sst \in Tables(nops) /\ imm \in Seq(Immutable(nops))
    /\ wal \in [WalIds -> Seq(Record(nops))]
    /\ cur \in WalIds /\ next_id \in Nat /\ cur < next_id
    /\ next_id <= nops + crashes + IF wr.pc = "idle" THEN 2 ELSE 1
    /\ synced \in 0 .. Len(wal[cur])
    /\ \A i \in WalIds : i > cur => wal[i] = <<>>
    /\ uses \in Workloads /\ sync_on_write \in BOOLEAN /\ status \in {"up", "dead"}

(* Immutable memtables are in the order of their files, and older than the    *)
(* current file unless that is being replaced.                                *)
OrderInv ==
    /\ \A i, j \in 1 .. Len(imm) : i < j => imm[i].id < imm[j].id
    /\ \A i \in 1 .. Len(imm) : imm[i].id <= cur /\ (imm[i].id = cur => null)
    /\ null = (wr.pc = "new")
    /\ null => memtable = EmptyTable

(* The writer has the newest number in hand. *)
WriterInv ==
    /\ wr = [pc |-> wr.pc, op |-> wr.op, key |-> wr.key, arg |-> wr.arg, put |-> wr.put]
    /\ wr.pc \in {"idle", "apply", "move", "new"}
    /\ wr.pc = "apply" => /\ wr.key \in Keys /\ wr.put = NoEntry
                          /\ wr.op = "remove" \/ (wr.op = "set" /\ wr.arg = <<nops>>)
    /\ wr.pc # "idle" => nops > 0
    /\ wr.pc \in {"move", "new"} =>
          wr.put = NoEntry \/ (wr.key \in Keys /\ wr.put = Value(nops))

(* The table being flushed is the oldest one; once written its entries are in *)
(* the SSTables.                                                              *)
FlushInv ==
    /\ fl = [pc |-> fl.pc, id |-> fl.id, tbl |-> fl.tbl]
    /\ fl.pc \in {"idle", "create", "clear", "erase"}
    /\ fl.pc # "idle" => imm # <<>> /\ fl.id = imm[1].id /\ fl.tbl = imm[1].tbl
    /\ fl.pc \in {"clear", "erase"} =>
          \A k \in Keys : Present(fl.tbl[k]) => sst[k] = fl.tbl[k]

(* What a reader has still to look at is no older than what was current when  *)
(* it began; neither is what the writer has in hand.                          *)
GetInv ==
    LET k == rd.key
        b == Number(rd.from)
    IN  /\ rd = [pc |-> rd.pc, key |-> k, from |-> rd.from, got |-> rd.got, base |-> rd.base,
                  met |-> rd.met]
        /\ DOMAIN rd.got = Keys
        /\ rd.pc \in {"get_imm", "get_sst", "got"} => k \in Keys /\ b \in 0 .. nops
        /\ rd.pc \in {"get_imm", "get_sst"} => Covers(memtable[k], b)
        /\ rd.pc = "get_imm" => NoOlder(OldEntry(imm, sst, k), b)
        /\ rd.pc = "get_sst" => /\ \A i \in 1 .. Len(imm) : Covers(imm[i].tbl[k], b)
                                /\ NoOlder(sst[k], b)
        /\ rd.pc = "got" /\ ~rd.met => NoOlder(rd.got[k], b)

(* Without a crash every layer covers the ones below it. *)
LayerInv ==
    \A k \in Keys :
        /\ Covers(memtable[k], Num(sst[k]))
        /\ \A i \in 1 .. Len(imm) : /\ Covers(imm[i].tbl[k], Num(sst[k]))
                                    /\ Covers(memtable[k], Num(imm[i].tbl[k]))
        /\ \A i, j \in 1 .. Len(imm) : i < j => Covers(imm[j].tbl[k], Num(imm[i].tbl[k]))

RangeInv ==
    rd.pc \in {"range_imm", "range_mem", "ranged"} =>
        \A k \in Keys :
            LET b == Num(rd.base[k])
            IN  /\ b \in 0 .. nops
                /\ NoOlder(rd.got[k], b)
                /\ rd.pc # "ranged" => Covers(memtable[k], b)
                /\ rd.pc = "range_imm" => \A i \in 1 .. Len(imm) : Covers(imm[i].tbl[k], b)

(* A file that begins with a torn record has no other and is not reopened. *)
TearInv ==
    /\ tear \in [WalIds -> Nat]
    /\ \A i \in WalIds : tear[i] = 0 => i # cur /\ i < next_id /\ wal[i] = <<>>

IInv ==
    /\ DataInv /\ OrderInv /\ WriterInv /\ FlushInv /\ GetInv
    /\ crashes = 0 => LayerInv /\ RangeInv

-----------------------------------------------------------------------------
(* Entries. *)

(* The entry of a write. *)
LEMMA ValueFacts ==
    ASSUME NEW m \in Nat
    PROVE  /\ Value(m) = [typ |-> "str", val |-> <<<<m>>>>, dead |-> FALSE, odd |-> FALSE]
           /\ Value(m) \in EValue /\ Present(Value(m)) /\ Alive(Value(m)) /\ Num(Value(m)) = m
           /\ get_value(Value(m)) = Value(m) /\ ~Value(m).dead /\ ~Value(m).odd
<1>1. Value(m) = [typ |-> "str", val |-> <<<<m>>>>, dead |-> FALSE, odd |-> FALSE]
  BY DEF Value, Fresh
<1>2. <<m>> \in Seq(Nat) /\ <<<<m>>>> \in Seq(Seq(Nat)) /\ <<<<m>>>>[1][1] = m  OBVIOUS
<1>3. Value(m) \in EValue  BY <1>1, <1>2 DEF EValue, Types
<1>4. Alive(Value(m)) /\ Present(Value(m)) /\ get_value(Value(m)) = Value(m)
  BY <1>1 DEF Alive, Present, get_value
<1>5. Contents(Value(m)) = [typ |-> "str", val |-> <<<<m>>>>]  BY <1>1, <1>4 DEF Contents
<1>6. Contents(Value(m)).val # <<>> /\ Contents(Value(m)).val[1][1] = m
  BY <1>2, <1>5
<1>7. Num(Value(m)) = m  BY <1>6 DEF Num, Number
<1> QED  BY <1>1, <1>3, <1>4, <1>7

(* The entry of a key that a table does not have, and a tombstone. *)
LEMMA NoEntryFacts ==
    /\ NoEntry \in EValue /\ ~Present(NoEntry) /\ ~Alive(NoEntry) /\ Num(NoEntry) = 0
    /\ get_value(NoEntry) = NoEntry /\ ~NoEntry.odd
<1>1. <<>> \in Seq(Seq(Nat))  OBVIOUS
<1> QED  BY <1>1 DEF NoEntry, EValue, Types, Present, Alive, Num, Number, Contents, get_value, Missing

LEMMA TombFacts ==
    ASSUME NEW e \in Tombs
    PROVE  /\ e \in EValue /\ Present(e) /\ ~Alive(e) /\ e.dead /\ ~e.odd
           /\ Num(e) = 0 /\ get_value(e) = e
<1>1. e \in EValue /\ Present(e) /\ ~Alive(e) /\ e.dead /\ ~e.odd /\ get_value(e) = e
  BY DEF Tombs, Present, Alive, get_value
<1>2. Contents(e) = Missing  BY <1>1 DEF Contents
<1>3. Num(e) = 0  BY <1>2 DEF Num, Number, Missing
<1> QED  BY <1>1, <1>3

(* What a table can hold. *)
LEMMA EntryFacts ==
    ASSUME NEW n \in Nat, NEW e \in Entries(n)
    PROVE  /\ e \in EValue /\ ~e.odd /\ get_value(e) = e
           /\ Num(e) \in 0 .. n /\ NoOlder(e, Num(e)) /\ NoOlder(e, 0)
           /\ ~Alive(e) => Num(e) = 0
           /\ Present(e) /\ ~Alive(e) => e.dead
           /\ Alive(e) => ~e.dead
<1>1. CASE e = NoEntry
  BY <1>1, NoEntryFacts DEF NoOlder, Num
<1>2. CASE e \in Tombs
  BY <1>2, TombFacts DEF NoOlder
<1>3. CASE \E m \in 1 .. n : e = Value(m)
  <2>1. PICK m \in 1 .. n : e = Value(m)  BY <1>3
  <2>2. m \in Nat  OBVIOUS
  <2> QED  BY <2>1, <2>2, ValueFacts DEF NoOlder, Num
<1> QED  BY <1>1, <1>2, <1>3 DEF Entries

LEMMA EntriesGrow ==
    ASSUME NEW n \in Nat, NEW m \in Nat, n <= m
    PROVE  Entries(n) \subseteq Entries(m) /\ Tables(n) \subseteq Tables(m)
           /\ Immutable(n) \subseteq Immutable(m) /\ Record(n) \subseteq Record(m)
<1>1. 1 .. n \subseteq 1 .. m  OBVIOUS
<1>2. Entries(n) \subseteq Entries(m)  BY <1>1 DEF Entries
<1>3. Tables(n) \subseteq Tables(m)  BY <1>2 DEF Tables
<1>4. Immutable(n) \subseteq Immutable(m)  BY <1>3 DEF Immutable
<1>5. Record(n) \subseteq Record(m)  BY <1>1 DEF Record
<1> QED  BY <1>2, <1>3, <1>4, <1>5

(* SkipList::insert and MemTable::remove. *)
LEMMA EntryWritten ==
    ASSUME NEW n \in Nat, NEW e \in Entries(n), NEW m \in Nat
    PROVE  insert(e, Value(m)) = Value(m) /\ tombstone(e) \in Tombs
<1>1. insert(e, Value(m)) = Value(m)
  <2>1. ~e.odd /\ e.odd \in BOOLEAN  BY EntryFacts DEF EValue
  <2>2. e.odd = FALSE  BY <2>1
  <2>3. PICK l : l = <<<<m>>>>  OBVIOUS
  <2>4. PICK o \in BOOLEAN : o = FALSE  OBVIOUS
  <2>5. PICK v : v = [typ |-> "str", val |-> l, dead |-> o, odd |-> o]  OBVIOUS
  <2>6. [v EXCEPT !.odd = o] = v  BY <2>5
  <2>7. Value(m) = v  BY <2>3, <2>4, <2>5, ValueFacts
  <2>8. insert(e, v) = IF Present(e) THEN [v EXCEPT !.odd = o] ELSE v
    BY <2>2, <2>4 DEF insert
  <2> QED  BY <2>6, <2>7, <2>8
<1>2. tombstone(e) \in Tombs
  <2>1. CASE e = NoEntry
    <3>1. tombstone(e) = [typ |-> "str", val |-> <<>>, dead |-> TRUE, odd |-> FALSE]
      BY <2>1, NoEntryFacts DEF tombstone, DefaultEValue, Fresh
    <3>2. <<>> \in Seq(Seq(Nat))  OBVIOUS
    <3> QED  BY <3>1, <3>2 DEF Tombs, EValue, Types
  <2>2. CASE e \in EValue /\ e.typ = "str" /\ ~e.odd
    <3>1. tombstone(e) = [e EXCEPT !.dead = TRUE]  BY <2>2 DEF tombstone, Present
    <3>2. PICK x : x = tombstone(e)  OBVIOUS
    <3>3. x = [typ |-> e.typ, val |-> e.val, dead |-> TRUE, odd |-> e.odd]  BY <2>2, <3>1, <3>2 DEF EValue
    <3>4. e.val \in Seq(Seq(Nat)) /\ e.odd \in BOOLEAN  BY <2>2 DEF EValue
    <3>5. x \in EValue /\ x.typ = "str" /\ x.dead /\ ~x.odd  BY <2>2, <3>3, <3>4 DEF EValue, Types
    <3> QED  BY <3>2, <3>5 DEF Tombs
  <2>3. e = NoEntry \/ e \in Tombs \/ \E j \in 1 .. n : e = Value(j)  BY DEF Entries
  <2>4. ASSUME NEW j \in 1 .. n, e = Value(j) PROVE e \in EValue /\ e.typ = "str" /\ ~e.odd
    <3>1. j \in Nat  OBVIOUS
    <3>2. e = [typ |-> "str", val |-> <<<<j>>>>, dead |-> FALSE, odd |-> FALSE] /\ e \in EValue
      BY <2>4, <3>1, ValueFacts
    <3> QED  BY <3>2
  <2> QED  BY <2>1, <2>2, <2>3, <2>4 DEF Tombs
<1> QED  BY <1>1, <1>2

(* Covering: nothing covers more than the newest write or a tombstone. *)
LEMMA CoverFacts ==
    ASSUME NEW n \in Nat, NEW b \in 0 .. n
    PROVE  /\ Covers(NoEntry, b) /\ Covers(Value(n), b) /\ NoOlder(Value(n), b)
           /\ \A e \in Tombs : Covers(e, b) /\ NoOlder(e, b)
           /\ \A e : ~Alive(e) => Covers(e, b) \/ (Present(e) /\ ~e.dead)
<1>1. Covers(NoEntry, b)  BY NoEntryFacts DEF Covers
<1>2. NoOlder(Value(n), b)  BY ValueFacts DEF NoOlder, Num
<1>3. \A e \in Tombs : NoOlder(e, b)  BY TombFacts DEF NoOlder
<1> QED  BY <1>1, <1>2, <1>3 DEF Covers, Alive, NoOlder


-----------------------------------------------------------------------------
(* Lookups. *)

(* Immutable memtables and what they hold. *)
LEMMA HitFacts ==
    ASSUME NEW n \in Nat, NEW imms \in Seq(Immutable(n)), NEW k \in Keys
    PROVE  /\ \A i \in 1 .. Len(imms) : /\ imms[i].id \in WalIds /\ imms[i].tbl \in Tables(n)
                                        /\ imms[i].tbl[k] \in Entries(n)
                                        /\ get_value(imms[i].tbl[k]) = imms[i].tbl[k]
           /\ Hits(imms, k) \in SUBSET Nat /\ Hits(imms, k) \subseteq 1 .. Len(imms)
           /\ \A i : i \in Hits(imms, k) <=> i \in 1 .. Len(imms) /\ Present(imms[i].tbl[k])
<1>1. ASSUME NEW i \in 1 .. Len(imms)
      PROVE  /\ imms[i].id \in WalIds /\ imms[i].tbl \in Tables(n)
             /\ imms[i].tbl[k] \in Entries(n) /\ get_value(imms[i].tbl[k]) = imms[i].tbl[k]
  <2>1. imms[i] \in Immutable(n)  OBVIOUS
  <2>2. imms[i].id \in WalIds /\ imms[i].tbl \in Tables(n)  BY <2>1 DEF Immutable
  <2>3. imms[i].tbl[k] \in Entries(n)  BY <2>2 DEF Tables
  <2> QED  BY <2>2, <2>3, EntryFacts
<1> QED  BY <1>1 DEF Hits

(* The newest immutable memtable that has the key answers. *)
LEMMA NewestIs ==
    ASSUME NEW n \in Nat, NEW imms \in Seq(Immutable(n)), NEW k \in Keys,
           NEW i \in 1 .. Len(imms), Present(imms[i].tbl[k]),
           \A j \in 1 .. Len(imms) : j > i => ~Present(imms[j].tbl[k])
    PROVE  Hits(imms, k) # {} /\ Newest(imms, k) = imms[i].tbl[k]
<1> DEFINE hits == Hits(imms, k)
           c == CHOOSE x \in hits : \A j \in hits : j <= x
<1>1. i \in hits /\ hits \subseteq 1 .. Len(imms) /\ \A j \in hits : Present(imms[j].tbl[k])
  BY HitFacts
<1>2. \A j \in hits : j <= i  BY <1>1
<1>3. c \in hits /\ \A j \in hits : j <= c
  <2> HIDE DEF hits
  <2> QED  BY <1>1, <1>2
<1>4. c = i
  <2> HIDE DEF hits, c
  <2>1. c \in Nat /\ i \in Nat /\ c <= i /\ i <= c  BY <1>1, <1>2, <1>3
  <2> QED  BY <2>1
<1>5. Newest(imms, k) = get_value(imms[c].tbl[k])  BY DEF Newest
<1> QED  BY <1>1, <1>4, <1>5, HitFacts

(* What the immutable memtables and the SSTables answer. *)
AnswersAt(e, imms, s, k) ==
    \/ Hits(imms, k) = {} /\ e = s[k]
    \/ \E i \in 1 .. Len(imms) : /\ Present(imms[i].tbl[k]) /\ e = imms[i].tbl[k]
                                 /\ \A j \in 1 .. Len(imms) : j > i => ~Present(imms[j].tbl[k])
LEMMA OldEntryIs ==
    ASSUME NEW n \in Nat, NEW imms \in Seq(Immutable(n)), NEW s \in Tables(n), NEW k \in Keys
    PROVE  AnswersAt(OldEntry(imms, s, k), imms, s, k) /\ OldEntry(imms, s, k) \in Entries(n)
<1> DEFINE hits == Hits(imms, k)
<1>1. CASE hits = {}
  <2>1. OldEntry(imms, s, k) = s[k]  BY <1>1 DEF OldEntry
  <2>2. s[k] \in Entries(n)  BY DEF Tables
  <2> QED  BY <1>1, <2>1, <2>2 DEF AnswersAt
<1>2. CASE hits # {}
  <2>1. hits \in SUBSET Nat /\ hits \subseteq 1 .. Len(imms) /\ Len(imms) \in Nat  BY HitFacts
  <2>2. \A y \in hits : y <= Len(imms)  BY <2>1
  <2>3. PICK i \in hits : \A j \in hits : i >= j
    <3> HIDE DEF hits
    <3> QED  BY <1>2, <2>1, <2>2, NatMax
  <2>4. i \in 1 .. Len(imms) /\ Present(imms[i].tbl[k])  BY <2>1, HitFacts
  <2>5. \A j \in 1 .. Len(imms) : j > i => ~Present(imms[j].tbl[k])
    BY <2>3, <2>4, HitFacts
  <2>6. Newest(imms, k) = imms[i].tbl[k]  BY <2>4, <2>5, NewestIs
  <2>7. OldEntry(imms, s, k) = imms[i].tbl[k]  BY <1>2, <2>6 DEF OldEntry
  <2> QED  BY <2>4, <2>5, <2>7, HitFacts DEF AnswersAt
<1> QED  BY <1>1, <1>2

LEMMA OldEntryOnly ==
    ASSUME NEW n \in Nat, NEW imms \in Seq(Immutable(n)), NEW s, NEW k \in Keys,
           NEW e, AnswersAt(e, imms, s, k)
    PROVE  OldEntry(imms, s, k) = e
<1>1. CASE Hits(imms, k) = {} /\ e = s[k]
  BY <1>1 DEF OldEntry
<1>2. ASSUME NEW i \in 1 .. Len(imms), Present(imms[i].tbl[k]), e = imms[i].tbl[k],
             \A j \in 1 .. Len(imms) : j > i => ~Present(imms[j].tbl[k])
      PROVE  OldEntry(imms, s, k) = e
  <2>1. Hits(imms, k) # {} /\ Newest(imms, k) = imms[i].tbl[k]  BY <1>2, NewestIs
  <2> QED  BY <1>2, <2>1 DEF OldEntry
<1> QED  BY <1>1, <1>2 DEF AnswersAt

(* A rotated memtable comes first. *)
LEMMA OldEntryAppend ==
    ASSUME NEW n \in Nat, NEW imms \in Seq(Immutable(n)), NEW s \in Tables(n), NEW k \in Keys,
           NEW t \in Immutable(n), NEW more, more = Append(imms, t)
    PROVE  OldEntry(more, s, k) = IF Present(t.tbl[k]) THEN t.tbl[k] ELSE OldEntry(imms, s, k)
<1>1. /\ more \in Seq(Immutable(n)) /\ Len(more) = Len(imms) + 1 /\ Len(imms) \in Nat
      /\ \A i \in 1 .. Len(imms) : more[i] = imms[i]
      /\ more[Len(imms) + 1] = t
  OBVIOUS
<1>2. CASE Present(t.tbl[k])
  <2>1. AnswersAt(t.tbl[k], more, s, k)  BY <1>1, <1>2 DEF AnswersAt
  <2> QED  BY <1>1, <1>2, <2>1, OldEntryOnly
<1>3. CASE ~Present(t.tbl[k])
  <2> DEFINE e == OldEntry(imms, s, k)
  <2>1. AnswersAt(e, imms, s, k)  BY OldEntryIs
  <2>2. CASE Hits(imms, k) = {} /\ e = s[k]
    <3>1. Hits(more, k) = {}
      <4>1. ASSUME NEW i \in 1 .. Len(more) PROVE ~Present(more[i].tbl[k])
        <5>1. CASE i \in 1 .. Len(imms)
          BY <1>1, <2>2, <5>1, HitFacts
        <5>2. CASE i = Len(imms) + 1
          BY <1>1, <1>3, <5>2
        <5> QED  BY <1>1, <5>1, <5>2
      <4> QED  BY <1>1, <4>1, HitFacts
    <3>2. AnswersAt(e, more, s, k)  BY <2>2, <3>1 DEF AnswersAt
    <3> QED  BY <1>1, <1>3, <3>2, OldEntryOnly
  <2>3. ASSUME NEW i \in 1 .. Len(imms), Present(imms[i].tbl[k]), e = imms[i].tbl[k],
               \A j \in 1 .. Len(imms) : j > i => ~Present(imms[j].tbl[k])
        PROVE  OldEntry(more, s, k) = e
    <3> HIDE DEF e
    <3>1. \A j \in 1 .. Len(more) : j > i => ~Present(more[j].tbl[k])
      <4>1. ASSUME NEW j \in 1 .. Len(more), j > i PROVE ~Present(more[j].tbl[k])
        <5>1. CASE j \in 1 .. Len(imms)
          BY <1>1, <2>3, <4>1, <5>1
        <5>2. CASE j = Len(imms) + 1
          BY <1>1, <1>3, <5>2
        <5> QED  BY <1>1, <5>1, <5>2
      <4> QED  BY <4>1
    <3>2. i \in 1 .. Len(more) /\ more[i] = imms[i]  BY <1>1
    <3>3. AnswersAt(e, more, s, k)  BY <2>3, <3>1, <3>2 DEF AnswersAt
    <3> QED  BY <1>1, <3>3, OldEntryOnly
  <2> QED  BY <1>3, <2>1, <2>2, <2>3 DEF AnswersAt
<1> QED  BY <1>2, <1>3

(* What is flushed answers the same from the SSTables, before and after the   *)
(* immutable memtable is erased.                                              *)
LEMMA OldEntryFlush ==
    ASSUME NEW n \in Nat, NEW imms \in Seq(Immutable(n)), imms # <<>>, NEW k \in Keys,
           NEW s \in Tables(n), NEW r \in Tables(n),
           r[k] = IF Present(imms[1].tbl[k]) THEN imms[1].tbl[k] ELSE s[k]
    PROVE  OldEntry(imms, r, k) = OldEntry(imms, s, k)
<1> DEFINE e == OldEntry(imms, s, k)
<1>1. AnswersAt(e, imms, s, k)  BY OldEntryIs
<1>2. Len(imms) \in Nat /\ Len(imms) > 0  OBVIOUS
<1>3. Hits(imms, k) = {} => ~Present(imms[1].tbl[k])  BY <1>2, HitFacts
<1>4. AnswersAt(e, imms, r, k)
  <2> HIDE DEF e
  <2> QED  BY <1>1, <1>3 DEF AnswersAt
<1> QED  BY <1>4, OldEntryOnly

LEMMA OldEntryTail ==
    ASSUME NEW n \in Nat, NEW imms \in Seq(Immutable(n)), imms # <<>>, NEW k \in Keys,
           NEW s \in Tables(n), Present(imms[1].tbl[k]) => s[k] = imms[1].tbl[k],
           NEW rest, rest = Tail(imms)
    PROVE  OldEntry(rest, s, k) = OldEntry(imms, s, k)
<1>1. /\ rest \in Seq(Immutable(n)) /\ Len(rest) = Len(imms) - 1 /\ Len(imms) \in Nat /\ Len(imms) > 0
      /\ \A i \in 1 .. Len(rest) : rest[i] = imms[i + 1]
  OBVIOUS
<1> DEFINE e == OldEntry(rest, s, k)
<1>2. AnswersAt(e, rest, s, k)  BY <1>1, OldEntryIs
<1>3. \A j \in 1 .. Len(imms) : j > 1 => j - 1 \in 1 .. Len(rest) /\ rest[j - 1] = imms[j]
  BY <1>1
<1> HIDE DEF e
<1>4. ASSUME Hits(rest, k) = {}, e = s[k] PROVE AnswersAt(e, imms, s, k)
  <2>0. \A i \in 1 .. Len(rest) : ~Present(rest[i].tbl[k])  BY <1>1, <1>4, HitFacts
  <2>1. ASSUME NEW j \in 1 .. Len(imms), j > 1 PROVE ~Present(imms[j].tbl[k])
    <3>1. PICK i \in 1 .. Len(rest) : rest[i] = imms[j]  BY <1>3, <2>1
    <3> QED  BY <2>0, <3>1
  <2>2. CASE Present(imms[1].tbl[k])
    <3>1. 1 \in 1 .. Len(imms)  BY <1>1
    <3> QED  BY <1>4, <2>1, <2>2, <3>1 DEF AnswersAt
  <2>3. CASE ~Present(imms[1].tbl[k])
    <3>1. ASSUME NEW j \in 1 .. Len(imms) PROVE ~Present(imms[j].tbl[k])
      <4>1. j = 1 \/ j > 1  OBVIOUS
      <4> QED  BY <4>1, <2>1, <2>3
    <3>2. Hits(imms, k) = {}  BY <3>1, HitFacts
    <3> QED  BY <1>4, <3>2 DEF AnswersAt
  <2> QED  BY <2>2, <2>3
<1>5. ASSUME NEW i \in 1 .. Len(rest), Present(rest[i].tbl[k]), e = rest[i].tbl[k],
             \A j \in 1 .. Len(rest) : j > i => ~Present(rest[j].tbl[k])
      PROVE  AnswersAt(e, imms, s, k)
  <2>1. PICK h : h = i + 1  OBVIOUS
  <2>2. h \in 1 .. Len(imms) /\ imms[h] = rest[i]  BY <1>1, <2>1
  <2>3. ASSUME NEW j \in 1 .. Len(imms), j > h PROVE ~Present(imms[j].tbl[k])
    <3>1. j > 1 /\ j - 1 > i  BY <2>1, <2>3
    <3> QED  BY <1>3, <1>5, <3>1
  <2> QED  BY <1>5, <2>2, <2>3 DEF AnswersAt
<1>6. AnswersAt(e, imms, s, k)  BY <1>2, <1>4, <1>5 DEF AnswersAt
<1>7. OldEntry(imms, s, k) = e  BY <1>6, OldEntryOnly
<1> QED  BY <1>7 DEF e

(* immutable_memtables_.erase of the oldest. *)
LEMMA EraseFirst ==
    ASSUME NEW n \in Nat, NEW imms \in Seq(Immutable(n)), imms # <<>>,
           \A i, j \in 1 .. Len(imms) : i < j => imms[i].id < imms[j].id
    PROVE  Erase(imms, imms[1].id) = Tail(imms)
<1>1. Len(imms) \in Nat /\ 1 \in 1 .. Len(imms)  OBVIOUS
<1>2. \A i \in 1 .. Len(imms) : imms[i].id \in Nat
  <2>1. ASSUME NEW i \in 1 .. Len(imms) PROVE imms[i].id \in Nat
    <3>1. imms[i] \in Immutable(n)  OBVIOUS
    <3> QED  BY <3>1 DEF Immutable, WalIds
  <2> QED  BY <2>1
<1>3. \A i \in 1 .. Len(imms) : imms[i].id = imms[1].id => i = 1
  <2>1. ASSUME NEW i \in 1 .. Len(imms), i # 1 PROVE imms[1].id < imms[i].id
    <3>1. 1 < i  BY <2>1
    <3> QED  BY <1>1, <3>1
  <2> QED  BY <1>1, <1>2, <2>1
<1>4. (CHOOSE i \in 1 .. Len(imms) : imms[i].id = imms[1].id) = 1  BY <1>1, <1>3
<1>5. Erase(imms, imms[1].id) = RemoveAt(imms, 1)  BY <1>1, <1>4 DEF Erase
<1>6. RemoveAt(imms, 1) = SubSeq(imms, 1, 0) \o SubSeq(imms, 2, Len(imms))  BY <1>1 DEF RemoveAt
<1>7. SubSeq(imms, 1, 0) = <<>> /\ SubSeq(imms, 2, Len(imms)) = Tail(imms)  BY <1>1
<1>8. <<>> \o Tail(imms) = Tail(imms)  OBVIOUS
<1> QED  BY <1>5, <1>6, <1>7, <1>8

(* A range takes a stored entry, or one that hides it. *)
LEMMA OldestLastIs ==
    ASSUME NEW n \in Nat, NEW imms \in Seq(Immutable(n)), NEW base, NEW k \in Keys
    PROVE  \/ OldestLast(base, imms)[k] = base[k]
           \/ \E i \in 1 .. Len(imms) : /\ Present(imms[i].tbl[k])
                                        /\ OldestLast(base, imms)[k] = imms[i].tbl[k]
<1> DEFINE hits == Hits(imms, k)
           c == CHOOSE i \in hits : \A j \in hits : i <= j
<1>1. OldestLast(base, imms)[k] = IF hits = {} THEN base[k] ELSE get_value(imms[c].tbl[k])
  BY DEF OldestLast
<1>2. CASE hits # {}
  <2>1. c \in hits
    <3>1. hits \in SUBSET Nat  BY HitFacts
    <3>2. \E i \in hits : \A j \in hits : i <= j
      <4> HIDE DEF hits
      <4> QED  BY <1>2, <3>1, NatMin
    <3> HIDE DEF hits
    <3> QED  BY <3>2
  <2>2. c \in 1 .. Len(imms) /\ Present(imms[c].tbl[k]) /\ get_value(imms[c].tbl[k]) = imms[c].tbl[k]
    BY <2>1, HitFacts
  <2> QED  BY <1>1, <1>2, <2>2
<1> QED  BY <1>1, <1>2


-----------------------------------------------------------------------------
(* The constants, the start, and steps that leave the data alone. *)

LEMMA Constants ==
    /\ MaxOps \in Nat /\ MaxCrashes \in Nat /\ LastId \in Nat /\ LastId = MaxOps + MaxCrashes + 1
    /\ \A i : i \in WalIds <=> i \in Nat /\ 1 <= i /\ i <= LastId
BY StorageAssumption DEF LastId, WalIds

(* A fresh directory. *)
LEMMA InitHolds == Init => IInv
<1> SUFFICES ASSUME Init PROVE IInv  OBVIOUS
<1>1. EmptyTable \in Tables(0) /\ \A k \in Keys : EmptyTable[k] = NoEntry
  BY DEF EmptyTable, Tables, Entries
<1>2. /\ memtable = EmptyTable /\ null = FALSE /\ imm = <<>> /\ sst = EmptyTable
      /\ wal = [i \in WalIds |-> <<>>] /\ cur = 1 /\ next_id = 2 /\ synced = 0
      /\ wr.pc = "idle" /\ fl.pc = "idle" /\ rd.pc = "idle"
      /\ status = "up" /\ nops = 0 /\ crashes = 0 /\ sync_on_write \in BOOLEAN /\ uses \in Workloads
  BY StorageAssumption DEF Init, Idle, NoFlush, NoRead
<1>3. DataInv
  <2>1. <<>> \in Seq(Immutable(0)) /\ <<>> \in Seq(Record(0)) /\ Len(<<>>) = 0  OBVIOUS
  <2>2. 1 \in WalIds  BY Constants
  <2>3. wal \in [WalIds -> Seq(Record(0))] /\ wal[cur] = <<>>  BY <1>2, <2>1, <2>2
  <2>4. \A i \in WalIds : i > cur => wal[i] = <<>>  BY <1>2
  <2>5. nops \in 0 .. MaxOps /\ crashes \in 0 .. MaxCrashes  BY <1>2, Constants
  <2>6. memtable \in Tables(nops) /\ sst \in Tables(nops) /\ imm \in Seq(Immutable(nops))
    BY <1>1, <1>2, <2>1
  <2>7. wal \in [WalIds -> Seq(Record(nops))]  BY <1>2, <2>3
  <2>8. synced \in 0 .. Len(wal[cur])  BY <1>2, <2>1, <2>3
  <2>9. cur \in WalIds /\ next_id \in Nat /\ cur < next_id
        /\ next_id <= nops + crashes + IF wr.pc = "idle" THEN 2 ELSE 1
    BY <1>2, <2>2
  <2> QED  BY <1>2, <2>4, <2>5, <2>6, <2>7, <2>8, <2>9 DEF DataInv
<1>4. OrderInv
  <2>1. 1 .. Len(imm) = {} /\ ~null  BY <1>2
  <2>2. wr.pc # "new"  BY <1>2
  <2>3. null = (wr.pc = "new")  BY <1>2, <2>2
  <2> QED  BY <2>1, <2>3 DEF OrderInv
<1>5. WriterInv /\ FlushInv /\ GetInv
  <2>1. WriterInv  BY <1>2 DEF WriterInv, Init, Idle
  <2>2. FlushInv  BY <1>2 DEF FlushInv, Init, NoFlush
  <2>3. DOMAIN EmptyTable = Keys  BY DEF EmptyTable
  <2>4. GetInv  BY <1>2, <2>3 DEF GetInv, Init, NoRead
  <2> QED  BY <2>1, <2>2, <2>4
<1>6. LayerInv /\ RangeInv
  BY <1>1, <1>2, NoEntryFacts DEF LayerInv, RangeInv, Covers
<1> QED  BY <1>3, <1>4, <1>5, <1>6 DEF IInv

(* What the invariants say of the tables of a key. *)
LEMMA DataParts ==
    ASSUME DataInv
    PROVE  /\ nops \in Nat /\ crashes \in Nat /\ cur \in Nat /\ next_id \in Nat /\ synced \in Nat
           /\ imm \in Seq(Immutable(nops)) /\ Len(imm) \in Nat
           /\ memtable \in Tables(nops) /\ sst \in Tables(nops)
           /\ \A k \in Keys : /\ memtable[k] \in Entries(nops) /\ sst[k] \in Entries(nops)
                              /\ OldEntry(imm, sst, k) \in Entries(nops)
                              /\ \A i \in 1 .. Len(imm) : imm[i].tbl[k] \in Entries(nops)
<1>1. nops \in Nat /\ imm \in Seq(Immutable(nops)) /\ sst \in Tables(nops) /\ memtable \in Tables(nops)
  BY Constants DEF DataInv
<1>2. crashes \in Nat /\ cur \in Nat /\ next_id \in Nat /\ synced \in Nat
  BY Constants DEF DataInv
<1>3. ASSUME NEW k \in Keys
      PROVE  /\ memtable[k] \in Entries(nops) /\ sst[k] \in Entries(nops)
             /\ OldEntry(imm, sst, k) \in Entries(nops)
             /\ \A i \in 1 .. Len(imm) : imm[i].tbl[k] \in Entries(nops)
  <2>1. memtable[k] \in Entries(nops) /\ sst[k] \in Entries(nops)  BY <1>1 DEF Tables
  <2>2. \A i \in 1 .. Len(imm) : imm[i].tbl[k] \in Entries(nops)  BY <1>1, HitFacts
  <2>3. OldEntry(imm, sst, k) \in Entries(nops)  BY <1>1, OldEntryIs
  <2> QED  BY <2>1, <2>2, <2>3
<1> QED  BY <1>1, <1>2, <1>3

(* The readers' part of the invariant rests on the tables and on the number   *)
(* of writes.                                                                 *)
LEMMA ReadersStay ==
    ASSUME DataInv, UNCHANGED <<memtable, imm, sst, rd>>, nops' \in Nat, nops' >= nops
    PROVE  /\ GetInv => GetInv'
           /\ LayerInv => LayerInv'
           /\ RangeInv => RangeInv'
<1>1. \A b : b \in 0 .. nops => b \in 0 .. nops'  BY DataParts
<1>2. \A k \in Keys : OldEntry(imm, sst, k)' = OldEntry(imm, sst, k)
  BY DEF OldEntry, Newest, Hits
<1>3. GetInv => GetInv'
  BY <1>1, <1>2 DEF GetInv
<1>4. LayerInv => LayerInv'
  BY DEF LayerInv
<1>5. RangeInv => RangeInv'
  BY <1>1 DEF RangeInv
<1> QED  BY <1>3, <1>4, <1>5

(* An operation is logged. *)
LEMMA LogWriteHolds ==
    ASSUME StringsOnly, IInv, LogWrite
    PROVE  IInv'
<1>1. PICK k \in Keys, op \in OpNames : \E v \in ArgsOf(op, nops + 1) :
          /\ <<k, op>> \in uses
          /\ wal' = [wal EXCEPT ![cur] = Append(@, [op |-> op, key |-> k, arg |-> v])]
          /\ wr' = [pc |-> "apply", op |-> op, key |-> k, arg |-> v, put |-> NoEntry]
  BY DEF LogWrite
<1>2. PICK v \in ArgsOf(op, nops + 1) :
          /\ <<k, op>> \in uses
          /\ wal' = [wal EXCEPT ![cur] = Append(@, [op |-> op, key |-> k, arg |-> v])]
          /\ wr' = [pc |-> "apply", op |-> op, key |-> k, arg |-> v, put |-> NoEntry]
  BY <1>1
<1>3. /\ wr.pc = "idle" /\ nops < MaxOps /\ nops' = nops + 1
      /\ synced' = IF sync_on_write THEN Len(wal[cur]) + 1 ELSE synced
      /\ UNCHANGED <<memtable, null, imm, sst, cur, next_id, fl, rd, status, crashes, uses, sync_on_write>>
  BY DEF LogWrite, memVars, configVars
<1>4. /\ DataInv /\ OrderInv /\ WriterInv /\ FlushInv /\ GetInv
      /\ crashes = 0 => LayerInv /\ RangeInv
  BY DEF IInv
<1>5. nops \in Nat /\ nops + 1 \in Nat /\ nops <= nops + 1  BY <1>4, DataParts
<1>6. (op = "remove" /\ v = <<>>) \/ (op = "set" /\ v = <<nops + 1>>)
  <2>1. <<k, op>> \in UNION Workloads  BY <1>2, <1>4 DEF DataInv
  <2>2. op \in {"set", "remove"}  BY <2>1 DEF StringsOnly
  <2>3. ArgsOf("set", nops + 1) = {<<nops + 1>>} /\ ArgsOf("remove", nops + 1) = {<<>>}
    BY DEF ArgsOf
  <2>4. CASE op = "set"
    <3>1. v \in ArgsOf("set", nops + 1)  BY <2>4
    <3> QED  BY <2>3, <2>4, <3>1
  <2>5. CASE op = "remove"
    <3>1. v \in {<<>>}  BY <2>3, <2>5
    <3>2. v = <<>>  BY <3>1
    <3> QED  BY <2>5, <3>2
  <2> QED  BY <2>2, <2>4, <2>5
<1>7. PICK r : r = [op |-> op, key |-> k, arg |-> v]  OBVIOUS
<1>8. r \in Record(nops + 1)
  <2>1. nops + 1 \in 1 .. nops + 1  BY <1>5
  <2>2. CASE op = "remove" /\ v = <<>>
    <3>1. r = [op |-> "remove", key |-> k, arg |-> <<>>]  BY <1>7, <2>2
    <3> QED  BY <3>1 DEF Record
  <2>3. CASE op = "set" /\ v = <<nops + 1>>
    <3>1. r = [op |-> "set", key |-> k, arg |-> <<nops + 1>>]  BY <1>7, <2>3
    <3> QED  BY <2>1, <3>1 DEF Record
  <2> QED  BY <1>6, <2>2, <2>3
<1>9. wal' \in [WalIds -> Seq(Record(nops + 1))] /\ Len(wal'[cur]) = Len(wal[cur]) + 1
      /\ \A i \in WalIds : i > cur => wal'[i] = <<>>
  <2>1. wal \in [WalIds -> Seq(Record(nops))] /\ cur \in WalIds  BY <1>4 DEF DataInv
  <2>2. Record(nops) \subseteq Record(nops + 1)  BY <1>5, EntriesGrow
  <2>3. wal \in [WalIds -> Seq(Record(nops + 1))]
    <3>1. ASSUME NEW i \in WalIds PROVE wal[i] \in Seq(Record(nops + 1))
      <4>1. wal[i] \in Seq(Record(nops))  BY <2>1
      <4> QED  BY <2>2, <4>1
    <3> QED  BY <2>1, <3>1
  <2>4. wal' = [wal EXCEPT ![cur] = Append(@, r)]  BY <1>2, <1>7
  <2>5. wal[cur] \in Seq(Record(nops + 1))  BY <2>1, <2>3
  <2>6. Append(wal[cur], r) \in Seq(Record(nops + 1)) /\ Len(Append(wal[cur], r)) = Len(wal[cur]) + 1
    BY <1>8, <2>5
  <2>7. \A i \in WalIds : i > cur => wal[i] = <<>>  BY <1>4 DEF DataInv
  <2>8. \A i \in WalIds : i > cur => i # cur  BY <2>1, Constants
  <2> QED  BY <2>1, <2>3, <2>4, <2>6, <2>7, <2>8
<1>10. DataInv'
  <2>1. /\ Tables(nops) \subseteq Tables(nops + 1) /\ Immutable(nops) \subseteq Immutable(nops + 1)
    BY <1>5, EntriesGrow
  <2>2. memtable \in Tables(nops + 1) /\ sst \in Tables(nops + 1) /\ imm \in Seq(Immutable(nops + 1))
    <3>1. imm \in Seq(Immutable(nops))  BY <1>4 DEF DataInv
    <3>2. memtable \in Tables(nops) /\ sst \in Tables(nops)  BY <1>4 DEF DataInv
    <3> QED  BY <2>1, <3>1, <3>2
  <2>3. next_id <= nops + 1 + crashes + 1
    BY <1>3, <1>4, DataParts DEF DataInv
  <2>4. synced' \in 0 .. Len(wal'[cur])
    <3>1. Len(wal[cur]) \in Nat /\ synced \in 0 .. Len(wal[cur])  BY <1>4 DEF DataInv
    <3> QED  BY <1>3, <1>9, <3>1
  <2>5. wr'.pc = "apply"  BY <1>2
  <2>6. nops' \in 0 .. MaxOps  BY <1>3, <1>5, Constants
  <2> QED  BY <1>3, <1>4, <1>9, <2>2, <2>3, <2>4, <2>5, <2>6 DEF DataInv
<1>11. OrderInv'
  <2>1. wr'.pc = "apply"  BY <1>2
  <2> QED  BY <1>3, <1>4, <2>1 DEF OrderInv
<1>12. WriterInv'
  <2>1. wr'.pc = "apply" /\ wr'.key = k /\ wr'.op = op /\ wr'.arg = v /\ wr'.put = NoEntry  BY <1>2
  <2>2. wr' = [pc |-> wr'.pc, op |-> wr'.op, key |-> wr'.key, arg |-> wr'.arg, put |-> wr'.put]
    BY <1>2
  <2> QED  BY <1>3, <1>5, <1>6, <2>1, <2>2 DEF WriterInv
<1>13. FlushInv'  BY <1>3, <1>4 DEF FlushInv
<1>14. GetInv' /\ (LayerInv => LayerInv') /\ (RangeInv => RangeInv')
  BY <1>3, <1>4, <1>5, ReadersStay
<1> QED  BY <1>3, <1>4, <1>10, <1>11, <1>12, <1>13, <1>14 DEF IInv


(* What the writer puts into the memtable covers everything a reader is still *)
(* after.                                                                     *)
LEMMA MemPut ==
    ASSUME DataInv, nops > 0, nops' = nops, UNCHANGED <<imm, sst, rd>>,
           NEW k \in Keys, NEW f \in Tombs \cup {Value(nops)},
           memtable' = [memtable EXCEPT ![k] = f]
    PROVE  /\ memtable' \in Tables(nops)
           /\ GetInv => GetInv'
           /\ LayerInv => LayerInv'
           /\ RangeInv => RangeInv'
<1>1. nops \in Nat /\ memtable \in Tables(nops)  BY DataParts
<1>2. f \in Entries(nops)
  <2>1. nops \in 1 .. nops  BY <1>1
  <2> QED  BY <2>1 DEF Entries
<1>3. memtable' \in Tables(nops)  BY <1>1, <1>2 DEF Tables
<1>4. /\ \A j \in Keys : j # k => memtable'[j] = memtable[j]
      /\ memtable'[k] = f
  BY <1>1 DEF Tables
<1>5. ASSUME NEW b \in 0 .. nops PROVE Covers(f, b)
  BY <1>1, CoverFacts
<1>6. \A j \in Keys : \A b \in 0 .. nops : Covers(memtable[j], b) => Covers(memtable'[j], b)
  BY <1>4, <1>5
<1>7. \A j \in Keys : OldEntry(imm, sst, j)' = OldEntry(imm, sst, j)
  BY DEF OldEntry, Newest, Hits
<1>8. GetInv => GetInv'
  <2> SUFFICES ASSUME GetInv PROVE GetInv'  OBVIOUS
  <2> DEFINE j == rd.key
             b == Number(rd.from)
  <2>1. rd.pc \in {"get_imm", "get_sst", "got"} => j \in Keys /\ b \in 0 .. nops  BY DEF GetInv
  <2>2. rd.pc \in {"get_imm", "get_sst"} => Covers(memtable'[j], b)
    <3>1. rd.pc \in {"get_imm", "get_sst"} => Covers(memtable[j], b)  BY DEF GetInv
    <3> QED  BY <1>6, <2>1, <3>1
  <2> QED  BY <1>7, <2>1, <2>2 DEF GetInv
<1>9. LayerInv => LayerInv'
  <2> SUFFICES ASSUME LayerInv PROVE LayerInv'  OBVIOUS
  <2>1. ASSUME NEW j \in Keys
        PROVE  /\ Covers(memtable'[j], Num(sst[j]))
               /\ \A i \in 1 .. Len(imm) : Covers(memtable'[j], Num(imm[i].tbl[j]))
    <3>1. Num(sst[j]) \in 0 .. nops  BY <1>1, DataParts, EntryFacts
    <3>2. ASSUME NEW i \in 1 .. Len(imm) PROVE Num(imm[i].tbl[j]) \in 0 .. nops
      BY <1>1, DataParts, EntryFacts
    <3> QED  BY <1>6, <3>1, <3>2 DEF LayerInv
  <2> QED  BY <2>1 DEF LayerInv
<1>10. RangeInv => RangeInv'
  <2> SUFFICES ASSUME RangeInv PROVE RangeInv'  OBVIOUS
  <2> QED  BY <1>6 DEF RangeInv
<1> QED  BY <1>3, <1>8, <1>9, <1>10

(* Parts of the invariant that a step of the flush thread or of a reader       *)
(* leaves as they are.                                                         *)
LEMMA WriterStays ==
    ASSUME UNCHANGED <<wr, nops>>
    PROVE  WriterInv => WriterInv'
BY DEF WriterInv

(* Storage::force_flush. *)
LEMMA ForceFlushHolds ==
    ASSUME IInv, ForceFlush
    PROVE  IInv'
<1>1. /\ wr.pc = "idle" /\ nops < MaxOps /\ nops' = nops + 1
      /\ wr' = [Idle EXCEPT !.pc = "move"]
      /\ UNCHANGED <<memtable, null, imm, sst, wal, cur, next_id, synced, fl, rd, status, crashes,
                     uses, sync_on_write>>
  BY DEF ForceFlush, memVars, logVars, configVars
<1>2. /\ DataInv /\ OrderInv /\ WriterInv /\ FlushInv /\ GetInv
      /\ crashes = 0 => LayerInv /\ RangeInv
  BY DEF IInv
<1>3. wr'.pc = "move" /\ wr'.put = NoEntry  BY <1>1 DEF Idle
<1>4. nops \in Nat /\ nops + 1 \in Nat /\ nops <= nops + 1  BY <1>2, DataParts
<1>5. DataInv'
  <2>1. /\ Tables(nops) \subseteq Tables(nops + 1) /\ Immutable(nops) \subseteq Immutable(nops + 1)
        /\ Record(nops) \subseteq Record(nops + 1)
    BY <1>4, EntriesGrow
  <2>2. memtable \in Tables(nops + 1) /\ sst \in Tables(nops + 1) /\ imm \in Seq(Immutable(nops + 1))
    <3>1. imm \in Seq(Immutable(nops)) /\ memtable \in Tables(nops) /\ sst \in Tables(nops)
      BY <1>2 DEF DataInv
    <3> QED  BY <2>1, <3>1
  <2>3. wal \in [WalIds -> Seq(Record(nops + 1))]
    <3>1. wal \in [WalIds -> Seq(Record(nops))]  BY <1>2 DEF DataInv
    <3>2. ASSUME NEW i \in WalIds PROVE wal[i] \in Seq(Record(nops + 1))
      <4>1. wal[i] \in Seq(Record(nops))  BY <3>1
      <4> QED  BY <2>1, <4>1
    <3> QED  BY <3>1, <3>2
  <2>4. next_id <= nops + 1 + crashes + 1  BY <1>1, <1>2, DataParts DEF DataInv
  <2>5. nops + 1 \in 0 .. MaxOps  BY <1>1, <1>4, Constants
  <2> QED  BY <1>1, <1>2, <1>3, <2>2, <2>3, <2>4, <2>5 DEF DataInv
<1>6. OrderInv'  BY <1>1, <1>2, <1>3 DEF OrderInv
<1>7. WriterInv'
  <2>1. wr' = [pc |-> wr'.pc, op |-> wr'.op, key |-> wr'.key, arg |-> wr'.arg, put |-> wr'.put]
    BY <1>1 DEF Idle
  <2> QED  BY <1>1, <1>3, <1>4, <2>1 DEF WriterInv
<1>8. FlushInv'  BY <1>1, <1>2 DEF FlushInv
<1>9. GetInv' /\ (LayerInv => LayerInv') /\ (RangeInv => RangeInv')
  BY <1>1, <1>2, <1>4, ReadersStay
<1> QED  BY <1>1, <1>2, <1>5, <1>6, <1>7, <1>8, <1>9 DEF IInv

(* background_flush_task syncs the log. *)
LEMMA SyncHolds ==
    ASSUME IInv, Sync
    PROVE  IInv'
<1>1. /\ synced' = Len(wal[cur])
      /\ UNCHANGED <<memtable, null, imm, sst, wal, cur, next_id, wr, fl, rd, status, nops, crashes,
                     uses, sync_on_write>>
  BY DEF Sync, memVars, configVars
<1>2. /\ DataInv /\ OrderInv /\ WriterInv /\ FlushInv /\ GetInv
      /\ crashes = 0 => LayerInv /\ RangeInv
  BY DEF IInv
<1>3. DataInv'
  <2>1. Len(wal[cur]) \in Nat  BY <1>2 DEF DataInv
  <2>2. synced' \in 0 .. Len(wal[cur])  BY <1>1, <2>1
  <2> QED  BY <1>1, <1>2, <2>2 DEF DataInv
<1>4. OrderInv' /\ WriterInv' /\ FlushInv'  BY <1>1, <1>2 DEF OrderInv, WriterInv, FlushInv
<1>5. GetInv' /\ (LayerInv => LayerInv') /\ (RangeInv => RangeInv')
  BY <1>1, <1>2, DataParts, ReadersStay
<1> QED  BY <1>1, <1>2, <1>3, <1>4, <1>5 DEF IInv

(* The handler of the logged operation. *)
LEMMA ApplyHolds ==
    ASSUME IInv, Apply
    PROVE  IInv'
<1>1. /\ wr.pc = "apply"
      /\ UNCHANGED <<null, imm, sst, wal, cur, next_id, synced, fl, rd, status, nops, crashes,
                     uses, sync_on_write>>
  BY DEF Apply, logVars, configVars
<1>2. /\ DataInv /\ OrderInv /\ WriterInv /\ FlushInv /\ GetInv
      /\ crashes = 0 => LayerInv /\ RangeInv
  BY DEF IInv
<1>3. PICK k \in Keys : k = wr.key  BY <1>1, <1>2 DEF WriterInv
<1>4. /\ nops \in Nat /\ nops > 0 /\ wr.put = NoEntry
      /\ wr = [pc |-> wr.pc, op |-> wr.op, key |-> wr.key, arg |-> wr.arg, put |-> wr.put]
  BY <1>1, <1>2, DataParts DEF WriterInv
<1>5. memtable \in Tables(nops) /\ memtable[k] \in Entries(nops)  BY <1>2, DataParts
<1>0. "set" \notin Grow \cup Shrink /\ "remove" \notin Grow \cup Shrink
  BY DEF Grow, Shrink, ListOps, SetOps, HashOps, ZSetOps
<1>6. \/ \E f \in Tombs \cup {Value(nops)} :
            /\ memtable' = [memtable EXCEPT ![k] = f]
            /\ wr' = Idle \/ wr' = [wr EXCEPT !.pc = "move"]
      \/ memtable' = memtable /\ wr' = [wr EXCEPT !.pc = "move", !.put = Value(nops)]
  <2>1. CASE wr.op = "remove"
    <3>1. memtable' = [memtable EXCEPT ![k] = tombstone(memtable[k])] /\ wr' = Idle
      BY <1>0, <1>3, <2>1 DEF Apply
    <3>2. tombstone(memtable[k]) \in Tombs  BY <1>4, <1>5, EntryWritten
    <3> QED  BY <3>1, <3>2
  <2>2. CASE wr.op = "set" /\ wr.arg = <<nops>>
    <3>1. write_memtable(wr.key, Fresh("str", <<wr.arg>>))
      BY <1>0, <2>2 DEF Apply
    <3>2. write_memtable(k, Value(nops))  BY <1>3, <2>2, <3>1 DEF Value
    <3>3. insert(memtable[k], Value(nops)) = Value(nops)  BY <1>4, <1>5, EntryWritten
    <3>4. PICK f : f = Value(nops)  OBVIOUS
    <3>5. \/ memtable' = [memtable EXCEPT ![k] = insert(@, f)]
             /\ (wr' = Idle \/ wr' = [wr EXCEPT !.pc = "move"])
          \/ memtable' = memtable /\ wr' = [wr EXCEPT !.pc = "move", !.put = f]
      BY <3>2, <3>4 DEF write_memtable
    <3>6. [memtable EXCEPT ![k] = insert(@, f)] = [memtable EXCEPT ![k] = f]
      BY <3>3, <3>4
    <3> QED  BY <3>4, <3>5, <3>6
  <2> QED  BY <1>1, <1>2, <2>1, <2>2 DEF WriterInv
<1>7. /\ memtable' \in Tables(nops)
      /\ GetInv' /\ (LayerInv => LayerInv') /\ (RangeInv => RangeInv')
  <2>1. ASSUME NEW f \in Tombs \cup {Value(nops)}, memtable' = [memtable EXCEPT ![k] = f]
        PROVE  /\ memtable' \in Tables(nops)
               /\ GetInv' /\ (LayerInv => LayerInv') /\ (RangeInv => RangeInv')
    BY <1>1, <1>2, <1>4, <2>1, MemPut
  <2>2. ASSUME memtable' = memtable
        PROVE  /\ memtable' \in Tables(nops)
               /\ GetInv' /\ (LayerInv => LayerInv') /\ (RangeInv => RangeInv')
    BY <1>1, <1>2, <1>4, <1>5, <2>2, ReadersStay
  <2> QED  BY <1>6, <2>1, <2>2
<1>8. wr'.pc \in {"idle", "move"}
  <2>1. Idle.pc = "idle"  BY DEF Idle
  <2>2. [wr EXCEPT !.pc = "move"].pc = "move"  BY <1>4
  <2>3. PICK v : v = Value(nops)  OBVIOUS
  <2>4. [wr EXCEPT !.pc = "move", !.put = v].pc = "move"  BY <1>4
  <2> QED  BY <1>6, <2>1, <2>2, <2>3, <2>4
<1>9. WriterInv'
  <2>1. CASE wr' = Idle
    BY <2>1 DEF WriterInv, Idle
  <2>2. CASE wr' = [wr EXCEPT !.pc = "move"]
    BY <1>1, <1>4, <2>2 DEF WriterInv
  <2>3. CASE wr' = [wr EXCEPT !.pc = "move", !.put = Value(nops)]
    <3>1. PICK f : f = Value(nops)  OBVIOUS
    <3>2. /\ wr' = [pc |-> wr'.pc, op |-> wr'.op, key |-> wr'.key, arg |-> wr'.arg, put |-> wr'.put]
          /\ wr'.pc = "move" /\ wr'.key = k /\ wr'.put = f
      BY <1>3, <1>4, <2>3, <3>1
    <3>3. wr'.put = Value(nops)' /\ wr'.key \in Keys  BY <1>1, <3>1, <3>2 DEF Value, Fresh
    <3> QED  BY <1>1, <1>4, <3>2, <3>3 DEF WriterInv
  <2> QED  BY <1>6, <2>1, <2>2, <2>3
<1>10. DataInv'
  <2>1. next_id <= nops + crashes + IF wr'.pc = "idle" THEN 2 ELSE 1
    BY <1>1, <1>2, DataParts DEF DataInv
  <2>2. DataInv  BY <1>2
  <2> QED  BY <1>1, <1>7, <2>1, <2>2 DEF DataInv
<1>11. OrderInv'
  <2>1. ~null  BY <1>1, <1>2 DEF OrderInv
  <2> QED  BY <1>1, <1>2, <1>8, <2>1 DEF OrderInv
<1>12. FlushInv'  BY <1>1, <1>2 DEF FlushInv
<1> QED  BY <1>1, <1>2, <1>7, <1>9, <1>10, <1>11, <1>12 DEF IInv

(* rotate_memtable, second half. *)
LEMMA RotateNewHolds ==
    ASSUME IInv, RotateNew
    PROVE  IInv'
<1>1. /\ wr.pc = "new" /\ cur' = next_id /\ next_id' = next_id + 1 /\ synced' = 0
      /\ memtable' = IF Present(wr.put) THEN [memtable EXCEPT ![wr.key] = wr.put] ELSE memtable
      /\ null' = FALSE /\ wr' = Idle
      /\ UNCHANGED <<imm, sst, wal, fl, rd, status, nops, crashes, uses, sync_on_write>>
  BY DEF RotateNew, configVars
<1>2. /\ DataInv /\ OrderInv /\ WriterInv /\ FlushInv /\ GetInv
      /\ crashes = 0 => LayerInv /\ RangeInv
  BY DEF IInv
<1>3. nops \in Nat /\ nops > 0  BY <1>1, <1>2, DataParts DEF WriterInv
<1>4. /\ memtable' \in Tables(nops)
      /\ GetInv' /\ (LayerInv => LayerInv') /\ (RangeInv => RangeInv')
  <2>1. CASE wr.put = NoEntry
    <3>1. memtable' = memtable  BY <1>1, <2>1, NoEntryFacts
    <3>2. memtable \in Tables(nops)  BY <1>2, DataParts
    <3> QED  BY <1>1, <1>2, <1>3, <3>1, <3>2, ReadersStay
  <2>2. CASE wr.key \in Keys /\ wr.put = Value(nops)
    <3>1. Present(wr.put)  BY <1>3, <2>2, ValueFacts
    <3>2. memtable' = [memtable EXCEPT ![wr.key] = wr.put]  BY <1>1, <3>1
    <3>3. PICK k \in Keys, f \in {Value(nops)} : memtable' = [memtable EXCEPT ![k] = f]
      BY <2>2, <3>2
    <3> QED  BY <1>1, <1>2, <1>3, <3>3, MemPut
  <2> QED  BY <1>1, <1>2, <2>1, <2>2 DEF WriterInv
<1>5. DataInv'
  <2>1. /\ next_id \in Nat /\ cur \in Nat /\ crashes \in Nat /\ cur < next_id
        /\ next_id <= nops + crashes + 1 /\ nops <= MaxOps /\ crashes <= MaxCrashes
    BY <1>1, <1>2, DataParts, Constants DEF DataInv
  <2>2. next_id \in WalIds
    <3>1. next_id >= 1 /\ next_id <= LastId  BY <1>3, <2>1, Constants
    <3> QED  BY <2>1, <3>1, Constants
  <2>3. wr'.pc = "idle"  BY <1>1 DEF Idle
  <2>4. \A i \in WalIds : i > next_id => wal[i] = <<>>
    <3>1. \A i \in WalIds : i > next_id => i > cur  BY <2>1, Constants
    <3> QED  BY <1>2, <3>1 DEF DataInv
  <2>5. 0 \in 0 .. Len(wal[next_id])
    <3>1. wal[next_id] \in Seq(Record(nops))  BY <1>2, <2>2 DEF DataInv
    <3> QED  BY <3>1
  <2>6. next_id' <= nops + crashes + 2 /\ next_id' \in Nat /\ cur' < next_id'
    BY <1>1, <1>3, <2>1
  <2> QED  BY <1>1, <1>2, <1>4, <2>2, <2>3, <2>4, <2>5, <2>6 DEF DataInv
<1>6. OrderInv'
  <2>1. wr'.pc = "idle"  BY <1>1 DEF Idle
  <2>2. ASSUME NEW i \in 1 .. Len(imm) PROVE imm[i].id < next_id
    <3>1. imm[i].id <= cur /\ cur < next_id  BY <1>2 DEF OrderInv, DataInv
    <3>2. imm[i].id \in Nat
      <4>1. imm[i] \in Immutable(nops)  BY <1>2, DataParts
      <4> QED  BY <4>1, Constants DEF Immutable
    <3> QED  BY <1>2, <3>1, <3>2, DataParts
  <2>3. ASSUME NEW i \in 1 .. Len(imm) PROVE imm[i].id <= next_id /\ imm[i].id # next_id
    <3>1. imm[i].id \in Nat
      <4>1. imm[i] \in Immutable(nops)  BY <1>2, DataParts
      <4> QED  BY <4>1, Constants DEF Immutable
    <3> QED  BY <1>2, <2>2, <3>1, DataParts
  <2>4. null' = FALSE /\ null' = (wr'.pc = "new")  BY <1>1, <2>1
  <2> QED  BY <1>1, <1>2, <2>3, <2>4 DEF OrderInv
<1>7. WriterInv'  BY <1>1 DEF WriterInv, Idle
<1>8. FlushInv'  BY <1>1, <1>2 DEF FlushInv
<1> QED  BY <1>1, <1>2, <1>4, <1>5, <1>6, <1>7, <1>8 DEF IInv

(* rotate_memtable, first half. *)
LEMMA RotateMoveHolds ==
    ASSUME IInv, RotateMove
    PROVE  IInv'
<1>1. /\ wr.pc = "move" /\ imm' = Append(imm, [id |-> cur, tbl |-> memtable])
      /\ memtable' = EmptyTable /\ null' = TRUE /\ wr' = [wr EXCEPT !.pc = "new"]
      /\ UNCHANGED <<sst, wal, cur, next_id, synced, fl, rd, status, nops, crashes, uses, sync_on_write>>
  BY DEF RotateMove, logVars, configVars
<1>2. /\ DataInv /\ OrderInv /\ WriterInv /\ FlushInv /\ GetInv
      /\ crashes = 0 => LayerInv /\ RangeInv
  BY DEF IInv
<1>3. nops \in Nat /\ imm \in Seq(Immutable(nops)) /\ memtable \in Tables(nops) /\ sst \in Tables(nops)
      /\ cur \in WalIds /\ cur \in Nat
  BY <1>2, DataParts DEF DataInv
<1>4. PICK t \in Immutable(nops) : imm' = Append(imm, t) /\ t.id = cur /\ t.tbl = memtable
  <2>1. PICK t : t = [id |-> cur, tbl |-> memtable]  OBVIOUS
  <2>2. t \in Immutable(nops) /\ t.id = cur /\ t.tbl = memtable  BY <1>3, <2>1 DEF Immutable
  <2> QED  BY <1>1, <2>1, <2>2
<1>5. /\ imm' \in Seq(Immutable(nops)) /\ Len(imm') = Len(imm) + 1 /\ Len(imm) \in Nat
      /\ \A i \in 1 .. Len(imm) : imm'[i] = imm[i]
      /\ imm'[Len(imm) + 1] = t
      /\ \A i \in 1 .. Len(imm') : i \in 1 .. Len(imm) \/ i = Len(imm) + 1
  BY <1>3, <1>4
<1>6. EmptyTable \in Tables(nops) /\ \A k \in Keys : EmptyTable[k] = NoEntry
  BY DEF EmptyTable, Tables, Entries
<1>7. \A b : \A k \in Keys : Covers(memtable'[k], b)
  BY <1>1, <1>6, NoEntryFacts DEF Covers
<1>8. wr'.pc = "new" /\ wr'.put = wr.put /\ wr'.key = wr.key
      /\ wr' = [pc |-> wr'.pc, op |-> wr'.op, key |-> wr'.key, arg |-> wr'.arg, put |-> wr'.put]
  BY <1>1, <1>2 DEF WriterInv
<1>9. DataInv'
  <2>1. DataInv  BY <1>2
  <2> QED  BY <1>1, <1>3, <1>5, <1>6, <1>8, <2>1 DEF DataInv
<1>10. OrderInv'
  <2>1. ASSUME NEW i \in 1 .. Len(imm) PROVE imm[i].id < cur
    <3>1. imm[i].id \in Nat
      <4>1. imm[i] \in Immutable(nops)  BY <1>3
      <4> QED  BY <4>1, Constants DEF Immutable
    <3>2. imm[i].id <= cur /\ imm[i].id # cur  BY <1>1, <1>2 DEF OrderInv
    <3> QED  BY <1>3, <3>1, <3>2
  <2>2. ASSUME NEW i \in 1 .. Len(imm'), NEW j \in 1 .. Len(imm'), i < j
        PROVE  imm'[i].id < imm'[j].id
    <3>1. i \in 1 .. Len(imm)  BY <1>5, <2>2
    <3>2. CASE j \in 1 .. Len(imm)
      BY <1>2, <1>5, <2>2, <3>1, <3>2 DEF OrderInv
    <3>3. CASE j = Len(imm) + 1
      BY <1>4, <1>5, <2>1, <3>1, <3>3
    <3> QED  BY <1>5, <3>2, <3>3
  <2>3. ASSUME NEW i \in 1 .. Len(imm') PROVE imm'[i].id <= cur
    <3>1. CASE i \in 1 .. Len(imm)
      BY <1>2, <1>5, <3>1 DEF OrderInv
    <3>2. CASE i = Len(imm) + 1
      BY <1>3, <1>4, <1>5, <3>2
    <3> QED  BY <1>5, <3>1, <3>2
  <2>4. null' = (wr'.pc = "new")  BY <1>1, <1>8
  <2> QED  BY <1>1, <2>2, <2>3, <2>4 DEF OrderInv
<1>11. WriterInv'
  <2>1. Value(nops)' = Value(nops)  BY <1>1 DEF Value, Fresh
  <2> QED  BY <1>1, <1>2, <1>8, <2>1 DEF WriterInv
<1>12. FlushInv'
  <2>1. imm # <<>> => imm' # <<>> /\ imm'[1] = imm[1]  BY <1>3, <1>5
  <2> QED  BY <1>1, <1>2, <2>1 DEF FlushInv
<1>13. GetInv'
  <2> DEFINE k == rd.key
             b == Number(rd.from)
  <2>1. ASSUME rd.pc \in {"get_imm", "get_sst"}
        PROVE  k \in Keys /\ Covers(memtable[k], b)
    BY <1>2, <2>1 DEF GetInv
  <2>2. ASSUME rd.pc = "get_imm" PROVE NoOlder(OldEntry(imm, sst, k)', b)
    <3>1. k \in Keys /\ Covers(memtable[k], b) /\ NoOlder(OldEntry(imm, sst, k), b)
      BY <1>2, <2>2 DEF GetInv
    <3>2. OldEntry(imm, sst, k)' = OldEntry(imm', sst, k)  BY <1>1 DEF OldEntry, Newest, Hits
    <3>3. PICK more : more = imm'  OBVIOUS
    <3>4. OldEntry(more, sst, k)
             = IF Present(memtable[k]) THEN memtable[k] ELSE OldEntry(imm, sst, k)
      <4>1. more = Append(imm, t)  BY <1>4, <3>3
      <4>2. k \in Keys  BY <3>1
      <4>3. OldEntry(more, sst, k) = IF Present(t.tbl[k]) THEN t.tbl[k] ELSE OldEntry(imm, sst, k)
        <5> HIDE DEF k
        <5> QED  BY <1>3, <4>1, <4>2, OldEntryAppend
      <4> QED  BY <1>4, <4>3
    <3> QED  BY <3>1, <3>2, <3>3, <3>4 DEF Covers
  <2>3. ASSUME rd.pc = "get_sst", NEW i \in 1 .. Len(imm') PROVE Covers(imm'[i].tbl[k], b)
    <3>1. CASE i \in 1 .. Len(imm)
      BY <1>2, <1>5, <2>3, <3>1 DEF GetInv
    <3>2. CASE i = Len(imm) + 1
      BY <1>4, <1>5, <2>1, <2>3, <3>2
    <3> QED  BY <1>5, <3>1, <3>2
  <2> QED  BY <1>1, <1>2, <1>7, <2>1, <2>2, <2>3 DEF GetInv
<1>14. LayerInv => LayerInv'
  <2> SUFFICES ASSUME LayerInv PROVE LayerInv'  OBVIOUS
  <2>1. ASSUME NEW k \in Keys, NEW i \in 1 .. Len(imm') PROVE Covers(imm'[i].tbl[k], Num(sst[k]))
    <3>1. CASE i \in 1 .. Len(imm)
      BY <1>5, <3>1 DEF LayerInv
    <3>2. CASE i = Len(imm) + 1
      BY <1>4, <1>5, <3>2 DEF LayerInv
    <3> QED  BY <1>5, <3>1, <3>2
  <2>2. ASSUME NEW k \in Keys, NEW i \in 1 .. Len(imm'), NEW j \in 1 .. Len(imm'), i < j
        PROVE  Covers(imm'[j].tbl[k], Num(imm'[i].tbl[k]))
    <3>1. i \in 1 .. Len(imm)  BY <1>5, <2>2
    <3>2. CASE j \in 1 .. Len(imm)
      BY <1>5, <2>2, <3>1, <3>2 DEF LayerInv
    <3>3. CASE j = Len(imm) + 1
      BY <1>4, <1>5, <3>1, <3>3 DEF LayerInv
    <3> QED  BY <1>5, <3>2, <3>3
  <2> QED  BY <1>1, <1>7, <2>1, <2>2 DEF LayerInv
<1>15. RangeInv => RangeInv'
  <2> SUFFICES ASSUME RangeInv PROVE RangeInv'  OBVIOUS
  <2>1. ASSUME NEW k \in Keys, rd.pc = "range_imm", NEW i \in 1 .. Len(imm')
        PROVE  Covers(imm'[i].tbl[k], Num(rd.base[k]))
    <3>1. CASE i \in 1 .. Len(imm)
      BY <1>5, <2>1, <3>1 DEF RangeInv
    <3>2. CASE i = Len(imm) + 1
      BY <1>4, <1>5, <2>1, <3>2 DEF RangeInv
    <3> QED  BY <1>5, <3>1, <3>2
  <2> QED  BY <1>1, <1>7, <2>1 DEF RangeInv
<1> QED  BY <1>1, <1>2, <1>9, <1>10, <1>11, <1>12, <1>13, <1>14, <1>15 DEF IInv

(* The oldest immutable memtable is taken. *)
LEMMA FlushPickHolds ==
    ASSUME IInv, FlushPick
    PROVE  IInv'
<1>1. /\ imm # <<>>
      /\ fl' = [pc |-> IF imm[1].tbl = EmptyTable THEN "erase" ELSE "create",
                id |-> imm[1].id, tbl |-> imm[1].tbl]
      /\ UNCHANGED <<memtable, null, imm, sst, wal, cur, next_id, synced, wr, rd, status, nops,
                     crashes, uses, sync_on_write>>
  BY DEF FlushPick, memVars, logVars, configVars
<1>2. /\ DataInv /\ OrderInv /\ WriterInv /\ FlushInv /\ GetInv
      /\ crashes = 0 => LayerInv /\ RangeInv
  BY DEF IInv
<1>3. DataInv' /\ OrderInv' /\ WriterInv'
  BY <1>1, <1>2 DEF DataInv, OrderInv, WriterInv
<1>4. FlushInv'
  <2>1. /\ fl'.pc \in {"create", "erase"} /\ fl'.id = imm[1].id /\ fl'.tbl = imm[1].tbl
        /\ fl' = [pc |-> fl'.pc, id |-> fl'.id, tbl |-> fl'.tbl]
        /\ fl'.pc = "erase" => fl'.tbl = EmptyTable
    BY <1>1
  <2>2. \A k \in Keys : ~Present(EmptyTable[k])  BY NoEntryFacts DEF EmptyTable
  <2> QED  BY <1>1, <2>1, <2>2 DEF FlushInv
<1>5. GetInv' /\ (LayerInv => LayerInv') /\ (RangeInv => RangeInv')
  BY <1>1, <1>2, DataParts, ReadersStay
<1> QED  BY <1>1, <1>2, <1>3, <1>4, <1>5 DEF IInv

(* The SSTable is written, or creating it fails. *)
LEMMA FlushCreateHolds ==
    ASSUME IInv, FlushCreate
    PROVE  IInv'
<1>1. /\ fl.pc = "create"
      /\ UNCHANGED <<memtable, null, imm, wal, cur, next_id, synced, wr, rd, status, nops,
                     crashes, uses, sync_on_write>>
  BY DEF FlushCreate, memVars, logVars, configVars
<1>2. /\ DataInv /\ OrderInv /\ WriterInv /\ FlushInv /\ GetInv
      /\ crashes = 0 => LayerInv /\ RangeInv
  BY DEF IInv
<1>3. OrderInv' /\ WriterInv'  BY <1>1, <1>2 DEF OrderInv, WriterInv
<1>4. CASE fl' = NoFlush /\ sst' = sst
  <2>1. DataInv' /\ FlushInv'  BY <1>1, <1>2, <1>4 DEF DataInv, FlushInv, NoFlush
  <2>2. GetInv' /\ (LayerInv => LayerInv') /\ (RangeInv => RangeInv')
    BY <1>1, <1>2, <1>4, DataParts, ReadersStay
  <2> QED  BY <1>1, <1>2, <1>3, <2>1, <2>2 DEF IInv
<1>5. CASE fl' = [fl EXCEPT !.pc = "clear"] /\ sst' = Overwrite(sst, [k \in Keys |-> get_value(fl.tbl[k])])
  <2>1. /\ nops \in Nat /\ imm \in Seq(Immutable(nops)) /\ sst \in Tables(nops)
        /\ imm # <<>> /\ fl.tbl = imm[1].tbl /\ Len(imm) \in Nat /\ 1 \in 1 .. Len(imm)
    <3>1. nops \in Nat /\ imm \in Seq(Immutable(nops)) /\ sst \in Tables(nops)  BY <1>2, DataParts
    <3>2. imm # <<>> /\ fl.tbl = imm[1].tbl  BY <1>1, <1>2 DEF FlushInv
    <3>3. Len(imm) \in Nat /\ 1 \in 1 .. Len(imm)  BY <3>1, <3>2
    <3> QED  BY <3>1, <3>2, <3>3
  <2>2. ASSUME NEW k \in Keys
        PROVE  /\ sst'[k] = IF Present(imm[1].tbl[k]) THEN imm[1].tbl[k] ELSE sst[k]
               /\ sst'[k] \in Entries(nops)
    <3>1. imm[1].tbl[k] \in Entries(nops) /\ get_value(imm[1].tbl[k]) = imm[1].tbl[k]
      BY <2>1, HitFacts
    <3>2. sst'[k] = IF Present(get_value(fl.tbl[k])) THEN get_value(fl.tbl[k]) ELSE sst[k]
      BY <1>5 DEF Overwrite
    <3>3. sst[k] \in Entries(nops)  BY <2>1 DEF Tables
    <3> QED  BY <2>1, <3>1, <3>2, <3>3
  <2>3. sst' \in Tables(nops)
    <3>1. sst' = [k \in Keys |-> sst'[k]]  BY <1>5 DEF Overwrite
    <3> QED  BY <2>2, <3>1 DEF Tables
  <2>4. DataInv'
    <3>1. DataInv  BY <1>2
    <3> QED  BY <1>1, <2>3, <3>1 DEF DataInv
  <2>5. FlushInv'
    <3>1. /\ fl'.pc = "clear" /\ fl'.id = fl.id /\ fl'.tbl = fl.tbl
          /\ fl' = [pc |-> fl'.pc, id |-> fl'.id, tbl |-> fl'.tbl]
      BY <1>2, <1>5 DEF FlushInv
    <3> QED  BY <1>1, <1>2, <2>1, <2>2, <3>1 DEF FlushInv
  <2>6. GetInv'
    <3> DEFINE k == rd.key
               b == Number(rd.from)
    <3>1. ASSUME rd.pc = "get_imm" PROVE NoOlder(OldEntry(imm, sst, k)', b)
      <4>1. k \in Keys /\ NoOlder(OldEntry(imm, sst, k), b)  BY <1>2, <3>1 DEF GetInv
      <4>2. PICK r \in Tables(nops) : r = sst'  BY <2>3
      <4>3. OldEntry(imm, sst, k)' = OldEntry(imm, r, k)
        BY <1>1, <4>2 DEF OldEntry, Newest, Hits
      <4>4. OldEntry(imm, r, k) = OldEntry(imm, sst, k)
        <5> HIDE DEF k
        <5> QED  BY <2>1, <2>2, <4>1, <4>2, OldEntryFlush
      <4> QED  BY <4>1, <4>3, <4>4
    <3>2. ASSUME rd.pc = "get_sst" PROVE NoOlder(sst'[k], b)
      <4>1. k \in Keys /\ Covers(imm[1].tbl[k], b) /\ NoOlder(sst[k], b)
        BY <1>2, <2>1, <3>2 DEF GetInv
      <4> QED  BY <2>2, <4>1 DEF Covers
    <3> QED  BY <1>1, <1>2, <3>1, <3>2 DEF GetInv
  <2>7. LayerInv => LayerInv'
    <3> SUFFICES ASSUME LayerInv PROVE LayerInv'  OBVIOUS
    <3>1. ASSUME NEW k \in Keys
          PROVE  /\ Covers(memtable[k], Num(sst'[k]))
                 /\ \A i \in 1 .. Len(imm) : Covers(imm[i].tbl[k], Num(sst'[k]))
      <4>1. CASE sst'[k] = sst[k]
        BY <4>1 DEF LayerInv
      <4>2. CASE sst'[k] = imm[1].tbl[k]
        <5>1. Covers(memtable[k], Num(imm[1].tbl[k]))  BY <2>1 DEF LayerInv
        <5>2. Covers(imm[1].tbl[k], Num(imm[1].tbl[k]))
          <6>1. imm[1].tbl[k] \in Entries(nops)  BY <2>1, HitFacts
          <6> QED  BY <2>1, <6>1, EntryFacts DEF Covers
        <5>3. ASSUME NEW i \in 1 .. Len(imm), i # 1 PROVE Covers(imm[i].tbl[k], Num(imm[1].tbl[k]))
          <6>1. 1 < i  BY <5>3
          <6> QED  BY <2>1, <6>1 DEF LayerInv
        <5> QED  BY <4>2, <5>1, <5>2, <5>3
      <4> QED  BY <2>2, <4>1, <4>2
    <3> QED  BY <1>1, <3>1 DEF LayerInv
  <2>8. RangeInv => RangeInv'  BY <1>1 DEF RangeInv
  <2> QED  BY <1>1, <1>2, <1>3, <2>4, <2>5, <2>6, <2>7, <2>8 DEF IInv
<1> QED  BY <1>4, <1>5 DEF FlushCreate

(* Its log file is removed. *)
LEMMA FlushClearHolds ==
    ASSUME IInv, FlushClear
    PROVE  IInv'
<1>1. /\ fl.pc = "clear" /\ wal' = [wal EXCEPT ![fl.id] = <<>>]
      /\ synced' = IF fl.id = cur THEN 0 ELSE synced
      /\ fl' = [fl EXCEPT !.pc = "erase"]
      /\ UNCHANGED <<memtable, null, imm, sst, cur, next_id, wr, rd, status, nops,
                     crashes, uses, sync_on_write>>
  BY DEF FlushClear, memVars, configVars
<1>2. /\ DataInv /\ OrderInv /\ WriterInv /\ FlushInv /\ GetInv
      /\ crashes = 0 => LayerInv /\ RangeInv
  BY DEF IInv
<1>3. DataInv'
  <2>1. wal \in [WalIds -> Seq(Record(nops))] /\ cur \in WalIds /\ synced \in 0 .. Len(wal[cur])
        /\ \A i \in WalIds : i > cur => wal[i] = <<>>
    BY <1>2 DEF DataInv
  <2>2. <<>> \in Seq(Record(nops)) /\ Len(<<>>) = 0  OBVIOUS
  <2>3. wal' \in [WalIds -> Seq(Record(nops))] /\ \A i \in WalIds : i > cur => wal'[i] = <<>>
    BY <1>1, <2>1, <2>2
  <2>4. synced' \in 0 .. Len(wal'[cur])
    <3>1. Len(wal'[cur]) \in Nat  BY <2>1, <2>3
    <3>2. CASE fl.id = cur
      BY <1>1, <3>1, <3>2
    <3>3. CASE fl.id # cur
      BY <1>1, <2>1, <3>3
    <3> QED  BY <3>2, <3>3
  <2>5. DataInv  BY <1>2
  <2> QED  BY <1>1, <2>3, <2>4, <2>5 DEF DataInv
<1>4. OrderInv' /\ WriterInv'  BY <1>1, <1>2 DEF OrderInv, WriterInv
<1>5. FlushInv'
  <2>1. /\ fl'.pc = "erase" /\ fl'.id = fl.id /\ fl'.tbl = fl.tbl
        /\ fl' = [pc |-> fl'.pc, id |-> fl'.id, tbl |-> fl'.tbl]
    BY <1>1, <1>2 DEF FlushInv
  <2> QED  BY <1>1, <1>2, <2>1 DEF FlushInv
<1>6. GetInv' /\ (LayerInv => LayerInv') /\ (RangeInv => RangeInv')
  BY <1>1, <1>2, DataParts, ReadersStay
<1> QED  BY <1>1, <1>2, <1>3, <1>4, <1>5, <1>6 DEF IInv

(* It is erased. *)
LEMMA FlushEraseHolds ==
    ASSUME IInv, FlushErase
    PROVE  IInv'
<1>1. /\ fl.pc = "erase" /\ imm' = Erase(imm, fl.id) /\ fl' = NoFlush
      /\ UNCHANGED <<memtable, null, sst, wal, cur, next_id, synced, wr, rd, status, nops,
                     crashes, uses, sync_on_write>>
  BY DEF FlushErase, logVars, configVars
<1>2. /\ DataInv /\ OrderInv /\ WriterInv /\ FlushInv /\ GetInv
      /\ crashes = 0 => LayerInv /\ RangeInv
  BY DEF IInv
<1>3. /\ nops \in Nat /\ imm \in Seq(Immutable(nops)) /\ sst \in Tables(nops)
      /\ imm # <<>> /\ fl.id = imm[1].id /\ fl.tbl = imm[1].tbl
  BY <1>1, <1>2, DataParts DEF FlushInv
<1>4. imm' = Tail(imm)
  <2>1. \A i, j \in 1 .. Len(imm) : i < j => imm[i].id < imm[j].id  BY <1>2 DEF OrderInv
  <2> QED  BY <1>1, <1>3, <2>1, EraseFirst
<1>5. /\ imm' \in Seq(Immutable(nops)) /\ Len(imm') = Len(imm) - 1 /\ Len(imm) \in Nat /\ Len(imm) > 0
      /\ \A i \in 1 .. Len(imm') : i + 1 \in 1 .. Len(imm) /\ imm'[i] = imm[i + 1]
  BY <1>3, <1>4
<1>6. ASSUME NEW i \in 1 .. Len(imm') PROVE \E h \in 1 .. Len(imm) : h = i + 1 /\ imm'[i] = imm[h]
  BY <1>5
<1>7. DataInv'
  <2>1. DataInv  BY <1>2
  <2> QED  BY <1>1, <1>5, <2>1 DEF DataInv
<1>8. OrderInv'
  <2>1. ASSUME NEW i \in 1 .. Len(imm'), NEW j \in 1 .. Len(imm'), i < j
        PROVE  imm'[i].id < imm'[j].id
    <3>1. PICK g \in 1 .. Len(imm) : g = i + 1 /\ imm'[i] = imm[g]  BY <1>6
    <3>2. PICK h \in 1 .. Len(imm) : h = j + 1 /\ imm'[j] = imm[h]  BY <1>6
    <3>3. g < h  BY <2>1, <3>1, <3>2
    <3> QED  BY <1>2, <3>1, <3>2, <3>3 DEF OrderInv
  <2>2. ASSUME NEW i \in 1 .. Len(imm') PROVE imm'[i].id <= cur /\ (imm'[i].id = cur => null)
    <3>1. PICK h \in 1 .. Len(imm) : imm'[i] = imm[h]  BY <1>6
    <3> QED  BY <1>2, <3>1 DEF OrderInv
  <2> QED  BY <1>1, <1>2, <2>1, <2>2 DEF OrderInv
<1>9. WriterInv'  BY <1>1, <1>2 DEF WriterInv
<1>10. FlushInv'  BY <1>1 DEF FlushInv, NoFlush
<1>11. GetInv'
  <2> DEFINE k == rd.key
             b == Number(rd.from)
  <2>1. ASSUME rd.pc = "get_imm" PROVE NoOlder(OldEntry(imm, sst, k)', b)
    <3>1. k \in Keys /\ NoOlder(OldEntry(imm, sst, k), b)  BY <1>2, <2>1 DEF GetInv
    <3>2. PICK rest : rest = imm'  OBVIOUS
    <3>3. OldEntry(imm, sst, k)' = OldEntry(rest, sst, k)
      BY <1>1, <3>2 DEF OldEntry, Newest, Hits
    <3>4. Present(imm[1].tbl[k]) => sst[k] = imm[1].tbl[k]
      BY <1>1, <1>2, <1>3, <3>1 DEF FlushInv
    <3>5. OldEntry(rest, sst, k) = OldEntry(imm, sst, k)
      <4> HIDE DEF k
      <4> QED  BY <1>3, <1>4, <3>1, <3>2, <3>4, OldEntryTail
    <3> QED  BY <3>1, <3>3, <3>5
  <2>2. ASSUME rd.pc = "get_sst", NEW i \in 1 .. Len(imm') PROVE Covers(imm'[i].tbl[k], b)
    <3>1. PICK h \in 1 .. Len(imm) : imm'[i] = imm[h]  BY <1>6
    <3> QED  BY <1>2, <2>2, <3>1 DEF GetInv
  <2> QED  BY <1>1, <1>2, <2>1, <2>2 DEF GetInv
<1>12. LayerInv => LayerInv'
  <2> SUFFICES ASSUME LayerInv PROVE LayerInv'  OBVIOUS
  <2>1. ASSUME NEW k \in Keys, NEW i \in 1 .. Len(imm')
        PROVE  Covers(imm'[i].tbl[k], Num(sst[k])) /\ Covers(memtable[k], Num(imm'[i].tbl[k]))
    <3>1. PICK h \in 1 .. Len(imm) : imm'[i] = imm[h]  BY <1>6
    <3> QED  BY <3>1 DEF LayerInv
  <2>2. ASSUME NEW k \in Keys, NEW i \in 1 .. Len(imm'), NEW j \in 1 .. Len(imm'), i < j
        PROVE  Covers(imm'[j].tbl[k], Num(imm'[i].tbl[k]))
    <3>1. PICK g \in 1 .. Len(imm) : g = i + 1 /\ imm'[i] = imm[g]  BY <1>6
    <3>2. PICK h \in 1 .. Len(imm) : h = j + 1 /\ imm'[j] = imm[h]  BY <1>6
    <3>3. g < h  BY <2>2, <3>1, <3>2
    <3> QED  BY <3>1, <3>2, <3>3 DEF LayerInv
  <2> QED  BY <1>1, <2>1, <2>2 DEF LayerInv
<1>13. RangeInv => RangeInv'
  <2> SUFFICES ASSUME RangeInv PROVE RangeInv'  OBVIOUS
  <2>1. ASSUME NEW k \in Keys, rd.pc = "range_imm", NEW i \in 1 .. Len(imm')
        PROVE  Covers(imm'[i].tbl[k], Num(rd.base[k]))
    <3>1. PICK h \in 1 .. Len(imm) : imm'[i] = imm[h]  BY <1>6
    <3> QED  BY <2>1, <3>1 DEF RangeInv
  <2> QED  BY <1>1, <2>1 DEF RangeInv
<1> QED  BY <1>1, <1>2, <1>7, <1>8, <1>9, <1>10, <1>11, <1>12, <1>13 DEF IInv

(* What a reader leaves alone. *)
LEMMA ReaderFrame ==
    ASSUME IInv, UNCHANGED unchangedByRead, status' \in {"up", "dead"}
    PROVE  DataInv' /\ OrderInv' /\ WriterInv' /\ FlushInv' /\ (LayerInv => LayerInv')
           /\ crashes' = crashes
<1>1. UNCHANGED <<memtable, null, imm, sst, wal, cur, next_id, synced, wr, fl, nops, crashes,
                  uses, sync_on_write>>
  BY DEF unchangedByRead, memVars, logVars, configVars
<1>2. DataInv /\ OrderInv /\ WriterInv /\ FlushInv  BY DEF IInv
<1> QED  BY <1>1, <1>2 DEF DataInv, OrderInv, WriterInv, FlushInv, LayerInv

(* A reader that has finished, or that died. *)
LEMMA ReaderEnds ==
    ASSUME IInv, UNCHANGED unchangedByRead, status' \in {"up", "dead"}, rd' = NoRead
    PROVE  IInv'
<1>1. rd'.pc = "idle" /\ DOMAIN rd'.got = Keys
      /\ rd' = [pc |-> rd'.pc, key |-> rd'.key, from |-> rd'.from, got |-> rd'.got, base |-> rd'.base,
                 met |-> rd'.met]
  BY DEF NoRead, EmptyTable
<1>2. GetInv' /\ RangeInv'  BY <1>1 DEF GetInv, RangeInv
<1> QED  BY <1>2, ReaderFrame DEF IInv

(* Storage::get: the memtable has nothing to answer. *)
LEMMA GetLatestHolds ==
    ASSUME IInv, GetLatest, status = "up"
    PROVE  IInv'
<1>1. UNCHANGED unchangedByRead  BY DEF GetLatest
<1>2. CASE NullAccess
  BY <1>1, <1>2, ReaderEnds DEF NullAccess
<1>3. ASSUME NEW k \in Keys, ~Alive(get_value(memtable[k])), status' = status,
             rd' = [NoRead EXCEPT !.pc = "get_imm", !.key = k, !.from = View(k)]
      PROVE  IInv'
  <2>1. DataInv' /\ OrderInv' /\ WriterInv' /\ FlushInv' /\ (LayerInv => LayerInv') /\ crashes' = crashes
    BY <1>1, <1>3, ReaderFrame
  <2>2. /\ nops \in Nat /\ memtable[k] \in Entries(nops) /\ OldEntry(imm, sst, k) \in Entries(nops)
    BY DataParts DEF IInv
  <2>3. PICK e \in Entries(nops) : e = OldEntry(imm, sst, k)  BY <2>2
  <2>4. ~Alive(memtable[k]) /\ get_value(memtable[k]) = memtable[k]  BY <1>3, <2>2, EntryFacts
  <2>5. View(k) = Contents(e)  BY <2>3, <2>4 DEF View, Lookup
  <2>6. PICK c : c = Contents(e)  OBVIOUS
  <2>7. Number(c) = Num(e) /\ Num(e) \in 0 .. nops /\ NoOlder(e, Num(e))
    BY <2>2, <2>6, EntryFacts DEF Num
  <2>8. Covers(memtable[k], Num(e))
    <3>1. Present(memtable[k]) => memtable[k].dead  BY <2>2, <2>4, EntryFacts
    <3> QED  BY <3>1 DEF Covers, NoOlder
  <2>9. /\ rd'.pc = "get_imm" /\ rd'.key = k /\ rd'.from = c /\ rd'.got = EmptyTable
        /\ rd' = [pc |-> rd'.pc, key |-> rd'.key, from |-> rd'.from, got |-> rd'.got, base |-> rd'.base,
                 met |-> rd'.met]
    BY <1>3, <2>5, <2>6 DEF NoRead
  <2>10. DOMAIN rd'.got = Keys  BY <2>9 DEF EmptyTable
  <2>11. memtable' = memtable /\ nops' = nops /\ OldEntry(imm, sst, k)' = OldEntry(imm, sst, k)
    BY <1>1 DEF unchangedByRead, memVars, OldEntry, Newest, Hits
  <2>12. GetInv'
    BY <2>3, <2>7, <2>8, <2>9, <2>10, <2>11 DEF GetInv
  <2>13. RangeInv'  BY <2>9 DEF RangeInv
  <2> QED  BY <2>1, <2>12, <2>13 DEF IInv
<1>4. ASSUME NEW k \in Keys, MeetWrite(k)
      PROVE  IInv'
  <2>1. CASE rd' = NoRead /\ status' = "dead"
    BY <1>1, <2>1, ReaderEnds
  <2>2. CASE /\ rd' = [NoRead EXCEPT !.pc = "got", !.key = k, !.from = View(k), !.met = TRUE,
                                    !.got[k] = DefaultEValue]
             /\ status' = status
    <3>1. DataInv' /\ OrderInv' /\ WriterInv' /\ FlushInv' /\ (LayerInv => LayerInv') /\ crashes' = crashes
      BY <1>1, <2>2, ReaderFrame
    <3>2. /\ nops \in Nat /\ memtable[k] \in Entries(nops) /\ OldEntry(imm, sst, k) \in Entries(nops)
      BY DataParts DEF IInv
    <3>3. PICK e \in Entries(nops) : View(k) = Contents(e)
      BY <3>2, EntryFacts DEF View, Lookup
    <3>4. PICK c : c = Contents(e)  OBVIOUS
    <3>5. Number(c) \in 0 .. nops  BY <3>2, <3>4, EntryFacts DEF Num
    <3>6. PICK g : g = [EmptyTable EXCEPT ![k] = DefaultEValue]  OBVIOUS
    <3>7. /\ rd'.pc = "got" /\ rd'.key = k /\ rd'.from = c /\ rd'.got = g /\ rd'.met
          /\ rd' = [pc |-> rd'.pc, key |-> rd'.key, from |-> rd'.from, got |-> rd'.got,
                    base |-> rd'.base, met |-> rd'.met]
      BY <2>2, <3>3, <3>4, <3>6 DEF NoRead
    <3>8. DOMAIN g = Keys  BY <3>6 DEF EmptyTable
    <3>9. nops' = nops  BY <1>1 DEF unchangedByRead
    <3>10. GetInv'  BY <3>5, <3>7, <3>8, <3>9 DEF GetInv
    <3>11. RangeInv'  BY <3>7 DEF RangeInv
    <3> QED  BY <3>1, <3>10, <3>11 DEF IInv
  <2> QED  BY <1>4, <2>1, <2>2 DEF MeetWrite
<1> QED  BY <1>2, <1>3, <1>4 DEF GetLatest

(* A read that has found what it answers. *)
LEMMA GetReturns ==
    ASSUME IInv, UNCHANGED unchangedByRead, status' = status, NEW e,
           rd.pc \in {"get_imm", "get_sst"}, GetReturn(e), NoOlder(e, Number(rd.from))
    PROVE  IInv'
<1>1. status' \in {"up", "dead"}  BY DEF IInv, DataInv
<1>2. DataInv' /\ OrderInv' /\ WriterInv' /\ FlushInv' /\ (LayerInv => LayerInv') /\ crashes' = crashes
  BY <1>1, ReaderFrame
<1>3. GetInv  BY DEF IInv
<1>4. rd.key \in Keys /\ DOMAIN rd.got = Keys /\ Number(rd.from) \in 0 .. nops
      /\ rd = [pc |-> rd.pc, key |-> rd.key, from |-> rd.from, got |-> rd.got, base |-> rd.base,
                met |-> rd.met]
  BY <1>3 DEF GetInv
<1>5. /\ rd'.pc = "got" /\ rd'.key = rd.key /\ rd'.from = rd.from /\ rd'.got = [rd.got EXCEPT ![rd.key] = e]
      /\ rd' = [pc |-> rd'.pc, key |-> rd'.key, from |-> rd'.from, got |-> rd'.got, base |-> rd'.base,
                 met |-> rd'.met]
  BY <1>4 DEF GetReturn
<1>6. DOMAIN rd'.got = Keys /\ rd'.got[rd'.key] = e  BY <1>4, <1>5
<1>7. nops' = nops  BY DEF unchangedByRead
<1>8. GetInv'  BY <1>4, <1>5, <1>6, <1>7 DEF GetInv
<1>9. RangeInv'  BY <1>5 DEF RangeInv
<1> QED  BY <1>2, <1>8, <1>9 DEF IInv

(* ... in the immutable memtables ... *)
LEMMA GetImmutableHolds ==
    ASSUME IInv, GetImmutable
    PROVE  IInv'
<1>1. rd.pc = "get_imm" /\ UNCHANGED unchangedByRead /\ status' = status  BY DEF GetImmutable
<1>2. GetInv  BY DEF IInv
<1>3. /\ rd.key \in Keys /\ NoOlder(OldEntry(imm, sst, rd.key), Number(rd.from))
      /\ DOMAIN rd.got = Keys
      /\ Number(rd.from) \in 0 .. nops /\ Covers(memtable[rd.key], Number(rd.from))
      /\ rd = [pc |-> rd.pc, key |-> rd.key, from |-> rd.from, got |-> rd.got, base |-> rd.base,
                met |-> rd.met]
  BY <1>1, <1>2 DEF GetInv
<1>4. CASE Hits(imm, rd.key) = {}
  <2>1. rd' = [rd EXCEPT !.pc = "get_sst"]  BY <1>4 DEF GetImmutable
  <2>2. status' \in {"up", "dead"}  BY <1>1 DEF IInv, DataInv
  <2>3. DataInv' /\ OrderInv' /\ WriterInv' /\ FlushInv' /\ (LayerInv => LayerInv') /\ crashes' = crashes
    BY <1>1, <2>2, ReaderFrame
  <2>4. NoOlder(sst[rd.key], Number(rd.from))  BY <1>3, <1>4 DEF OldEntry
  <2>5. \A i \in 1 .. Len(imm) : ~Present(imm[i].tbl[rd.key])
    <3>1. nops \in Nat /\ imm \in Seq(Immutable(nops))  BY DataParts DEF IInv
    <3> QED  BY <1>3, <1>4, <3>1, HitFacts
  <2>6. /\ rd'.pc = "get_sst" /\ rd'.key = rd.key /\ rd'.from = rd.from /\ rd'.got = rd.got
        /\ rd' = [pc |-> rd'.pc, key |-> rd'.key, from |-> rd'.from, got |-> rd'.got, base |-> rd'.base,
                 met |-> rd'.met]
    BY <1>3, <2>1
  <2>7. UNCHANGED <<memtable, imm, sst, nops>>  BY <1>1 DEF unchangedByRead, memVars
  <2>8. \A i \in 1 .. Len(imm) : Covers(imm[i].tbl[rd.key], Number(rd.from))  BY <2>5 DEF Covers
  <2>9. GetInv'
    BY <1>3, <2>4, <2>6, <2>7, <2>8 DEF GetInv
  <2>10. RangeInv'  BY <2>6 DEF RangeInv
  <2> QED  BY <2>3, <2>9, <2>10 DEF IInv
<1>5. CASE Hits(imm, rd.key) # {}
  <2>1. GetReturn(Newest(imm, rd.key))  BY <1>5 DEF GetImmutable
  <2>2. NoOlder(Newest(imm, rd.key), Number(rd.from))  BY <1>3, <1>5 DEF OldEntry
  <2> QED  BY <1>1, <2>1, <2>2, GetReturns
<1> QED  BY <1>4, <1>5

(* ... or in the SSTables. *)
LEMMA GetSSTableHolds ==
    ASSUME IInv, GetSSTable
    PROVE  IInv'
<1>1. rd.pc = "get_sst" /\ UNCHANGED unchangedByRead /\ status' = status /\ GetReturn(sst[rd.key])
  BY DEF GetSSTable
<1>2. NoOlder(sst[rd.key], Number(rd.from))  BY <1>1 DEF IInv, GetInv
<1> QED  BY <1>1, <1>2, GetReturns

(* Storage::range. *)
LEMMA RangeHolds ==
    ASSUME IInv, RangeSSTable \/ RangeImmutable \/ (RangeMemTable /\ ~NullAccess)
    PROVE  IInv'
<1>1. UNCHANGED unchangedByRead /\ status' = status
  BY DEF RangeSSTable, RangeImmutable, RangeMemTable
<1>2. status' \in {"up", "dead"}  BY <1>1 DEF IInv, DataInv
<1>3. DataInv' /\ OrderInv' /\ WriterInv' /\ FlushInv' /\ (LayerInv => LayerInv') /\ crashes' = crashes
  BY <1>1, <1>2, ReaderFrame
<1>4. UNCHANGED <<memtable, imm, sst, nops>>  BY <1>1 DEF unchangedByRead, memVars
<1>5. /\ rd = [pc |-> rd.pc, key |-> rd.key, from |-> rd.from, got |-> rd.got, base |-> rd.base,
                met |-> rd.met]
      /\ DOMAIN rd.got = Keys
  BY DEF IInv, GetInv
<1>6. nops \in Nat /\ imm \in Seq(Immutable(nops)) /\ memtable \in Tables(nops) /\ sst \in Tables(nops)
  BY DataParts DEF IInv
<1>7. CASE RangeSSTable
  <2>1. /\ rd'.pc = "range_imm" /\ rd'.got = sst /\ rd'.base = sst
        /\ rd' = [pc |-> rd'.pc, key |-> rd'.key, from |-> rd'.from, got |-> rd'.got, base |-> rd'.base,
                 met |-> rd'.met]
    BY <1>7 DEF RangeSSTable, NoRead
  <2>2. DOMAIN sst = Keys  BY <1>6 DEF Tables
  <2>3. GetInv'  BY <2>1, <2>2 DEF GetInv
  <2>4. ASSUME LayerInv, NEW k \in Keys
        PROVE  /\ Num(sst[k]) \in 0 .. nops /\ NoOlder(sst[k], Num(sst[k]))
               /\ Covers(memtable[k], Num(sst[k]))
               /\ \A i \in 1 .. Len(imm) : Covers(imm[i].tbl[k], Num(sst[k]))
    <3>1. sst[k] \in Entries(nops)  BY <1>6 DEF Tables
    <3>2. Num(sst[k]) \in 0 .. nops /\ NoOlder(sst[k], Num(sst[k]))  BY <1>6, <3>1, EntryFacts
    <3> QED  BY <2>4, <3>2 DEF LayerInv
  <2>5. LayerInv => RangeInv'
    <3> SUFFICES ASSUME LayerInv PROVE RangeInv'  OBVIOUS
    <3>1. \A k \in Keys : Num(rd.base[k])' = Num(sst[k])  BY <2>1 DEF Num, Number, Contents
    <3> QED  BY <1>4, <2>1, <2>4, <3>1 DEF RangeInv
  <2> QED  BY <1>3, <2>3, <2>5 DEF IInv
<1>8. CASE RangeImmutable
  <2>1. /\ rd.pc = "range_imm" /\ rd'.pc = "range_mem"
        /\ rd'.got = OldestLast(rd.got, imm) /\ rd'.base = rd.base
        /\ rd' = [pc |-> rd'.pc, key |-> rd'.key, from |-> rd'.from, got |-> rd'.got, base |-> rd'.base,
                 met |-> rd'.met]
    <3>1. rd.pc = "range_imm" /\ rd' = [rd EXCEPT !.pc = "range_mem", !.got = OldestLast(rd.got, imm)]
      BY <1>8 DEF RangeImmutable
    <3>2. PICK g : g = OldestLast(rd.got, imm)  OBVIOUS
    <3> QED  BY <1>5, <3>1, <3>2
  <2>2. DOMAIN rd'.got = Keys  BY <2>1 DEF OldestLast
  <2>3. GetInv'  BY <2>1, <2>2 DEF GetInv
  <2>4. RangeInv => RangeInv'
    <3> SUFFICES ASSUME RangeInv PROVE RangeInv'  OBVIOUS
    <3>1. ASSUME NEW k \in Keys
          PROVE  /\ Num(rd.base[k]) \in 0 .. nops /\ NoOlder(rd'.got[k], Num(rd.base[k]))
                 /\ Covers(memtable[k], Num(rd.base[k]))
      <4>1. /\ Num(rd.base[k]) \in 0 .. nops /\ NoOlder(rd.got[k], Num(rd.base[k]))
            /\ Covers(memtable[k], Num(rd.base[k]))
            /\ \A i \in 1 .. Len(imm) : Covers(imm[i].tbl[k], Num(rd.base[k]))
        BY <2>1 DEF RangeInv
      <4>2. \/ rd'.got[k] = rd.got[k]
            \/ \E i \in 1 .. Len(imm) : Present(imm[i].tbl[k]) /\ rd'.got[k] = imm[i].tbl[k]
        <5>1. PICK g : g = rd.got  OBVIOUS
        <5>2. \/ OldestLast(g, imm)[k] = g[k]
              \/ \E i \in 1 .. Len(imm) : Present(imm[i].tbl[k]) /\ OldestLast(g, imm)[k] = imm[i].tbl[k]
          BY <1>6, OldestLastIs
        <5> QED  BY <2>1, <5>1, <5>2
      <4> QED  BY <4>1, <4>2 DEF Covers
    <3>2. \A k \in Keys : Num(rd.base[k])' = Num(rd.base[k])  BY <2>1 DEF Num, Number, Contents
    <3> QED  BY <1>4, <2>1, <3>1, <3>2 DEF RangeInv
  <2> QED  BY <1>3, <2>3, <2>4 DEF IInv
<1>9. CASE RangeMemTable /\ ~NullAccess
  <2>1. /\ rd.pc = "range_mem" /\ rd'.pc = "ranged"
        /\ rd'.got = Overwrite(rd.got, [k \in Keys |-> get_value(memtable[k])]) /\ rd'.base = rd.base
        /\ rd' = [pc |-> rd'.pc, key |-> rd'.key, from |-> rd'.from, got |-> rd'.got, base |-> rd'.base,
                 met |-> rd'.met]
    <3>1. /\ rd.pc = "range_mem"
          /\ rd' = [rd EXCEPT !.pc = "ranged",
                              !.got = Overwrite(rd.got, [k \in Keys |-> get_value(memtable[k])])]
      BY <1>9 DEF RangeMemTable
    <3>2. PICK g : g = Overwrite(rd.got, [k \in Keys |-> get_value(memtable[k])])  OBVIOUS
    <3> QED  BY <1>5, <3>1, <3>2
  <2>2. DOMAIN rd'.got = Keys  BY <2>1 DEF Overwrite
  <2>3. GetInv'  BY <2>1, <2>2 DEF GetInv
  <2>4. RangeInv => RangeInv'
    <3> SUFFICES ASSUME RangeInv PROVE RangeInv'  OBVIOUS
    <3>1. ASSUME NEW k \in Keys
          PROVE  Num(rd.base[k]) \in 0 .. nops /\ NoOlder(rd'.got[k], Num(rd.base[k]))
      <4>1. /\ Num(rd.base[k]) \in 0 .. nops /\ NoOlder(rd.got[k], Num(rd.base[k]))
            /\ Covers(memtable[k], Num(rd.base[k]))
        BY <2>1 DEF RangeInv
      <4>2. get_value(memtable[k]) = memtable[k]
        <5>1. memtable[k] \in Entries(nops)  BY <1>6 DEF Tables
        <5> QED  BY <1>6, <5>1, EntryFacts
      <4>3. rd'.got[k] = IF Present(memtable[k]) THEN memtable[k] ELSE rd.got[k]
        BY <2>1, <4>2 DEF Overwrite
      <4> QED  BY <4>1, <4>3 DEF Covers
    <3>2. \A k \in Keys : Num(rd.base[k])' = Num(rd.base[k])  BY <2>1 DEF Num, Number, Contents
    <3> QED  BY <1>4, <2>1, <3>1, <3>2 DEF RangeInv
  <2> QED  BY <1>3, <2>3, <2>4 DEF IInv
<1> QED  BY <1>7, <1>8, <1>9

LEMMA ReaderHolds ==
    ASSUME IInv, Reader, status = "up"
    PROVE  IInv'
<1>1. CASE RangeMemTable /\ NullAccess
  BY <1>1, ReaderEnds DEF RangeMemTable, NullAccess
<1>2. CASE ReadDone
  BY <1>2, ReaderEnds DEF ReadDone
<1> QED
  BY <1>1, <1>2, GetLatestHolds, GetImmutableHolds, GetSSTableHolds, RangeHolds DEF Reader


-----------------------------------------------------------------------------
(* Recovery. *)

(* Induction on a set of numbers. *)
LEMMA Climb ==
    ASSUME NEW n \in Nat, NEW P, 0 \in P, \A i \in 1 .. n : i - 1 \in P => i \in P
    PROVE  \A i \in 0 .. n : i \in P
<1> DEFINE bad == {i \in 0 .. n : i \notin P}
<1> SUFFICES ASSUME bad # {} PROVE FALSE  OBVIOUS
<1>1. bad \in SUBSET Nat  OBVIOUS
<1>2. PICK i \in bad : \A j \in bad : i <= j
  <2> HIDE DEF bad
  <2> QED  BY <1>1, NatMin
<1>3. i \in 1 .. n /\ i - 1 \in 0 .. n  BY <1>2
<1>4. ~(i <= i - 1)  BY <1>3
<1>5. i - 1 \notin bad
  <2> HIDE DEF bad
  <2> QED  BY <1>2, <1>4
<1> QED  BY <1>2, <1>3, <1>5

(* A recursion whose steps stay in a set S has a solution there. *)
Solutions(n, S, c, step) ==
    {g \in [0 .. n -> S] : g[0] = c /\ \A i \in 1 .. n : g[i] = step[i][g[i - 1]]}
LEMMA Iterate ==
    ASSUME NEW n \in Nat, NEW S, NEW c \in S, NEW step \in [1 .. n -> [S -> S]]
    PROVE  Solutions(n, S, c, step) # {}
<1> DEFINE G(m, g) == g \in [0 .. m -> S] /\ g[0] = c /\ \A i \in 1 .. m : g[i] = step[i][g[i - 1]]
           P == {m \in 0 .. n : \E g : G(m, g)}
<1>1. 0 \in P
  <2>1. PICK h : h = [i \in 0 .. 0 |-> c]  OBVIOUS
  <2>2. G(0, h)  BY <2>1
  <2>3. 0 \in 0 .. n /\ \E g : G(0, g)
    <3> HIDE DEF G
    <3> QED  BY <2>2
  <2> QED  BY <2>3
<1>2. ASSUME NEW m \in 1 .. n, m - 1 \in P PROVE m \in P
  <2>1. PICK g : G(m - 1, g)  BY <1>2
  <2> DEFINE h == [i \in 0 .. m |-> IF i = m THEN step[m][g[m - 1]] ELSE g[i]]
  <2>2. g[m - 1] \in S /\ step[m][g[m - 1]] \in S
    <3>1. m - 1 \in 0 .. (m - 1)  BY <1>2
    <3> QED  BY <1>2, <2>1, <3>1
  <2>3. h \in [0 .. m -> S]
    <3>1. ASSUME NEW i \in 0 .. m, i # m PROVE g[i] \in S
      <4>1. i \in 0 .. (m - 1)  BY <1>2, <3>1
      <4> QED  BY <2>1, <4>1
    <3> QED  BY <2>2, <3>1
  <2>4. h[0] = c  BY <1>2, <2>1
  <2>5. ASSUME NEW i \in 1 .. m PROVE h[i] = step[i][h[i - 1]]
    <3>1. i - 1 \in 0 .. m /\ i - 1 # m /\ h[i - 1] = g[i - 1]  BY <1>2, <2>5
    <3>2. CASE i = m
      BY <3>1, <3>2
    <3>3. CASE i # m
      <4>1. i \in 1 .. (m - 1) /\ h[i] = g[i]  BY <1>2, <3>3
      <4> QED  BY <2>1, <3>1, <4>1
    <3> QED  BY <3>2, <3>3
  <2>6. G(m, h)
    <3> HIDE DEF h
    <3> QED  BY <2>3, <2>4, <2>5
  <2>7. m \in 0 .. n /\ \E x : G(m, x)
    <3> HIDE DEF G, h
    <3> QED  BY <1>2, <2>6
  <2> HIDE DEF G
  <2> QED  BY <2>7
<1>3. n \in P
  <2>1. n \in 0 .. n  OBVIOUS
  <2> HIDE DEF P
  <2> QED  BY <1>1, <1>2, <2>1, Climb
<1>4. PICK g : G(n, g)  BY <1>3
<1> QED  BY <1>4 DEF Solutions

(* The entry rebuilt from a record. *)
LEMMA ReplayIs ==
    ASSUME NEW n \in Nat, NEW r \in Record(n), NEW old, NEW e \in Entries(n)
    PROVE  Replay(r, old)[e] \in Entries(n)
<1>1. e \in EValue  BY EntryFacts
<1>2. ASSUME NEW k \in Keys, r = [op |-> "remove", key |-> k, arg |-> <<>>]
      PROVE  Replay(r, old)[e] = e
  <2>1. r.op = "remove"  BY <1>2
  <2>2. "remove" \notin Grow \cup Shrink
    BY DEF Grow, Shrink, ListOps, SetOps, HashOps, ZSetOps
  <2> QED  BY <1>1, <2>1, <2>2 DEF Replay
<1>3. ASSUME NEW k \in Keys, NEW m \in 1 .. n, r = [op |-> "set", key |-> k, arg |-> <<m>>]
      PROVE  Replay(r, old)[e] = Value(m)
  <2>1. r.op = "set" /\ r.arg = <<m>>  BY <1>3
  <2>2. "set" \notin Grow \cup Shrink
    BY DEF Grow, Shrink, ListOps, SetOps, HashOps, ZSetOps
  <2>3. Replay(r, old)[e] = insert(e, Fresh("str", <<r.arg>>))  BY <1>1, <2>1, <2>2 DEF Replay
  <2>4. m \in Nat  OBVIOUS
  <2>5. insert(e, Value(m)) = Value(m)  BY <2>4, EntryWritten
  <2> QED  BY <2>1, <2>3, <2>5 DEF Value
<1>4. \A m \in 1 .. n : Value(m) \in Entries(n)  BY DEF Entries
<1> QED  BY <1>2, <1>3, <1>4 DEF Record

(* The entry rebuilt from a file. *)
LEMMA ReplayFileIs ==
    ASSUME NEW n \in Nat, NEW records \in Seq(Record(n)), NEW k, NEW old
    PROVE  ReplayFile(records, k, old) \in Entries(n)
<1> DEFINE S == Entries(n)
           l == Len(records)
           next(i, e) == IF records[i].key # k THEN e ELSE Replay(records[i], old)[e]
           step == [i \in 1 .. l |-> [e \in S |-> next(i, e)]]
           f == CHOOSE g : g = [i \in 0 .. l |-> IF i = 0 THEN NoEntry
                                                 ELSE IF records[i].key # k THEN g[i - 1]
                                                 ELSE Replay(records[i], old)[g[i - 1]]]
<1>1. l \in Nat  OBVIOUS
<1>2. NoEntry \in S  BY DEF Entries
<1>3. ASSUME NEW i \in 1 .. l, NEW e \in S PROVE next(i, e) \in S
  <2>1. records[i] \in Record(n)  BY <1>3
  <2> QED  BY <2>1, ReplayIs
<1>4. step \in [1 .. l -> [S -> S]]
  <2> HIDE DEF next
  <2> QED  BY <1>3
<1>5. PICK g \in [0 .. l -> S] : g[0] = NoEntry /\ \A i \in 1 .. l : g[i] = step[i][g[i - 1]]
  <2> HIDE DEF S, l, step
  <2>1. Solutions(l, S, NoEntry, step) # {}  BY <1>1, <1>2, <1>4, Iterate
  <2> QED  BY <2>1 DEF Solutions
<1>6. ASSUME NEW i \in 1 .. l PROVE g[i] = next(i, g[i - 1])
  <2>1. i - 1 \in 0 .. l  BY <1>1, <1>6
  <2>2. g[i - 1] \in S  BY <1>5, <2>1
  <2> QED  BY <1>5, <2>2
<1>7. g = [i \in 0 .. l |-> IF i = 0 THEN NoEntry ELSE next(i, g[i - 1])]
  <2>1. ASSUME NEW i \in 0 .. l PROVE g[i] = IF i = 0 THEN NoEntry ELSE next(i, g[i - 1])
    <3>1. i = 0 \/ i \in 1 .. l  BY <1>1, <2>1
    <3> HIDE DEF next
    <3> QED  BY <1>5, <1>6, <3>1
  <2> HIDE DEF next
  <2> QED  BY <1>5, <2>1
<1>8. f = [i \in 0 .. l |-> IF i = 0 THEN NoEntry ELSE next(i, f[i - 1])]
  <2>1. \E h : h = [i \in 0 .. l |-> IF i = 0 THEN NoEntry
                                     ELSE IF records[i].key # k THEN h[i - 1]
                                     ELSE Replay(records[i], old)[h[i - 1]]]
    BY <1>7
  <2>2. f = [i \in 0 .. l |-> IF i = 0 THEN NoEntry
                              ELSE IF records[i].key # k THEN f[i - 1]
                              ELSE Replay(records[i], old)[f[i - 1]]]
    BY <2>1
  <2> HIDE DEF f
  <2> QED  BY <2>2
<1>9. ReplayFile(records, k, old) = f[l]  BY DEF ReplayFile
<1> DEFINE P == {i \in 0 .. l : f[i] \in S}
<1> HIDE DEF f
<1>10. 0 \in P  BY <1>1, <1>2, <1>8
<1>11. ASSUME NEW i \in 1 .. l, i - 1 \in P PROVE i \in P
  <2>1. i \in 0 .. l /\ i # 0  BY <1>1, <1>11
  <2>2. f[i] = next(i, f[i - 1])
    <3> HIDE DEF next
    <3> QED  BY <1>8, <2>1
  <2>3. f[i - 1] \in S  BY <1>11
  <2>4. next(i, f[i - 1]) \in S
    <3> HIDE DEF next
    <3> QED  BY <1>3, <1>11, <2>3
  <2> QED  BY <2>1, <2>2, <2>4
<1>12. l \in P
  <2>1. l \in 0 .. l  BY <1>1
  <2> HIDE DEF P, l
  <2> QED  BY <1>1, <1>10, <1>11, <2>1, Climb
<1> QED  BY <1>9, <1>12

(* The memtables rebuilt from the files 1 .. l of the log w: in file order, one *)
(* for each file that is not empty.                                             *)
InOrder(ts) == \A i, j \in 1 .. Len(ts) : i < j => ts[i].id < ts[j].id
OfFiles(ts, w, l) ==
    /\ InOrder(ts)
    /\ \A j \in 1 .. Len(ts) : ts[j].id \in 1 .. l /\ w[ts[j].id] # <<>>
    /\ \A i \in 1 .. l : w[i] # <<>> => ts # <<>> /\ i <= ts[Len(ts)].id

LEMMA OfFilesAppend ==
    ASSUME NEW n \in Nat, NEW w, NEW l \in WalIds, NEW ts \in Seq(Immutable(n)),
           OfFiles(ts, w, l - 1), NEW t \in Immutable(n), t.id = l, w[l] # <<>>,
           NEW more, more = Append(ts, t)
    PROVE  OfFiles(more, w, l)
<1>1. /\ Len(more) = Len(ts) + 1 /\ Len(ts) \in Nat /\ more[Len(ts) + 1] = t
      /\ \A i \in 1 .. Len(ts) : more[i] = ts[i]
      /\ \A i \in 1 .. Len(more) : i \in 1 .. Len(ts) \/ i = Len(ts) + 1
      /\ more # <<>>
  OBVIOUS
<1>2. l \in Nat /\ l >= 1  BY Constants
<1>3. \A j \in 1 .. Len(ts) : ts[j].id \in 1 .. (l - 1) /\ w[ts[j].id] # <<>>  BY DEF OfFiles
<1>4. InOrder(more)
  <2>1. ASSUME NEW i \in 1 .. Len(more), NEW j \in 1 .. Len(more), i < j
        PROVE  more[i].id < more[j].id
    <3>1. i \in 1 .. Len(ts)  BY <1>1, <2>1
    <3>2. CASE j \in 1 .. Len(ts)
      BY <1>1, <2>1, <3>1, <3>2 DEF OfFiles, InOrder
    <3>3. CASE j = Len(ts) + 1
      <4>1. ts[i].id \in 1 .. (l - 1)  BY <1>3, <3>1
      <4>2. ts[i].id < l  BY <1>2, <4>1
      <4> QED  BY <1>1, <3>1, <3>3, <4>2
    <3> QED  BY <1>1, <3>2, <3>3
  <2> QED  BY <2>1 DEF InOrder
<1>5. ASSUME NEW j \in 1 .. Len(more) PROVE more[j].id \in 1 .. l /\ w[more[j].id] # <<>>
  <2>1. CASE j \in 1 .. Len(ts)
    <3>1. ts[j].id \in 1 .. (l - 1) /\ w[ts[j].id] # <<>>  BY <1>3, <2>1
    <3>2. ts[j].id \in 1 .. l  BY <1>2, <3>1
    <3> QED  BY <1>1, <2>1, <3>1, <3>2
  <2>2. CASE j = Len(ts) + 1
    <3>1. l \in 1 .. l  BY <1>2
    <3> QED  BY <1>1, <2>2, <3>1
  <2> QED  BY <1>1, <2>1, <2>2
<1>6. \A i \in 1 .. l : i <= more[Len(more)].id  BY <1>1, <1>2
<1> QED  BY <1>1, <1>4, <1>5, <1>6 DEF OfFiles

LEMMA RecoverIs ==
    ASSUME NEW n \in Nat, NEW w \in [WalIds -> Seq(Record(n))], NEW s
    PROVE  recover(w, s) \in Seq(Immutable(n)) /\ OfFiles(recover(w, s), w, LastId)
<1> DEFINE S == Seq(Immutable(n))
           Table(i) == [k \in Keys |-> ReplayFile(w[i], k, Rebuilt(w, s, k)[i - 1])]
           next(i, ts) == IF w[i] = <<>> THEN ts ELSE Append(ts, [id |-> i, tbl |-> Table(i)])
           step == [i \in 1 .. LastId |-> [ts \in S |-> next(i, ts)]]
           f == CHOOSE g : g = [i \in WalIds \cup {0} |->
                                  IF i = 0 THEN <<>>
                                  ELSE IF w[i] = <<>> THEN g[i - 1]
                                  ELSE Append(g[i - 1], [id |-> i, tbl |-> Table(i)])]
<1>1. LastId \in Nat /\ WalIds = 1 .. LastId /\ WalIds \cup {0} = 0 .. LastId
  BY Constants DEF WalIds
<1>2. <<>> \in S  OBVIOUS
<1>3. ASSUME NEW i \in 1 .. LastId PROVE [id |-> i, tbl |-> Table(i)] \in Immutable(n)
  <2>1. w[i] \in Seq(Record(n))  BY <1>1, <1>3
  <2>2. \A k \in Keys : ReplayFile(w[i], k, Rebuilt(w, s, k)[i - 1]) \in Entries(n)
    BY <2>1, ReplayFileIs
  <2>3. Table(i) \in Tables(n)  BY <2>2 DEF Tables
  <2> HIDE DEF Table
  <2> QED  BY <1>1, <1>3, <2>3 DEF Immutable
<1> HIDE DEF Table
<1>4. ASSUME NEW i \in 1 .. LastId, NEW ts \in S PROVE next(i, ts) \in S
  <2>1. PICK t \in Immutable(n) : t = [id |-> i, tbl |-> Table(i)]  BY <1>3
  <2>2. Append(ts, t) \in S  OBVIOUS
  <2> QED  BY <2>1, <2>2
<1>5. step \in [1 .. LastId -> [S -> S]]
  <2> HIDE DEF next, S
  <2> QED  BY <1>4
<1>6. PICK g \in [0 .. LastId -> S] :
         g[0] = <<>> /\ \A i \in 1 .. LastId : g[i] = step[i][g[i - 1]]
  <2> HIDE DEF S, step
  <2>1. Solutions(LastId, S, <<>>, step) # {}  BY <1>1, <1>2, <1>5, Iterate
  <2> QED  BY <2>1 DEF Solutions
<1>7. ASSUME NEW i \in 1 .. LastId PROVE g[i] = next(i, g[i - 1])
  <2>1. i - 1 \in 0 .. LastId  BY <1>1, <1>7
  <2>2. g[i - 1] \in S  BY <1>6, <2>1
  <2> HIDE DEF next, S
  <2> QED  BY <1>6, <2>2
<1>8. g = [i \in WalIds \cup {0} |-> IF i = 0 THEN <<>> ELSE next(i, g[i - 1])]
  <2>1. ASSUME NEW i \in 0 .. LastId PROVE g[i] = IF i = 0 THEN <<>> ELSE next(i, g[i - 1])
    <3>1. i = 0 \/ i \in 1 .. LastId  BY <1>1, <2>1
    <3> HIDE DEF next
    <3> QED  BY <1>6, <1>7, <3>1
  <2> HIDE DEF next, S
  <2> QED  BY <1>1, <1>6, <2>1
<1>9. f = [i \in WalIds \cup {0} |-> IF i = 0 THEN <<>> ELSE next(i, f[i - 1])]
  <2>1. \E h : h = [i \in WalIds \cup {0} |->
                      IF i = 0 THEN <<>>
                      ELSE IF w[i] = <<>> THEN h[i - 1]
                      ELSE Append(h[i - 1], [id |-> i, tbl |-> Table(i)])]
    BY <1>8
  <2>2. f = [i \in WalIds \cup {0} |->
               IF i = 0 THEN <<>>
               ELSE IF w[i] = <<>> THEN f[i - 1]
               ELSE Append(f[i - 1], [id |-> i, tbl |-> Table(i)])]
    BY <2>1
  <2> HIDE DEF f
  <2> QED  BY <2>2
<1>10. recover(w, s) = f[LastId]  BY DEF recover, Table
<1> HIDE DEF f
<1> DEFINE P == {i \in 0 .. LastId : f[i] \in S /\ OfFiles(f[i], w, i)}
<1>11. 0 \in P
  <2>1. f[0] = <<>> /\ 0 \in 0 .. LastId  BY <1>1, <1>9
  <2>2. OfFiles(<<>>, w, 0)  BY DEF OfFiles, InOrder
  <2> QED  BY <1>2, <2>1, <2>2
<1>12. ASSUME NEW i \in 1 .. LastId, i - 1 \in P PROVE i \in P
  <2>1. i \in 0 .. LastId /\ i # 0 /\ i \in WalIds /\ i - 1 \in 0 .. LastId  BY <1>1, <1>12
  <2>2. f[i] = next(i, f[i - 1])
    <3> HIDE DEF next
    <3> QED  BY <1>1, <1>9, <2>1
  <2>3. f[i - 1] \in S /\ OfFiles(f[i - 1], w, i - 1)  BY <1>12
  <2>4. f[i] \in S
    <3> HIDE DEF next, S
    <3> QED  BY <1>4, <1>12, <2>2, <2>3
  <2>5. OfFiles(f[i], w, i)
    <3>1. CASE w[i] = <<>>
      <4>1. f[i] = f[i - 1]  BY <2>2, <3>1
      <4>2. PICK ts : ts = f[i]  OBVIOUS
      <4>3. OfFiles(ts, w, i - 1)  BY <2>3, <4>1, <4>2
      <4>4. 1 .. (i - 1) \subseteq 1 .. i /\ \A j \in 1 .. i : j \in 1 .. (i - 1) \/ j = i
        BY <1>12
      <4>5. OfFiles(ts, w, i)  BY <3>1, <4>3, <4>4 DEF OfFiles
      <4> QED  BY <4>2, <4>5
    <3>2. CASE w[i] # <<>>
      <4>1. PICK t \in Immutable(n) : t = [id |-> i, tbl |-> Table(i)]  BY <1>3, <1>12
      <4>2. f[i] = Append(f[i - 1], t) /\ t.id = i  BY <2>2, <3>2, <4>1
      <4>3. PICK ts \in S : ts = f[i - 1]  BY <2>3
      <4>4. PICK more : more = f[i]  OBVIOUS
      <4>5. more = Append(ts, t) /\ OfFiles(ts, w, i - 1)  BY <2>3, <4>2, <4>3, <4>4
      <4>6. OfFiles(more, w, i)  BY <2>1, <3>2, <4>2, <4>5, OfFilesAppend
      <4> QED  BY <4>4, <4>6
    <3> QED  BY <3>1, <3>2
  <2> HIDE DEF S
  <2> QED  BY <2>1, <2>4, <2>5
<1>13. LastId \in P
  <2>1. LastId \in 0 .. LastId  BY <1>1
  <2> HIDE DEF P
  <2> QED  BY <1>1, <1>11, <1>12, <2>1, Climb
<1> QED  BY <1>10, <1>13

(* The first records of a file. *)
LEMMA FirstOf ==
    ASSUME NEW R, NEW q \in Seq(R), NEW n \in Nat, n <= Len(q)
    PROVE  SubSeq(q, 1, n) \in Seq(R)
<1>1. \A i \in 1 .. n : i \in 1 .. Len(q)  OBVIOUS
<1>2. \A i \in 1 .. n : q[i] \in R  BY <1>1
<1> QED  BY <1>2

(* What replay reads of the files. *)
LEMMA ReadableIs ==
    ASSUME NEW R, NEW w \in [WalIds -> Seq(R)], NEW t \in [WalIds -> Nat]
    PROVE  /\ Readable(w, t) \in [WalIds -> Seq(R)]
           /\ \A i \in WalIds : w[i] = <<>> => Readable(w, t)[i] = <<>>
           /\ \A i \in WalIds : t[i] = 0 => Readable(w, t)[i] = <<>>
           /\ \A i \in WalIds : t[i] # 0 /\ Readable(w, t)[i] = <<>> => w[i] = <<>>
<1>1. ASSUME NEW i \in WalIds
      PROVE  /\ (IF t[i] < Len(w[i]) THEN SubSeq(w[i], 1, t[i]) ELSE w[i]) \in Seq(R)
             /\ w[i] = <<>> => (IF t[i] < Len(w[i]) THEN SubSeq(w[i], 1, t[i]) ELSE w[i]) = <<>>
             /\ t[i] = 0 => (IF t[i] < Len(w[i]) THEN SubSeq(w[i], 1, t[i]) ELSE w[i]) = <<>>
             /\ t[i] # 0 /\ (IF t[i] < Len(w[i]) THEN SubSeq(w[i], 1, t[i]) ELSE w[i]) = <<>>
                   => w[i] = <<>>
  <2>1. w[i] \in Seq(R) /\ t[i] \in Nat /\ Len(w[i]) \in Nat  OBVIOUS
  <2>2. t[i] < Len(w[i]) => SubSeq(w[i], 1, t[i]) \in Seq(R)  BY <2>1, FirstOf
  <2>3. w[i] = <<>> => ~(t[i] < Len(w[i]))  BY <2>1
  <2>4. t[i] = 0 /\ t[i] < Len(w[i]) => SubSeq(w[i], 1, t[i]) = <<>>  BY <2>1
  <2>5. t[i] = 0 /\ ~(t[i] < Len(w[i])) => w[i] = <<>>  BY <2>1
  <2>6. t[i] # 0 /\ t[i] < Len(w[i]) => SubSeq(w[i], 1, t[i]) # <<>>  BY <2>1
  <2> QED  BY <2>1, <2>2, <2>3, <2>4, <2>5, <2>6
<1> QED  BY <1>1 DEF Readable

LEMMA TornIs ==
    ASSUME TearInv, cur \in WalIds, cur < next_id, wal \in [WalIds -> Seq(Record(nops))],
           synced \in Nat, NEW n \in synced .. Len(wal[cur]), NEW t \in {tear, Torn(n)}
    PROVE  /\ t \in [WalIds -> Nat]
           /\ \A i \in WalIds : t[i] = 0 => i < next_id /\ Cut(n)[i] = <<>>
<1>1. n \in Nat /\ n <= Len(wal[cur]) /\ wal[cur] \in Seq(Record(nops))  OBVIOUS
<1>2. t \in [WalIds -> Nat]  BY <1>1 DEF TearInv, Torn
<1>3. ASSUME NEW i \in WalIds, t[i] = 0 PROVE i < next_id /\ Cut(n)[i] = <<>>
  <2>1. Cut(n)[i] = IF i = cur THEN SubSeq(wal[cur], 1, n) ELSE wal[i]  BY DEF Cut
  <2>2. CASE i # cur
    <3>1. tear[i] = 0  BY <1>3, <2>2 DEF TearInv, Torn
    <3> QED  BY <2>1, <2>2, <3>1 DEF TearInv
  <2>3. CASE i = cur
    <3>1. tear[cur] # 0  BY DEF TearInv
    <3>2. n = 0  BY <1>1, <1>3, <2>3, <3>1 DEF TearInv, Torn
    <3> QED  BY <1>1, <2>1, <2>3, <3>2
  <2> QED  BY <2>2, <2>3
<1> QED  BY <1>2, <1>3

(* A crash and the restart that follows it. *)
LEMMA CrashHolds ==
    ASSUME IInv, TearInv, Crash
    PROVE  IInv' /\ TearInv'
<1>. DEFINE Restarted(n, keep, t) ==
         LET tables == recover(Readable(Cut(n), t), sst)
             last == tables[Len(tables)]
         IN  /\ wal' = Cut(n) /\ tear' = t
             /\ IF keep
                THEN /\ tables # <<>> /\ ~should_flush(last.tbl)
                     /\ imm' = Front(tables) /\ memtable' = last.tbl
                     /\ cur' = last.id /\ synced' = Len(wal'[last.id])
                     /\ next_id' = next_id
                ELSE /\ imm' = tables /\ memtable' = EmptyTable
                     /\ cur' = next_id /\ synced' = 0 /\ next_id' = next_id + 1
<1>0. PICK n \in synced .. Len(wal[cur]), keep \in BOOLEAN :
          \E t \in {tear, Torn(n)} : Restarted(n, keep, t)
  BY DEF Crash
<1>1. PICK t \in {tear, Torn(n)} : Restarted(n, keep, t)
  BY <1>0
<1>2. /\ crashes < MaxCrashes /\ crashes' = crashes + 1
      /\ null' = FALSE /\ wr' = Idle /\ fl' = NoFlush /\ rd' = NoRead /\ status' = "up"
      /\ UNCHANGED <<sst, nops, uses, sync_on_write>>
  BY DEF Crash, configVars
<1>3. DataInv  BY DEF IInv
<1>4. nops \in Nat /\ crashes \in Nat /\ cur \in Nat /\ next_id \in Nat /\ sst \in Tables(nops)
  BY <1>3, DataParts
<1>5. /\ cur \in WalIds /\ cur < next_id /\ next_id <= nops + crashes + 2
      /\ nops <= MaxOps /\ wal \in [WalIds -> Seq(Record(nops))]
      /\ \A i \in WalIds : i > cur => wal[i] = <<>>
  BY <1>3, <1>4 DEF DataInv
<1>6. PICK w : w = Cut(n)  OBVIOUS
<1>7. w \in [WalIds -> Seq(Record(nops))] /\ \A i \in WalIds : i > cur => w[i] = <<>>
  <2>1. wal[cur] \in Seq(Record(nops)) /\ synced \in Nat  BY <1>3, <1>5, DataParts
  <2>2. SubSeq(wal[cur], 1, n) \in Seq(Record(nops))
    <3>1. n \in Nat /\ n <= Len(wal[cur]) /\ Len(wal[cur]) \in Nat  BY <2>1
    <3>2. \A i \in 1 .. n : i \in 1 .. Len(wal[cur])  BY <3>1
    <3>3. \A i \in 1 .. n : wal[cur][i] \in Record(nops)  BY <2>1, <3>2
    <3> QED  BY <2>1, <3>1, <3>3
  <2>3. w = [wal EXCEPT ![cur] = SubSeq(wal[cur], 1, n)]  BY <1>6 DEF Cut
  <2>4. \A i \in WalIds : i > cur => i # cur  BY <1>4
  <2> QED  BY <1>5, <2>2, <2>3, <2>4
<1>16. PICK f : f = Readable(w, t)  OBVIOUS
<1>18. t \in [WalIds -> Nat] /\ \A i \in WalIds : t[i] = 0 => i < next_id /\ w[i] = <<>>
  <2>1. synced \in Nat  BY <1>3, DataParts
  <2> QED  BY <1>5, <1>6, <2>1, TornIs
<1>17. f \in [WalIds -> Seq(Record(nops))] /\ \A i \in WalIds : w[i] = <<>> => f[i] = <<>>
  BY <1>7, <1>16, <1>18, ReadableIs
<1>19. \A i \in WalIds : /\ f[i] = <<>> => w[i] = <<>>
                         /\ t[i] = 0 => f[i] = <<>>
  BY <1>7, <1>16, <1>18, ReadableIs
<1>8. PICK ts \in Seq(Immutable(nops)) : ts = recover(f, sst) /\ OfFiles(ts, f, LastId)
  BY <1>4, <1>17, RecoverIs
<1>9. /\ wal' = w /\ tear' = t
      /\ IF keep
         THEN /\ ts # <<>>
              /\ imm' = Front(ts) /\ memtable' = ts[Len(ts)].tbl
              /\ cur' = ts[Len(ts)].id /\ synced' = Len(w[ts[Len(ts)].id])
              /\ next_id' = next_id
         ELSE /\ imm' = ts /\ memtable' = EmptyTable
              /\ cur' = next_id /\ synced' = 0 /\ next_id' = next_id + 1
  BY <1>1, <1>6, <1>8, <1>16
<1>10. /\ Len(ts) \in Nat /\ InOrder(ts)
       /\ \A j \in 1 .. Len(ts) : ts[j].id \in WalIds /\ ts[j].id \in Nat /\ ts[j].id <= cur
  <2>1. Len(ts) \in Nat /\ InOrder(ts)  BY <1>8 DEF OfFiles
  <2>2. ASSUME NEW j \in 1 .. Len(ts) PROVE ts[j].id \in WalIds /\ ts[j].id \in Nat /\ ts[j].id <= cur
    <3>1. ts[j].id \in 1 .. LastId /\ f[ts[j].id] # <<>>  BY <1>8 DEF OfFiles
    <3>2. PICK i \in WalIds : i = ts[j].id  BY <3>1 DEF WalIds
    <3>3. ~(i > cur)  BY <1>7, <1>17, <3>1, <3>2
    <3>4. i \in Nat  BY Constants
    <3> QED  BY <1>4, <3>2, <3>3, <3>4
  <2> QED  BY <2>1, <2>2
<1>11. EmptyTable \in Tables(nops)  BY DEF EmptyTable, Tables, Entries
<1>12. /\ wr'.pc = "idle" /\ WriterInv' /\ FlushInv' /\ GetInv'
  <2>1. wr'.pc = "idle" /\ WriterInv'  BY <1>2 DEF WriterInv, Idle
  <2>2. FlushInv'  BY <1>2 DEF FlushInv, NoFlush
  <2>3. DOMAIN EmptyTable = Keys  BY DEF EmptyTable
  <2>4. GetInv'  BY <1>2, <2>3 DEF GetInv, NoRead
  <2> QED  BY <2>1, <2>2, <2>4
<1>13. nops' \in 0 .. MaxOps /\ crashes' \in 0 .. MaxCrashes /\ crashes' # 0 /\ crashes' = crashes + 1
  BY <1>2, <1>3, <1>4, Constants DEF DataInv
<1>14. CASE keep
  <2>1. PICK l \in 1 .. Len(ts) : l = Len(ts)  BY <1>9, <1>10, <1>14
  <2>2. PICK last \in Immutable(nops) : last = ts[l]  OBVIOUS
  <2>3. /\ imm' = Front(ts) /\ memtable' = last.tbl /\ cur' = last.id /\ synced' = Len(w[last.id])
        /\ next_id' = next_id
    BY <1>9, <1>14, <2>1, <2>2
  <2>4. last.id \in WalIds /\ last.id \in Nat /\ last.id <= cur /\ last.tbl \in Tables(nops)
    BY <1>10, <2>2 DEF Immutable
  <2>5. /\ imm' \in Seq(Immutable(nops)) /\ Len(imm') = l - 1
        /\ \A i \in 1 .. Len(imm') : i \in 1 .. Len(ts) /\ i < l /\ imm'[i] = ts[i]
    <3>1. Front(ts) = SubSeq(ts, 1, l - 1)  BY <2>1 DEF Front
    <3>2. l - 1 \in Nat /\ l - 1 <= Len(ts) /\ Len(ts) \in Nat  BY <1>10, <2>1
    <3>3. \A i \in 1 .. (l - 1) : i \in 1 .. Len(ts) /\ i < l  BY <3>2
    <3>4. \A i \in 1 .. (l - 1) : ts[i] \in Immutable(nops)  BY <3>3
    <3>5. SubSeq(ts, 1, l - 1) \in Seq(Immutable(nops)) /\ Len(SubSeq(ts, 1, l - 1)) = l - 1
          /\ \A i \in 1 .. (l - 1) : SubSeq(ts, 1, l - 1)[i] = ts[i]
      BY <3>2, <3>4
    <3> QED  BY <2>3, <3>1, <3>3, <3>5
  <2>6. ASSUME NEW i \in WalIds, i > last.id PROVE w[i] = <<>>
    <3>1. i \in 1 .. LastId /\ i \in Nat  BY Constants DEF WalIds
    <3>2. f[i] # <<>> => i <= last.id  BY <1>8, <2>1, <2>2, <3>1 DEF OfFiles
    <3>3. ~(i <= last.id)  BY <2>4, <2>6, <3>1
    <3> QED  BY <1>19, <3>2, <3>3
  <2>7. DataInv'
    <3>1. w[last.id] \in Seq(Record(nops))  BY <1>7, <2>4
    <3>2. Len(w[last.id]) \in 0 .. Len(w[last.id])  BY <3>1
    <3>3. last.id < next_id /\ next_id <= nops + crashes' + 2  BY <1>4, <1>5, <1>13, <2>4
    <3>4. /\ cur' \in WalIds /\ next_id' \in Nat /\ cur' < next_id'
          /\ next_id' <= nops' + crashes' + IF wr'.pc = "idle" THEN 2 ELSE 1
      BY <1>2, <1>4, <1>12, <2>3, <2>4, <3>3
    <3>5. /\ memtable' \in Tables(nops') /\ sst' \in Tables(nops') /\ imm' \in Seq(Immutable(nops'))
          /\ wal' \in [WalIds -> Seq(Record(nops'))]
      BY <1>2, <1>4, <1>7, <1>9, <2>3, <2>4, <2>5
    <3>6. synced' \in 0 .. Len(wal'[cur']) /\ \A i \in WalIds : i > cur' => wal'[i] = <<>>
      BY <1>9, <2>3, <2>6, <3>2
    <3> QED  BY <1>2, <1>3, <1>13, <3>4, <3>5, <3>6 DEF DataInv
  <2>8. OrderInv'
    <3>1. ASSUME NEW i \in 1 .. Len(imm'), NEW j \in 1 .. Len(imm'), i < j
          PROVE  imm'[i].id < imm'[j].id
      BY <1>10, <2>5, <3>1 DEF InOrder
    <3>2. ASSUME NEW i \in 1 .. Len(imm') PROVE imm'[i].id <= cur' /\ imm'[i].id # cur'
      <4>1. i \in 1 .. Len(ts) /\ i < l /\ imm'[i] = ts[i]  BY <2>5
      <4>2. ts[i].id < last.id  BY <1>10, <2>2, <4>1 DEF InOrder
      <4>3. ts[i].id \in Nat  BY <1>10, <4>1
      <4> QED  BY <2>3, <2>4, <4>1, <4>2, <4>3
    <3>3. null' = (wr'.pc = "new")  BY <1>2, <1>12
    <3> QED  BY <1>2, <3>1, <3>2, <3>3 DEF OrderInv
  <2>9. TearInv'
    <3>1. last.id \in 1 .. LastId /\ f[last.id] # <<>>  BY <1>8, <2>1, <2>2 DEF OfFiles
    <3>2. t[last.id] # 0  BY <1>19, <2>4, <3>1
    <3> QED  BY <1>9, <1>18, <2>3, <3>2 DEF TearInv
  <2> QED  BY <1>12, <1>13, <2>7, <2>8, <2>9 DEF IInv
<1>15. CASE ~keep
  <2>1. imm' = ts /\ memtable' = EmptyTable /\ cur' = next_id /\ synced' = 0 /\ next_id' = next_id + 1
    BY <1>9, <1>15
  <2>2. next_id \in WalIds
    <3>1. crashes + 1 <= MaxCrashes /\ MaxCrashes \in Nat /\ MaxOps \in Nat  BY <1>2, <1>4, Constants
    <3>2. next_id >= 1 /\ next_id <= MaxOps + MaxCrashes + 1  BY <1>4, <1>5, <3>1
    <3> QED  BY <1>4, <3>2, Constants
  <2>3. ASSUME NEW i \in WalIds, i > next_id PROVE w[i] = <<>>
    <3>1. i > cur  BY <1>4, <1>5, <2>3, Constants
    <3> QED  BY <1>7, <3>1
  <2>4. DataInv'
    <3>1. 0 \in 0 .. Len(w[next_id])
      <4>1. w[next_id] \in Seq(Record(nops))  BY <1>7, <2>2
      <4> QED  BY <4>1
    <3>2. next_id + 1 <= nops + crashes' + 2  BY <1>4, <1>5, <1>13
    <3>3. /\ cur' \in WalIds /\ next_id' \in Nat /\ cur' < next_id'
          /\ next_id' <= nops' + crashes' + IF wr'.pc = "idle" THEN 2 ELSE 1
      BY <1>2, <1>4, <1>12, <2>1, <2>2, <3>2
    <3>4. /\ memtable' \in Tables(nops') /\ sst' \in Tables(nops') /\ imm' \in Seq(Immutable(nops'))
          /\ wal' \in [WalIds -> Seq(Record(nops'))]
      BY <1>2, <1>4, <1>7, <1>8, <1>9, <1>11, <2>1
    <3>5. synced' \in 0 .. Len(wal'[cur']) /\ \A i \in WalIds : i > cur' => wal'[i] = <<>>
      BY <1>9, <2>1, <2>3, <3>1
    <3> QED  BY <1>2, <1>3, <1>13, <3>3, <3>4, <3>5 DEF DataInv
  <2>5. OrderInv'
    <3>1. ASSUME NEW i \in 1 .. Len(imm') PROVE imm'[i].id <= cur' /\ imm'[i].id # cur'
      <4>1. ts[i].id \in Nat /\ ts[i].id <= cur  BY <1>10, <2>1
      <4> QED  BY <1>4, <1>5, <2>1, <4>1
    <3>2. null' = (wr'.pc = "new")  BY <1>2, <1>12
    <3> QED  BY <1>2, <1>10, <2>1, <3>1, <3>2 DEF OrderInv, InOrder
  <2>6. TearInv'
    <3>1. \A i \in WalIds : t[i] = 0 => i < next_id + 1 /\ i # next_id
      BY <1>4, <1>18, Constants
    <3> QED  BY <1>9, <1>18, <2>1, <3>1 DEF TearInv
  <2> QED  BY <1>12, <1>13, <2>4, <2>5, <2>6 DEF IInv
<1> QED  BY <1>14, <1>15

-----------------------------------------------------------------------------
(* The theorems. *)

LEMMA StepHolds ==
    ASSUME StringsOnly, IInv, TearInv, [Next]_vars
    PROVE  IInv'
<1>1. CASE UNCHANGED vars
  BY <1>1 DEF vars, configVars, IInv, DataInv, OrderInv, WriterInv, FlushInv, GetInv, LayerInv, RangeInv,
              OldEntry, Newest, Hits
<1>2. CASE Crash
  BY <1>2, CrashHolds
<1>3. CASE Writer
  BY <1>3, LogWriteHolds, ApplyHolds, ForceFlushHolds, RotateMoveHolds, RotateNewHolds DEF Writer
<1>4. CASE Flush
  BY <1>4, FlushPickHolds, FlushCreateHolds, FlushClearHolds, FlushEraseHolds DEF Flush
<1>5. CASE Sync
  BY <1>5, SyncHolds
<1>6. CASE Reader /\ status = "up"
  BY <1>6, ReaderHolds
<1> QED  BY <1>1, <1>2, <1>3, <1>4, <1>5, <1>6 DEF Next

LEMMA TearHolds ==
    ASSUME IInv, TearInv, [Next]_vars
    PROVE  TearInv'
<1>1. /\ cur \in WalIds /\ next_id \in Nat /\ \A i \in WalIds : i \in Nat
      /\ wal \in [WalIds -> Seq(Record(nops))]
  BY Constants DEF IInv, DataInv
<1>2. CASE Crash
  BY <1>2, CrashHolds
<1>3. CASE FlushClear
  <2>1. Whole \in Nat \ {0}  BY Constants DEF Whole
  <2> QED  BY <1>1, <1>3, <2>1 DEF FlushClear, TearInv
<1>4. CASE LogWrite
  <2>1. tear' = tear /\ cur' = cur /\ next_id' = next_id /\ \A i \in WalIds : i # cur => wal'[i] = wal[i]
    BY <1>1, <1>4 DEF LogWrite
  <2> QED  BY <2>1 DEF TearInv
<1>5. CASE RotateNew
  BY <1>1, <1>5 DEF RotateNew, TearInv
<1>6. CASE ~Crash /\ ~FlushClear /\ ~LogWrite /\ ~RotateNew
  <2>1. UNCHANGED <<tear, wal, cur, next_id>>
    BY <1>6 DEF Next, vars, Writer, Flush, Sync, Reader, logVars, unchangedByRead, Apply,
                ForceFlush, RotateMove, FlushPick, FlushCreate, FlushErase, GetLatest,
                GetImmutable, GetSSTable, RangeSSTable, RangeImmutable, RangeMemTable, ReadDone
  <2> QED  BY <2>1 DEF TearInv
<1> QED  BY <1>2, <1>3, <1>4, <1>5, <1>6

(* The inductive invariant holds in every state the storage engine reaches as *)
(* long as its keys hold strings.                                             *)
THEOREM InvariantAlways ==
    ASSUME StringsOnly
    PROVE  Spec => [](IInv /\ TearInv)
<1>1. Init => IInv /\ TearInv
  <2>1. Whole \in Nat \ {0}  BY Constants DEF Whole
  <2>2. Init => TearInv  BY <2>1 DEF Init, TearInv
  <2> QED  BY <2>2, InitHolds
<1>2. IInv /\ TearInv /\ [Next]_vars => (IInv /\ TearInv)'  BY StepHolds, TearHolds
<1> QED  BY <1>1, <1>2, PTL DEF Spec

(* Memtables, log files and the three threads keep their types: immutable     *)
(* memtables are in file order and older than the current file, the flush     *)
(* works on the oldest, and memtable_ is null just between the two halves of  *)
(* a rotation (storage.cpp: rotate_memtable, flush_memtable_to_sstable,       *)
(* recover).                                                                  *)
THEOREM TypeCorrect ==
    ASSUME StringsOnly
    PROVE  Spec => []TypeOK
<1>1. IInv /\ TearInv => TypeOK
  <2> SUFFICES ASSUME IInv, TearInv PROVE TypeOK  OBVIOUS
  <2>1. DataInv /\ OrderInv /\ WriterInv /\ FlushInv  BY DEF IInv
  <2>2. nops \in Nat /\ imm \in Seq(Immutable(nops))  BY <2>1, DataParts
  <2>3. Entries(nops) \subseteq EValue  BY <2>2, EntryFacts
  <2>4. Tables(nops) \subseteq [Keys -> EValue]  BY <2>3 DEF Tables
  <2>5. memtable \in [Keys -> EValue] /\ sst \in [Keys -> EValue]  BY <2>1, <2>4 DEF DataInv
  <2>6. \A i \in 1 .. Len(imm) : imm[i].id \in WalIds /\ imm[i].tbl \in [Keys -> EValue]
    <3>1. ASSUME NEW i \in 1 .. Len(imm)
          PROVE  imm[i].id \in WalIds /\ imm[i].tbl \in [Keys -> EValue]
      <4>1. imm[i] \in Immutable(nops)  BY <2>2
      <4> QED  BY <2>4, <4>1 DEF Immutable
    <3> QED  BY <3>1
  <2> QED  BY <2>1, <2>5, <2>6 DEF TypeOK, TearInv, DataInv, OrderInv, WriterInv, FlushInv
<1> QED  BY <1>1, InvariantAlways, PTL

(* A get that walks memtable, immutable memtables and SSTables without a lock *)
(* on the memtable, beside a writer, rotations and flushes, never answers     *)
(* with an older value than the key had when it began, unless it meets a      *)
(* tombstone or the write of that key itself (storage.cpp: get).              *)
THEOREM GetNeverStaleAlways ==
    ASSUME StringsOnly
    PROVE  Spec => []GetNeverStale
<1>1. IInv => GetNeverStale  BY DEF IInv, GetInv, GetNeverStale
<1> QED  BY <1>1, InvariantAlways, PTL

(* Before the first crash a range over memtable, immutable memtables and      *)
(* SSTables never answers with less than the SSTables held when it began,     *)
(* unless it meets a tombstone (storage.cpp: range).  After a crash that lost *)
(* the newest records of a log, older entries are replayed over what an       *)
(* SSTable already holds.                                                     *)
THEOREM RangeCoversSSTablesAlways ==
    ASSUME StringsOnly
    PROVE  Spec => [](crashes = 0 => RangeCoversSSTables)
<1>1. IInv => (crashes = 0 => RangeCoversSSTables)
  BY DEF IInv, RangeInv, RangeCoversSSTables, Num
<1> QED  BY <1>1, InvariantAlways, PTL

=============================================================================
