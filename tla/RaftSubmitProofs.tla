-------------------------- MODULE RaftSubmitProofs --------------------------
(***************************************************************************)
(* Proofs about module RaftSubmit: what the leader's threads, its commit   *)
(* and apply loops, the cache of results and the two files of the log keep *)
(* between any two steps, for any number of threads, followers, requests   *)
(* and crashes.                                                            *)
(***************************************************************************)
EXTENDS RaftSubmit, OrderLemmas

-----------------------------------------------------------------------------
(* What a thread, a log and the rest are made of. *)
Entry == [index : Nat \ {0}, id : Id, len : Nat \ {0}]
Record == [at : Nat, entry : Entry]
Log == [entries : Seq(Entry), base : {1}, wal : Seq(Record),
        index : Seq(Nat), rewound : BOOLEAN]
Replies == UNION {[D -> Result] : D \in SUBSET Id}
Places == {"idle", "scan", "read", "write", "index", "register", "commit", "wait", "harvest", "done"}
Thread == [pc : Places, batch : BOOLEAN, todo : Seq(Requests), group : Seq(Requests),
           read : BOOLEAN, next : Seq(Requests), index : Nat,
           promise : {Null} \cup Result, reply : Replies]
Run == [at : Nat, id : Id, life : Nat]
Owner == Threads \cup {Null, "ctor", "ack"}
Ghosts == [exec : Seq(Run), misplaced : SUBSET Nat, failed : SUBSET Nat,
           lost : {FALSE}, dropped : BOOLEAN]

Types ==
    /\ log \in Log /\ log_lock \in Threads \cup {Null}
    /\ loop \in [by : Owner, kind : {"apply", "commit"}, at : Nat, upto : Nat]
    /\ commit \in Nat /\ applied \in Nat /\ meta \in [commit : Nat, applied : Nat]
    /\ match \in [DOMAIN match -> Nat] /\ DOMAIN match \subseteq Followers
    /\ pending \in [DOMAIN pending -> Threads] /\ DOMAIN pending \subseteq Nat
    /\ cache \in Seq([id : Id, result : Result])
    /\ thread \in [Threads -> Thread]
    /\ confirm \in BOOLEAN /\ up \in BOOLEAN
    /\ used \in [submits : Nat, crashes : Nat, failures : Nat]
    /\ ghost \in Ghosts

(* The commands a thread has in hand: a group is of one kind, a group that is *)
(* written is not empty, and what follows it in a batch is of the other kind. *)
Writing == {"write", "index", "register", "commit", "wait", "harvest"}
Sorted(w) ==
    /\ w.pc # "done" => \A k \in DOMAIN w.group : w.group[k].read = w.read
    /\ w.pc \in Writing => w.group # <<>> /\ ~w.read
    /\ w.next # <<>> => w.batch /\ Len(w.next) = 1 /\ w.next[1].read = ~w.read
    /\ w.pc = "scan" => w.next = <<>>
    /\ w.pc \in {"scan", "read"} => w.batch
    /\ w.pc \in Writing /\ ~w.batch => Len(w.group) = 1
    /\ w.pc \in {"scan", "write", "index", "register"} => w.promise = Null

ThreadInv ==
    /\ \A t \in Threads : Sorted(thread[t])
    /\ \A t \in Threads : thread[t].pc = "index" <=> log_lock = t
    /\ ~up => \A t \in Threads : thread[t] = Idle
    /\ ~up => loop = NoLoop /\ commit = 0 /\ applied = 0 /\ match = <<>> /\ pending = <<>>
              /\ cache = <<>> /\ log.entries = <<>>

(* The files. *)
Unreadable == GivesUp(log)

FileInv ==
    /\ \A j, k \in DOMAIN log.wal : j < k => log.wal[j].at < log.wal[k].at
    /\ log.wal # <<>> => log.wal[1].at = 0 /\ log.wal[1].entry.index = 1
    /\ \A k \in DOMAIN log.index : log.index[k] < FileEnd(log)
    /\ log.index # <<>> => log.index[1] = 0

(* Memory against files. *)
MemoryInv ==
    /\ Unreadable => ghost.misplaced # {}
    /\ ghost.dropped => Unreadable
    /\ up /\ ~ghost.dropped =>
          /\ Len(log.index) = Len(log.entries)
          /\ \A i \in DOMAIN log.entries \ ghost.misplaced :
                \E k \in DOMAIN log.wal : log.wal[k] = [at |-> log.index[i], entry |-> log.entries[i]]

(* What ran is still in the files under the index it ran at. *)
Filed(r) ==
    /\ r.at \in DOMAIN log.index
    /\ \E j \in DOMAIN log.wal : log.wal[j].at = log.index[r.at] /\ log.wal[j].entry.id = r.id
RanInv ==
    ghost.dropped \/ \A k \in DOMAIN ghost.exec :
        ghost.exec[k].at \in ghost.misplaced \/ Filed(ghost.exec[k])

(* Between the two writes of an append the records are the last of the file.  *)
(* Whatever comes first in the index file is 0, also after a crash in between. *)
TailInv ==
  /\ up /\ log_lock = Null /\ log.index = <<>> => ftell(log) = 0
  /\ log_lock # Null =>
        LET es == NewEntries(log_lock)
            m == Len(log.wal) - Len(es)
            o == log.wal[m + 1].at
        IN  /\ m >= 0 /\ (log.index = <<>> => thread[log_lock].index = 0)
            /\ \A k \in 1..Len(es) : log.wal[m + k] = [at |-> Offsets(o, es)[k], entry |-> es[k]]
            /\ \/ thread[log_lock].index = o
               \/ thread[log_lock].index = 0 /\ \A k \in 1..Len(es) : es[k].index \in ghost.misplaced

(* Commit and apply. *)
Reached == IF ~up THEN meta.applied ELSE IF loop.by # Null THEN loop.at ELSE applied
LastRun == ghost.exec[Len(ghost.exec)]
ThisLife == ghost.exec # <<>> /\ LastRun.life = used.crashes

IndexesInv ==
    /\ commit <= LastIndex(log)
    /\ \A f \in DOMAIN match : match[f] <= LastIndex(log)
    /\ loop.by = Null => loop = NoLoop
    /\ loop.by # Null => /\ loop.upto = commit
                         /\ loop.kind = "apply" => applied = loop.at /\ loop.at <= loop.upto
                         /\ applied <= loop.at
    /\ up => meta.applied <= applied

OrderInv ==
    /\ ghost.exec = <<>> => Reached = 0
    /\ ghost.exec # <<>> => Reached <= LastRun.at
    /\ \A i \in 1..Reached : \E k \in DOMAIN ghost.exec : ghost.exec[k].at = i
    /\ \A k \in 1..(Len(ghost.exec) - 1) :
        IF ghost.exec[k].life = ghost.exec[k + 1].life
        THEN ghost.exec[k + 1].at = ghost.exec[k].at + 1
        ELSE ghost.exec[k + 1].at <= ghost.exec[k].at + 1
    /\ ~up => ~ThisLife
    /\ ThisLife => LastRun.at = Reached /\ Reached <= LastIndex(log) /\ (loop.by # Null => loop.at <= loop.upto)

(* Results. *)
Own(r, id) == r.id = id /\ r.n \in DOMAIN ghost.exec /\ ghost.exec[r.n].id = id

CacheInv ==
    /\ Len(cache) <= Capacity
    /\ \A j, k \in DOMAIN cache : cache[j].id = cache[k].id => j = k
    /\ \A k \in DOMAIN cache :
          LET r == cache[k].result
          IN  /\ Own(r, cache[k].id) /\ ghost.exec[r.n].life = used.crashes
              /\ \A m \in DOMAIN ghost.exec : m > r.n => ghost.exec[m].id # cache[k].id
    /\ LET ids == {ghost.exec[k].id : k \in {m \in DOMAIN ghost.exec : ghost.exec[m].life = used.crashes}}
       IN  up /\ Cardinality(ids) <= Capacity => \A id \in ids : Cached(cache, id)
    /\ ~up => \A k \in DOMAIN ghost.exec : ghost.exec[k].life # used.crashes
    /\ \A k \in DOMAIN ghost.exec : ghost.exec[k].life <= used.crashes

(* Requests: a thread that waits for an index waits for its own entry, unless *)
(* the write failed; a promise and every reply are about its own command.     *)
Awaiting == {"register", "commit", "wait"}
OwnReplies(r) == \A id \in DOMAIN r : r[id].what = "ok" => Own(r[id], id)
Answered(w) ==
    /\ OwnReplies(w.reply) \/ (~w.batch /\ w.pc = "done" /\ w.index \in ghost.failed)
    /\ w.promise # Null /\ w.promise.what = "ok" /\ ~w.batch /\ w.index \notin ghost.failed
          => Own(w.promise, w.group[1].id)
    /\ w.pc \in Awaiting /\ ~w.batch /\ w.index \notin ghost.failed =>
          w.index \in DOMAIN log.entries /\ log.entries[w.index].id = w.group[1].id
    /\ w.pc = "register" => confirm

PendingInv ==
    /\ \A i \in DOMAIN pending :
        LET w == thread[pending[i]]
        IN  w.index = i /\ w.pc \in {"commit", "wait"} /\ w.promise = Null
    /\ ~confirm => DOMAIN pending = {}

AnswerInv == (\A t \in Threads : Answered(thread[t])) /\ PendingInv

-----------------------------------------------------------------------------
(* The operators of the model. *)

(* write_batch_to_wal: each record lies where the one before it ends. *)
LEMMA OffsetsResult ==
    ASSUME NEW o \in Nat, NEW es \in Seq(Entry)
    PROVE  /\ Offsets(o, es) \in [1..Len(es) -> Nat]
           /\ Len(es) > 0 => Offsets(o, es)[1] = o
           /\ \A i \in 1..Len(es) : i > 1 => Offsets(o, es)[i] = Offsets(o, es)[i - 1] + es[i - 1].len
<1> DEFINE n == Len(es)
           G(m, g) == /\ g \in [1..m -> Nat]
                      /\ \A i \in 1..m : g[i] = IF i = 1 THEN o ELSE g[i - 1] + es[i - 1].len
           bad == {m \in 0..n : ~\E g : G(m, g)}
           f == Offsets(o, es)
<1>n. n \in Nat /\ \A i \in 1..n : es[i].len \in Nat
  <2>1. n \in Nat /\ \A i \in 1..n : es[i] \in Entry  OBVIOUS
  <2>2. \A e \in Entry : e.len \in Nat  BY DEF Entry
  <2> QED  BY <2>1, <2>2
<1>1. \E g : G(n, g)
  <2>0. n \in 0..n  BY <1>n
  <2> SUFFICES ASSUME bad # {} PROVE FALSE  BY <2>0
  <2>1. bad \in SUBSET Nat  BY <1>n
  <2>2. PICK m \in bad : \A y \in bad : m <= y
    <3> HIDE DEF bad
    <3> QED  BY <2>1, NatMin
  <2>3. m # 0
    <3>1. G(0, [i \in 1..0 |-> o])  OBVIOUS
    <3> QED  BY <3>1
  <2>4. m - 1 \in 0..n /\ m - 1 \notin bad
    <3>1. m \in 0..n  BY <2>2
    <3>2. m - 1 \in 0..n /\ ~(m <= m - 1)  BY <1>n, <2>3, <3>1
    <3> HIDE DEF bad
    <3> QED  BY <2>2, <3>2
  <2>5. PICK g : G(m - 1, g)  BY <2>4
  <2> DEFINE h == [i \in 1..m |-> IF i < m THEN g[i] ELSE IF i = 1 THEN o
                                  ELSE g[i - 1] + es[i - 1].len]
  <2>m. m \in 1..n  BY <2>2, <2>3
  <2>6. \A i \in 1..m : h[i] \in Nat
    <3> TAKE i \in 1..m
    <3>1. CASE i < m  BY <2>5, <2>m, <3>1
    <3>2. CASE i = 1  BY <2>5, <2>m, <3>2
    <3>3. CASE ~(i < m) /\ i # 1
      <4>1. i - 1 \in 1..(m - 1) /\ i - 1 \in 1..n  BY <2>m, <3>3
      <4>2. g[i - 1] \in Nat /\ es[i - 1].len \in Nat  BY <1>n, <2>5, <4>1
      <4> QED  BY <3>3, <4>2
    <3> QED  BY <3>1, <3>2, <3>3
  <2>7. \A i \in 1..m : h[i] = IF i = 1 THEN o ELSE h[i - 1] + es[i - 1].len
    <3> TAKE i \in 1..m
    <3>1. CASE i < m /\ i # 1
      <4>1. i - 1 \in 1..m /\ i - 1 < m /\ i \in 1..(m - 1)  BY <2>m, <3>1
      <4> QED  BY <2>5, <3>1, <4>1
    <3>2. CASE i < m /\ i = 1
      <4>1. i \in 1..(m - 1)  BY <2>m, <3>2
      <4> QED  BY <2>5, <3>2, <4>1
    <3>3. CASE ~(i < m) /\ i # 1
      <4>1. i - 1 \in 1..m /\ i - 1 < m  BY <2>m, <3>3
      <4> QED  BY <3>3, <4>1
    <3>4. CASE ~(i < m) /\ i = 1  BY <3>4
    <3> QED  BY <3>1, <3>2, <3>3, <3>4
  <2>8. G(m, h)
    <3>1. h \in [1..m -> Nat]  BY <2>6
    <3> HIDE DEF h
    <3> QED  BY <2>7, <3>1
  <2> QED  BY <2>2, <2>8
<1>2. PICK g : G(n, g)  BY <1>1
<1>3. g = [i \in 1..n |-> IF i = 1 THEN o ELSE g[i - 1] + es[i - 1].len]
  BY <1>2
<1>4. f = [i \in 1..n |-> IF i = 1 THEN o ELSE f[i - 1] + es[i - 1].len]
  <2> HIDE DEF G, f
  <2>1. f = CHOOSE p : p = [i \in 1..n |-> IF i = 1 THEN o ELSE p[i - 1] + es[i - 1].len]
    BY DEF f, Offsets
  <2> QED  BY <1>3, <2>1
<1>5. \A i \in 1..n : f[i] \in Nat
  <2> DEFINE odd == {i \in 1..n : f[i] \notin Nat}
  <2> SUFFICES ASSUME odd # {} PROVE FALSE  OBVIOUS
  <2>1. odd \in SUBSET Nat  BY <1>n
  <2>2. PICK i \in odd : \A y \in odd : i <= y
    <3> HIDE DEF odd
    <3> QED  BY <2>1, NatMin
  <2>3. i \in 1..n /\ f[i] \notin Nat  OBVIOUS
  <2>4. f[i] = IF i = 1 THEN o ELSE f[i - 1] + es[i - 1].len
    <3> HIDE DEF f, odd
    <3> QED  BY <1>4, <2>3
  <2>5. i # 1  BY <2>3, <2>4
  <2>6. i - 1 \in 1..n /\ i - 1 \notin odd  BY <1>n, <2>2, <2>3, <2>5
  <2>7. f[i - 1] \in Nat /\ es[i - 1].len \in Nat  BY <1>n, <2>6
  <2> HIDE DEF f, odd
  <2> QED  BY <2>3, <2>4, <2>5, <2>7
<1> HIDE DEF f, G
<1>6. f \in [1..n -> Nat]  BY <1>4, <1>5
<1>7. n > 0 => f[1] = o  BY <1>n, <1>4
<1>8. ASSUME NEW i \in 1..n, i > 1 PROVE f[i] = f[i - 1] + es[i - 1].len
  BY <1>n, <1>4, <1>8
<1> QED  BY <1>6, <1>7, <1>8 DEF f

(* Later records of a batch lie further on. *)
LEMMA OffsetsGrow ==
    ASSUME NEW o \in Nat, NEW es \in Seq(Entry)
    PROVE  /\ \A j, k \in 1..Len(es) : j < k => Offsets(o, es)[j] < Offsets(o, es)[k]
           /\ \A k \in 1..Len(es) : o <= Offsets(o, es)[k]
<1> DEFINE n == Len(es)
           f == Offsets(o, es)
           bad == {k \in 1..n : \E j \in 1..n : j < k /\ ~(f[j] < f[k])}
<1>1. /\ f \in [1..n -> Nat]
      /\ n > 0 => f[1] = o
      /\ \A i \in 1..n : i > 1 => f[i] = f[i - 1] + es[i - 1].len
  BY OffsetsResult
<1>n. n \in Nat /\ \A i \in 1..n : es[i].len \in Nat \ {0}
  <2>1. n \in Nat /\ \A i \in 1..n : es[i] \in Entry  OBVIOUS
  <2>2. \A e \in Entry : e.len \in Nat \ {0}  BY DEF Entry
  <2> QED  BY <2>1, <2>2
<1> HIDE DEF f
<1>2. bad = {}
  <2> SUFFICES ASSUME bad # {} PROVE FALSE  OBVIOUS
  <2>1. bad \in SUBSET Nat  BY <1>n
  <2>2. PICK k \in bad : \A y \in bad : k <= y
    <3> HIDE DEF bad
    <3> QED  BY <2>1, NatMin
  <2>3. PICK j \in 1..n : j < k /\ ~(f[j] < f[k])  BY <2>2
  <2>4. k \in 1..n /\ k > 1 /\ k - 1 \in 1..n  BY <1>n, <2>2, <2>3
  <2>5. f[k] = f[k - 1] + es[k - 1].len /\ f[k - 1] \in Nat /\ f[k] \in Nat /\ f[j] \in Nat
    BY <1>1, <2>4
  <2>6. es[k - 1].len \in Nat \ {0}  BY <1>n, <2>4
  <2>7. f[k - 1] < f[k]  BY <2>5, <2>6
  <2>8. j < k - 1  BY <2>3, <2>4, <2>5, <2>7
  <2>9. k - 1 \notin bad  BY <2>2, <2>4
  <2>10. f[j] < f[k - 1]  BY <2>4, <2>8, <2>9
  <2> QED  BY <2>3, <2>5, <2>7, <2>10
<1>3. \A j, k \in 1..n : j < k => f[j] < f[k]  BY <1>2
<1>4. ASSUME NEW k \in 1..n PROVE o <= f[k]
  <2>1. CASE k = 1  BY <1>1, <1>n, <2>1
  <2>2. CASE k > 1
    <3>1. 1 \in 1..n /\ f[1] = o  BY <1>1, <1>n, <2>2
    <3>2. f[1] < f[k]  BY <1>3, <2>2, <3>1
    <3> QED  BY <1>1, <3>1, <3>2
  <2> QED  BY <1>n, <2>1, <2>2
<1> QED  BY <1>3, <1>4 DEF f

(* The layout of a batch does not depend on where it starts. *)
LEMMA OffsetsShift ==
    ASSUME NEW a \in Nat, NEW b \in Nat, NEW es \in Seq(Entry)
    PROVE  \A k \in 1..Len(es) : Offsets(a, es)[k] + b = Offsets(b, es)[k] + a
<1> DEFINE n == Len(es)
           f == Offsets(a, es)
           g == Offsets(b, es)
           bad == {k \in 1..n : f[k] + b # g[k] + a}
<1>1. /\ f \in [1..n -> Nat]
      /\ n > 0 => f[1] = a
      /\ \A i \in 1..n : i > 1 => f[i] = f[i - 1] + es[i - 1].len
  BY OffsetsResult
<1>2. /\ g \in [1..n -> Nat]
      /\ n > 0 => g[1] = b
      /\ \A i \in 1..n : i > 1 => g[i] = g[i - 1] + es[i - 1].len
  BY OffsetsResult
<1>n. n \in Nat /\ \A i \in 1..n : es[i].len \in Nat
  <2>1. n \in Nat /\ \A i \in 1..n : es[i] \in Entry  OBVIOUS
  <2>2. \A e \in Entry : e.len \in Nat  BY DEF Entry
  <2> QED  BY <2>1, <2>2
<1> HIDE DEF f, g
<1> SUFFICES ASSUME bad # {} PROVE FALSE  BY DEF f, g
<1>3. bad \in SUBSET Nat  BY <1>n
<1>4. PICK k \in bad : \A y \in bad : k <= y
  <2> HIDE DEF bad
  <2> QED  BY <1>3, NatMin
<1>5. k \in 1..n /\ f[k] + b # g[k] + a  BY <1>4
<1>6. k # 1  BY <1>1, <1>2, <1>5, <1>n
<1>7. k - 1 \in 1..n /\ k > 1  BY <1>5, <1>6, <1>n
<1>8. k - 1 \notin bad  BY <1>4, <1>7
<1>9. f[k - 1] + b = g[k - 1] + a  BY <1>7, <1>8
<1> DEFINE m == k - 1
<1>10. /\ f[k] = f[m] + es[m].len /\ g[k] = g[m] + es[m].len
       /\ f[m] \in Nat /\ g[m] \in Nat /\ es[m].len \in Nat
  BY <1>1, <1>2, <1>5, <1>7, <1>n
<1>11. f[m] + b = g[m] + a  BY <1>9
<1> HIDE DEF m
<1> QED  BY SMTT(30), <1>5, <1>10, <1>11

-----------------------------------------------------------------------------
(* The cache: the same items in another order, or one item more. *)
Item == [id : Id, result : Result]
Distinct(c) == \A j, k \in DOMAIN c : c[j].id = c[k].id => j = k
Rearranged(c, d) ==
    /\ d \in Seq(Item) /\ Distinct(d) /\ Len(d) = Len(c)
    /\ \A k \in DOMAIN c : \E j \in DOMAIN d : d[j] = c[k]
    /\ \A k \in DOMAIN d : \E j \in DOMAIN c : c[j] = d[k]

(* An id that is in the list has a place there. *)
LEMMA PositionIn ==
    ASSUME NEW c \in Seq(Item), NEW id, Cached(c, id)
    PROVE  Position(c, id) \in 1..Len(c) /\ c[Position(c, id)].id = id
BY DEF Cached, Position

(* Erasing a node moves up the ones behind it. *)
LEMMA OthersResult ==
    ASSUME NEW c \in Seq(Item), NEW id, Cached(c, id), NEW p, p = Position(c, id),
           NEW d, d = Others(c, id)
    PROVE  /\ p \in 1..Len(c) /\ c[p].id = id
           /\ d \in Seq(Item) /\ Len(d) = Len(c) - 1
           /\ \A k \in 1..Len(d) : d[k] = c[IF k < p THEN k ELSE k + 1]
<1>1. p \in 1..Len(c) /\ c[p].id = id  BY PositionIn
<1>2. d = SubSeq(c, 1, p - 1) \o SubSeq(c, p + 1, Len(c))  BY DEF Others, RemoveAt
<1>3. /\ SubSeq(c, 1, p - 1) \in Seq(Item) /\ Len(SubSeq(c, 1, p - 1)) = p - 1
      /\ \A k \in 1..(p - 1) : SubSeq(c, 1, p - 1)[k] = c[k]
  BY <1>1
<1>4. /\ SubSeq(c, p + 1, Len(c)) \in Seq(Item) /\ Len(SubSeq(c, p + 1, Len(c))) = Len(c) - p
      /\ \A k \in 1..(Len(c) - p) : SubSeq(c, p + 1, Len(c))[k] = c[k + p]
  BY <1>1
<1> DEFINE a == SubSeq(c, 1, p - 1)
           b == SubSeq(c, p + 1, Len(c))
<1> HIDE DEF a, b
<1>5. /\ a \in Seq(Item) /\ Len(a) = p - 1 /\ \A k \in 1..(p - 1) : a[k] = c[k]
      /\ b \in Seq(Item) /\ Len(b) = Len(c) - p /\ \A k \in 1..(Len(c) - p) : b[k] = c[k + p]
      /\ d = a \o b /\ Len(c) \in Nat
  BY <1>2, <1>3, <1>4 DEF a, b
<1>7. d \in Seq(Item) /\ Len(d) = Len(c) - 1
  <2>1. a \in Seq(Item) /\ b \in Seq(Item) /\ d = a \o b  BY <1>5
  <2>2. d \in Seq(Item) /\ Len(d) = Len(a) + Len(b)  BY <2>1
  <2> QED  BY <1>1, <1>5, <2>2
<1>6. ASSUME NEW k \in 1..Len(d) PROVE d[k] = c[IF k < p THEN k ELSE k + 1]
  <2>1. CASE k < p
    <3>1. k \in 1..Len(a)  BY <1>1, <1>5, <2>1
    <3> QED  BY <1>1, <1>5, <2>1, <3>1
  <2>2. CASE ~(k < p)
    <3>1. k \in Len(a) + 1 .. Len(a) + Len(b) /\ k - Len(a) \in 1..Len(b)
      BY <1>1, <1>5, <1>7, <2>2
    <3>2. d[k] = b[k - Len(a)]  BY <1>5, <3>1
    <3> DEFINE j == k - Len(a)
    <3>3. j \in 1..(Len(c) - p) /\ j + p = k + 1  BY <1>1, <1>5, <3>1
    <3>4. d[k] = b[j]  BY <3>2
    <3> HIDE DEF j
    <3>5. b[j] = c[j + p]  BY <1>5, <3>3
    <3> QED  BY <2>2, <3>3, <3>4, <3>5
  <2> QED  BY <2>1, <2>2
<1> QED  BY <1>1, <1>6, <1>7

(* Putting an item in front. *)
LEMMA InFront ==
    ASSUME NEW x \in Item, NEW s \in Seq(Item), NEW d, d = <<x>> \o s
    PROVE  /\ d \in Seq(Item) /\ Len(d) = Len(s) + 1 /\ d[1] = x
           /\ \A k \in 1..Len(s) : d[k + 1] = s[k]
           /\ \A k \in 1..Len(d) : k # 1 => k - 1 \in 1..Len(s) /\ d[k] = s[k - 1]
OBVIOUS

(* LRUCache::get changes nothing but the order. *)
LEMMA TouchResult ==
    ASSUME NEW c \in Seq(Item), Distinct(c), NEW id \in Id
    PROVE  Rearranged(c, Touch(c, id))
<1>1. CASE ~Cached(c, id)
  <2>1. Touch(c, id) = c  BY <1>1 DEF Touch
  <2> QED  BY <2>1 DEF Rearranged
<1>2. CASE Cached(c, id)
  <2> DEFINE p == Position(c, id)
             o == Others(c, id)
             x == [id |-> id, result |-> Lookup(c, id)]
             d == Touch(c, id)
  <2>1. /\ p \in 1..Len(c) /\ c[p].id = id /\ o \in Seq(Item) /\ Len(o) = Len(c) - 1
        /\ \A k \in 1..Len(o) : o[k] = c[IF k < p THEN k ELSE k + 1]
    BY <1>2, OthersResult
  <2>2. x = c[p] /\ x \in Item
    <3>1. c[p] \in Item  BY <2>1
    <3>2. c[p] = [id |-> c[p].id, result |-> c[p].result]  BY <3>1 DEF Item
    <3> QED  BY <2>1, <3>1, <3>2 DEF Lookup
  <2>3. d = <<x>> \o o  BY <1>2 DEF Touch
  <2>n. Len(c) \in Nat /\ DOMAIN c = 1..Len(c)  OBVIOUS
  <2> HIDE DEF p, o, x, d
  <2>4. /\ d \in Seq(Item) /\ Len(d) = Len(o) + 1 /\ d[1] = x
        /\ \A k \in 1..Len(o) : d[k + 1] = o[k]
        /\ \A k \in 1..Len(d) : k # 1 => k - 1 \in 1..Len(o) /\ d[k] = o[k - 1]
    BY <2>1, <2>2, <2>3, InFront
  <2>5. Len(d) = Len(c) /\ DOMAIN d = 1..Len(c)  BY <2>1, <2>4, <2>n
  <2> DEFINE from(k) == IF k = 1 THEN p ELSE IF k - 1 < p THEN k - 1 ELSE k
  <2>6. ASSUME NEW k \in 1..Len(c) PROVE from(k) \in 1..Len(c) /\ d[k] = c[from(k)]
    <3>1. CASE k = 1  BY <2>1, <2>2, <2>4, <3>1
    <3>2. CASE k # 1
      <4> DEFINE j == k - 1
      <4>1. j \in 1..Len(o) /\ d[k] = o[j]  BY <2>4, <2>5, <3>2
      <4>2. j + 1 = k /\ j \in Nat  BY <2>n
      <4> HIDE DEF j
      <4>3. o[j] = c[IF j < p THEN j ELSE k]  BY <2>1, <4>1, <4>2
      <4> QED  BY <2>1, <2>n, <3>2, <4>1, <4>2, <4>3 DEF j
    <3> QED  BY <3>1, <3>2
  <2>7. ASSUME NEW j \in 1..Len(c), NEW k \in 1..Len(c), from(j) = from(k) PROVE j = k
    BY <2>1, <2>7, <2>n
  <2>8. Distinct(d)
    <3> SUFFICES ASSUME NEW j \in 1..Len(c), NEW k \in 1..Len(c), d[j].id = d[k].id
                 PROVE  j = k
      BY <2>5 DEF Distinct
    <3>1. from(j) \in 1..Len(c) /\ from(k) \in 1..Len(c) /\ c[from(j)].id = c[from(k)].id
      BY <2>6
    <3>2. from(j) = from(k)
      <4> HIDE DEF from
      <4> QED  BY <2>n, <3>1 DEF Distinct
    <3> HIDE DEF from
    <3> QED  BY <2>7, <3>2
  <2>9. ASSUME NEW k \in 1..Len(c) PROVE \E j \in 1..Len(c) : d[j] = c[k]
    <3> DEFINE j == IF k = p THEN 1 ELSE IF k < p THEN k + 1 ELSE k
    <3>1. j \in 1..Len(c) /\ from(j) = k  BY <2>1, <2>n
    <3> HIDE DEF j, from
    <3> QED  BY <2>6, <3>1
  <2>10. \A k \in 1..Len(c) : \E j \in 1..Len(c) : c[j] = d[k]
    <3> HIDE DEF from
    <3> QED  BY <2>6
  <2>11. Rearranged(c, d)  BY <2>4, <2>5, <2>8, <2>9, <2>10, <2>n DEF Rearranged
  <2> QED  BY <2>11 DEF d
<1> QED  BY <1>1, <1>2

(* Rearranging twice is rearranging. *)
LEMMA RearrangedTwice ==
    ASSUME NEW c, NEW d, NEW e, Rearranged(c, d), Rearranged(d, e)
    PROVE  Rearranged(c, e)
<1>1. \A k \in DOMAIN c : \E j \in DOMAIN e : e[j] = c[k]
  <2> TAKE k \in DOMAIN c
  <2>1. PICK i \in DOMAIN d : d[i] = c[k]  BY DEF Rearranged
  <2>2. PICK j \in DOMAIN e : e[j] = d[i]  BY DEF Rearranged
  <2> QED  BY <2>1, <2>2
<1>2. \A k \in DOMAIN e : \E j \in DOMAIN c : c[j] = e[k]
  <2> TAKE k \in DOMAIN e
  <2>1. PICK i \in DOMAIN d : d[i] = e[k]  BY DEF Rearranged
  <2>2. PICK j \in DOMAIN c : c[j] = d[i]  BY DEF Rearranged
  <2> QED  BY <2>1, <2>2
<1> QED  BY <1>1, <1>2 DEF Rearranged

(* The gets of a thread that collects results. *)
LEMMA TouchAllResult ==
    ASSUME NEW c \in Seq(Item), Distinct(c), NEW ids \in Seq(Id)
    PROVE  Rearranged(c, TouchAll(c, ids))
<1> DEFINE n == Len(ids)
           C == {d \in Seq(Item) : Rearranged(c, d)}
           G(m, g) == /\ g \in [0..m -> C] /\ g[0] = c
                      /\ \A i \in 1..m : g[i] = Touch(g[i - 1], ids[i])
           bad == {m \in 0..n : ~\E g : G(m, g)}
<1>n. n \in Nat /\ \A i \in 1..n : ids[i] \in Id  OBVIOUS
<1>c. c \in C  BY DEF Rearranged
<1>t. ASSUME NEW d \in C, NEW id \in Id PROVE Touch(d, id) \in C
  <2>1. Rearranged(d, Touch(d, id))  BY TouchResult DEF Rearranged
  <2>2. Rearranged(c, Touch(d, id))  BY <2>1, RearrangedTwice
  <2> QED  BY <2>2 DEF Rearranged
<1> HIDE DEF C
<1>1. \E g : G(n, g)
  <2>0. n \in 0..n  BY <1>n
  <2> SUFFICES ASSUME bad # {} PROVE FALSE  BY <2>0
  <2>1. bad \in SUBSET Nat  BY <1>n
  <2>2. PICK m \in bad : \A y \in bad : m <= y
    <3> HIDE DEF bad
    <3> QED  BY <2>1, NatMin
  <2>3. m # 0
    <3>1. G(0, [i \in 0..0 |-> c])  BY <1>c
    <3> QED  BY <3>1
  <2>m. m \in 1..n  BY <2>2, <2>3
  <2>4. m - 1 \in 0..n /\ m - 1 \notin bad
    <3>1. m - 1 \in 0..n /\ ~(m <= m - 1)  BY <1>n, <2>m
    <3> HIDE DEF bad
    <3> QED  BY <2>2, <3>1
  <2>5. PICK g : G(m - 1, g)  BY <2>4
  <2> DEFINE h == [i \in 0..m |-> IF i < m THEN g[i] ELSE Touch(g[m - 1], ids[m])]
  <2>6. g[m - 1] \in C /\ ids[m] \in Id  BY <1>n, <2>5, <2>m
  <2>7. Touch(g[m - 1], ids[m]) \in C  BY <1>t, <2>6
  <2>8. h \in [0..m -> C]
    <3>1. \A i \in 0..m : i < m => g[i] \in C  BY <2>5, <2>m
    <3> QED  BY <2>7, <3>1
  <2>9. h[0] = c  BY <2>5, <2>m
  <2>10. ASSUME NEW i \in 1..m PROVE h[i] = Touch(h[i - 1], ids[i])
    <3>0. i - 1 \in 0..m /\ i - 1 < m /\ i \in 0..m  BY <2>m
    <3>1. CASE i < m
      <4>1. i \in 1..(m - 1)  BY <2>m, <3>1
      <4>2. g[i] = Touch(g[i - 1], ids[i])  BY <2>5, <4>1
      <4> QED  BY <3>0, <3>1, <4>2
    <3>2. CASE i = m  BY <3>0, <3>2, <2>m
    <3> QED  BY <2>m, <3>1, <3>2
  <2>11. G(m, h)
    <3> HIDE DEF h
    <3> QED  BY <2>8, <2>9, <2>10
  <2> QED  BY <2>2, <2>11
<1>2. PICK g : G(n, g)  BY <1>1
<1> DEFINE f == CHOOSE q : q = [k \in 0..n |-> IF k = 0 THEN c ELSE Touch(q[k - 1], ids[k])]
<1>3. g = [k \in 0..n |-> IF k = 0 THEN c ELSE Touch(g[k - 1], ids[k])]
  <2>1. ASSUME NEW k \in 0..n PROVE g[k] = IF k = 0 THEN c ELSE Touch(g[k - 1], ids[k])
    <3>1. CASE k = 0  BY <1>2, <3>1
    <3>2. CASE k # 0
      <4>1. k \in 1..n  BY <1>n, <3>2
      <4> QED  BY <1>2, <3>2, <4>1
    <3> QED  BY <3>1, <3>2
  <2> QED  BY <1>2, <2>1
<1>4. f = [k \in 0..n |-> IF k = 0 THEN c ELSE Touch(f[k - 1], ids[k])]
  <2> HIDE DEF G
  <2> QED  BY <1>3
<1>5. TouchAll(c, ids) = f[n]  BY DEF TouchAll
<1> HIDE DEF f, G
<1>6. \A k \in 0..n : f[k] \in C
  <2> DEFINE odd == {k \in 0..n : f[k] \notin C}
  <2> SUFFICES ASSUME odd # {} PROVE FALSE  OBVIOUS
  <2>1. odd \in SUBSET Nat  BY <1>n
  <2>2. PICK k \in odd : \A y \in odd : k <= y
    <3> HIDE DEF odd
    <3> QED  BY <2>1, NatMin
  <2>3. k \in 0..n /\ f[k] \notin C  OBVIOUS
  <2>4. f[k] = IF k = 0 THEN c ELSE Touch(f[k - 1], ids[k])  BY <1>4, <2>3
  <2>5. k # 0  BY <1>c, <2>3, <2>4
  <2>6. k - 1 \in 0..n /\ ~(k <= k - 1) /\ k \in 1..n  BY <1>n, <2>3, <2>5
  <2>7. f[k - 1] \in C  BY <2>2, <2>6
  <2> QED  BY <1>n, <1>t, <2>3, <2>4, <2>5, <2>6, <2>7
<1>7. f[n] \in C  BY <1>6, <1>n
<1> QED  BY <1>5, <1>7 DEF C

(* LRUCache::put: the item comes first, the rest are others that were there,  *)
(* all of them if there was room.                                             *)
LEMMA PutResult ==
    ASSUME NEW c \in Seq(Item), Distinct(c), Len(c) <= Capacity,
           NEW id \in Id, NEW result \in Result, NEW d, d = Put(c, id, result)
    PROVE  /\ d \in Seq(Item) /\ Distinct(d) /\ Len(d) > 0 /\ Len(d) <= Capacity
           /\ d[1] = [id |-> id, result |-> result]
           /\ \A k \in DOMAIN d : k # 1 => \E j \in DOMAIN c : c[j] = d[k] /\ c[j].id # id
           /\ Cached(c, id) \/ Len(c) < Capacity =>
                 \A j \in DOMAIN c : c[j].id # id => \E k \in DOMAIN d : d[k] = c[j]
<1>a. Capacity \in Nat \ {0}  BY SubmitAssumption
<1>n. Len(c) \in Nat /\ DOMAIN c = 1..Len(c)  OBVIOUS
<1> DEFINE x == [id |-> id, result |-> result]
           s == IF Cached(c, id) THEN Others(c, id) ELSE IF Len(c) >= Capacity THEN Front(c) ELSE c
           p == Position(c, id)
           from(k) == IF ~Cached(c, id) \/ k < p THEN k ELSE k + 1
<1>x. x \in Item  BY DEF Item
<1>0. d = <<x>> \o s  BY DEF Put
<1>1. /\ s \in Seq(Item) /\ Len(s) + 1 <= Capacity /\ Len(s) \in Nat
      /\ \A k \in 1..Len(s) : from(k) \in 1..Len(c) /\ s[k] = c[from(k)] /\ c[from(k)].id # id
      /\ \A j, k \in 1..Len(s) : from(j) = from(k) => j = k
      /\ Cached(c, id) \/ Len(c) < Capacity =>
            \A j \in 1..Len(c) : c[j].id # id => \E k \in 1..Len(s) : from(k) = j
  <2>1. CASE Cached(c, id)
    <3>1. /\ p \in 1..Len(c) /\ c[p].id = id /\ s \in Seq(Item) /\ Len(s) = Len(c) - 1
          /\ \A k \in 1..Len(s) : s[k] = c[IF k < p THEN k ELSE k + 1]
      BY <2>1, OthersResult
    <3> HIDE DEF s, p
    <3>2. ASSUME NEW k \in 1..Len(s)
          PROVE  from(k) \in 1..Len(c) /\ s[k] = c[from(k)] /\ from(k) # p
      BY <1>n, <2>1, <3>1
    <3>3. \A k \in 1..Len(s) : c[from(k)].id # id
      <4> HIDE DEF from
      <4> QED  BY <1>n, <3>1, <3>2 DEF Distinct
    <3>4. \A j, k \in 1..Len(s) : from(j) = from(k) => j = k  BY <1>n, <2>1, <3>1
    <3>5. ASSUME NEW j \in 1..Len(c), c[j].id # id PROVE \E k \in 1..Len(s) : from(k) = j
      <4>1. j # p  BY <3>1, <3>5
      <4>2. CASE j < p
        <5>1. j \in 1..Len(s) /\ from(j) = j  BY <1>n, <3>1, <4>2
        <5> QED  BY <5>1
      <4>3. CASE j > p
        <5>1. j - 1 \in 1..Len(s) /\ from(j - 1) = j  BY <1>n, <2>1, <3>1, <4>3
        <5> QED  BY <5>1
      <4> QED  BY <1>n, <3>1, <4>1, <4>2, <4>3
    <3>6. Len(s) + 1 <= Capacity /\ Len(s) \in Nat  BY <1>a, <1>n, <3>1
    <3> HIDE DEF from
    <3> QED  BY <3>1, <3>2, <3>3, <3>4, <3>5, <3>6
  <2>2. CASE ~Cached(c, id) /\ Len(c) >= Capacity
    <3>1. s = SubSeq(c, 1, Len(c) - 1)  BY <2>2 DEF Front
    <3>0. Len(c) >= 1  BY <1>a, <1>n, <2>2
    <3> HIDE DEF s
    <3>2. s \in Seq(Item) /\ Len(s) = Len(c) - 1 /\ \A k \in 1..Len(s) : s[k] = c[k]
      BY <1>n, <3>0, <3>1
    <3>3. \A k \in 1..Len(c) : c[k].id # id  BY <1>n, <2>2 DEF Cached
    <3>4. \A k \in 1..Len(s) : from(k) = k /\ k \in 1..Len(c)  BY <1>n, <2>2, <3>2
    <3>5. Len(s) + 1 <= Capacity /\ Len(s) \in Nat /\ ~(Len(c) < Capacity)
      BY <1>a, <1>n, <2>2, <3>2
    <3> HIDE DEF from
    <3> QED  BY <2>2, <3>2, <3>3, <3>4, <3>5
  <2>3. CASE ~Cached(c, id) /\ ~(Len(c) >= Capacity)
    <3>1. s = c  BY <2>3
    <3>2. \A k \in 1..Len(c) : c[k].id # id  BY <1>n, <2>3 DEF Cached
    <3>3. \A k \in 1..Len(c) : from(k) = k  BY <2>3
    <3>4. Len(c) + 1 <= Capacity  BY <1>a, <1>n, <2>3
    <3> HIDE DEF s, from
    <3> QED  BY <1>n, <3>1, <3>2, <3>3, <3>4
  <2> QED  BY <2>1, <2>2, <2>3
<1> HIDE DEF s, from, p, x
<1>2. /\ d \in Seq(Item) /\ Len(d) = Len(s) + 1 /\ d[1] = x
      /\ \A k \in 1..Len(s) : d[k + 1] = s[k]
      /\ \A k \in 1..Len(d) : k # 1 => k - 1 \in 1..Len(s) /\ d[k] = s[k - 1]
  BY <1>0, <1>1, <1>x, InFront
<1>3. DOMAIN d = 1..Len(d)  BY <1>2
<1>4. ASSUME NEW k \in 1..Len(d), k # 1
      PROVE  /\ k - 1 \in 1..Len(s) /\ d[k] = c[from(k - 1)] /\ from(k - 1) \in 1..Len(c)
             /\ c[from(k - 1)].id # id
  <2>1. k - 1 \in 1..Len(s) /\ d[k] = s[k - 1]  BY <1>2, <1>4
  <2> QED  BY <1>1, <2>1
<1>5. Distinct(d)
  <2> SUFFICES ASSUME NEW j \in 1..Len(d), NEW k \in 1..Len(d), d[j].id = d[k].id
               PROVE  j = k
    BY <1>3 DEF Distinct
  <2>x. x.id = id  BY DEF x
  <2>1. CASE j = 1 \/ k = 1  BY <1>2, <1>4, <2>x, <2>1
  <2>2. CASE j # 1 /\ k # 1
    <3>1. from(j - 1) = from(k - 1)  BY <1>4, <1>n, <2>2 DEF Distinct
    <3>2. j - 1 = k - 1  BY <1>1, <1>4, <2>2, <3>1
    <3> QED  BY <1>1, <1>2, <3>2
  <2> QED  BY <2>1, <2>2
<1>6. \A k \in DOMAIN d : k # 1 => \E j \in DOMAIN c : c[j] = d[k] /\ c[j].id # id
  BY <1>3, <1>4, <1>n
<1>7. ASSUME Cached(c, id) \/ Len(c) < Capacity, NEW j \in 1..Len(c), c[j].id # id
      PROVE  \E k \in DOMAIN d : d[k] = c[j]
  <2>1. PICK k \in 1..Len(s) : from(k) = j  BY <1>1, <1>7
  <2>2. k + 1 \in 1..Len(d) /\ d[k + 1] = c[j]  BY <1>1, <1>2, <2>1
  <2> QED  BY <1>3, <2>2
<1> QED  BY <1>1, <1>2, <1>5, <1>6, <1>7, <1>n DEF x

-----------------------------------------------------------------------------
(* What threads do to themselves. *)

(* Errors are results, and results can be entered in a reply. *)
LEMMA ReplyTypes ==
    /\ <<>> \in Replies
    /\ \A what \in Outcomes : Error(what) \in Result
    /\ \A f \in Replies, id \in Id, r \in Result : With(f, id, r) \in Replies
<1>1. <<>> \in Replies
  <2>1. <<>> \in [{} -> Result] /\ {} \in SUBSET Id  OBVIOUS
  <2> QED  BY <2>1 DEF Replies
<1>2. \A what \in Outcomes : Error(what) \in Result  BY DEF Error, Result
<1>3. ASSUME NEW f \in Replies, NEW id \in Id, NEW r \in Result PROVE With(f, id, r) \in Replies
  <2>1. PICK D \in SUBSET Id : f \in [D -> Result]  BY DEF Replies
  <2>2. With(f, id, r) \in [D \cup {id} -> Result]  BY <2>1 DEF With
  <2> QED  BY <2>2 DEF Replies
<1> QED  BY <1>1, <1>2, <1>3

(* The answers in the cache are about their ids. *)
LEMMA LookupOwn ==
    ASSUME Types, CacheInv, NEW id, Cached(cache, id)
    PROVE  Lookup(cache, id) \in Result /\ Own(Lookup(cache, id), id)
<1>1. cache \in Seq(Item)  BY DEF Types, Item
<1> DEFINE p == Position(cache, id)
<1>2. p \in 1..Len(cache) /\ cache[p].id = id  BY <1>1, PositionIn
<1> HIDE DEF p
<1>3. cache[p] \in Item /\ p \in DOMAIN cache  BY <1>1, <1>2
<1>4. cache[p].result \in Result  BY <1>3 DEF Item
<1>5. Own(cache[p].result, cache[p].id)  BY <1>3 DEF CacheInv
<1>6. Lookup(cache, id) = cache[p].result  BY DEF Lookup, p
<1> QED  BY <1>2, <1>4, <1>5, <1>6

(* execute_batch_write_command: the results of a group. *)
LEMMA HarvestOwn ==
    ASSUME Types, CacheInv, NEW w \in Thread, OwnReplies(w.reply),
           NEW what \in Outcomes, what # "ok", NEW r, r = Harvest(w, w.group, what)
    PROVE  r \in Replies /\ OwnReplies(r)
<1> DEFINE ids == {w.group[k].id : k \in DOMAIN w.group}
<1>1. ids \subseteq Id
  <2>1. w.group \in Seq(Requests)  BY DEF Thread
  <2>2. \A c \in Requests : c.id \in Id  BY DEF Id
  <2> QED  BY <2>1, <2>2
<1>2. PICK D \in SUBSET Id : w.reply \in [D -> Result]  BY DEF Thread, Replies
<1> HIDE DEF ids
<1>3. r = [id \in D \cup ids |-> IF id \notin ids THEN w.reply[id]
                                 ELSE IF Cached(cache, id) THEN Lookup(cache, id) ELSE Error(what)]
  BY <1>2 DEF Harvest, ids
<1>4. Error(what) \in Result /\ Error(what).what # "ok"  BY ReplyTypes DEF Error
<1>5. ASSUME NEW id \in D \cup ids
      PROVE  r[id] \in Result /\ (r[id].what = "ok" => Own(r[id], id))
  <2>1. CASE id \notin ids
    <3>1. r[id] = w.reply[id] /\ id \in D  BY <1>3, <2>1
    <3> QED  BY <1>2, <3>1 DEF OwnReplies
  <2>2. CASE id \in ids /\ Cached(cache, id)
    <3>1. r[id] = Lookup(cache, id)  BY <1>3, <2>2
    <3> QED  BY <2>2, <3>1, LookupOwn
  <2>3. CASE id \in ids /\ ~Cached(cache, id)
    <3>1. r[id] = Error(what)  BY <1>3, <2>3
    <3> QED  BY <1>4, <3>1
  <2> QED  BY <2>1, <2>2, <2>3
<1>6. r \in [D \cup ids -> Result]  BY <1>3, <1>5
<1>7. r \in Replies  BY <1>1, <1>6 DEF Replies
<1>8. DOMAIN r = D \cup ids  BY <1>3
<1> QED  BY <1>5, <1>7, <1>8 DEF OwnReplies

(* The parts of a thread, one by one. *)
LEMMA NewThread ==
    ASSUME NEW pc \in Places, NEW batch \in BOOLEAN, NEW todo \in Seq(Requests),
           NEW group \in Seq(Requests), NEW read \in BOOLEAN, NEW next \in Seq(Requests),
           NEW index \in Nat, NEW promise \in {Null} \cup Result, NEW reply \in Replies
    PROVE  [pc |-> pc, batch |-> batch, todo |-> todo, group |-> group, read |-> read,
            next |-> next, index |-> index, promise |-> promise, reply |-> reply] \in Thread
BY DEF Thread

(* The thread of a batch goes on with the next group. *)
LEMMA Resumed ==
    ASSUME NEW w \in Thread, Sorted(w), w.batch, NEW r \in Replies, OwnReplies(r),
           NEW v, v = [Resume(w) EXCEPT !.reply = r]
    PROVE  v \in Thread /\ Sorted(v) /\ Answered(v) /\ v.pc = "scan"
<1> DEFINE kind == w.next # <<>> /\ ~w.read
<1>k. kind \in BOOLEAN  OBVIOUS
<1>1. v = [pc |-> "scan", batch |-> w.batch, todo |-> w.todo, group |-> w.next,
           read |-> kind, next |-> <<>>, index |-> 0, promise |-> Null,
           reply |-> r]
  BY DEF Resume, Thread
<1>2. /\ w.todo \in Seq(Requests) /\ w.next \in Seq(Requests) /\ w.read \in BOOLEAN
      /\ w.batch \in BOOLEAN
  BY DEF Thread
<1>3. v \in Thread
  <2> HIDE DEF kind
  <2>1. PICK b : b = w.batch  OBVIOUS
  <2>2. PICK todo : todo = w.todo  OBVIOUS
  <2>3. PICK group : group = w.next  OBVIOUS
  <2>4. PICK read \in BOOLEAN : read = kind  BY <1>k
  <2>5. PICK next : next = <<>>  OBVIOUS
  <2>6. PICK x : x = [pc |-> "scan", batch |-> b, todo |-> todo, group |-> group,
                      read |-> read, next |-> next, index |-> 0, promise |-> Null,
                      reply |-> r]
    OBVIOUS
  <2>7. /\ "scan" \in Places /\ 0 \in Nat /\ Null \in {Null} \cup Result
        /\ next \in Seq(Requests)
    BY <2>5 DEF Places
  <2>8. b \in BOOLEAN /\ todo \in Seq(Requests) /\ group \in Seq(Requests)
    BY <1>2, <2>1, <2>2, <2>3
  <2>9. x \in Thread  BY <2>6, <2>7, <2>8, <2>4, NewThread
  <2>10. v = x  BY <1>1, <2>1, <2>2, <2>3, <2>4, <2>5, <2>6
  <2> QED  BY <2>9, <2>10
<1>4. Sorted(v)
  <2>1. \A k \in DOMAIN w.next : w.next[k].read = (w.next # <<>> /\ ~w.read)
    <3> SUFFICES ASSUME NEW k \in DOMAIN w.next PROVE w.next[k].read = (w.next # <<>> /\ ~w.read)
      OBVIOUS
    <3>1. w.next # <<>>  BY <1>2
    <3>2. Len(w.next) = 1 /\ w.next[1].read = ~w.read  BY <3>1 DEF Sorted
    <3>3. k = 1  BY <1>2, <3>2
    <3> QED  BY <3>1, <3>2, <3>3
  <2> QED  BY <1>1, <2>1 DEF Sorted, Writing
<1>5. Answered(v)  BY <1>1 DEF Answered, Awaiting
<1> QED  BY <1>1, <1>3, <1>4, <1>5

(* What a thread does to itself: nothing of the log, of what ran and of the   *)
(* other threads changes.                                                     *)
Alone(t) ==
    /\ up /\ UNCHANGED <<log, log_lock, up, ghost, confirm>> /\ used'.crashes = used.crashes
    /\ thread[t].pc # "index"
    /\ \E w \in Thread : /\ Sorted(w) /\ Answered(w) /\ w.pc # "index"
                         /\ thread' = [thread EXCEPT ![t] = w]

(* The reply to one command. *)
LEMMA OneReply ==
    ASSUME NEW id \in Id, NEW r \in Result, r.what = "ok" => Own(r, id)
    PROVE  With(<<>>, id, r) \in Replies /\ OwnReplies(With(<<>>, id, r))
<1>1. With(<<>>, id, r) \in Replies  BY ReplyTypes
<1>2. With(<<>>, id, r) = [j \in {id} |-> r]  BY DEF With
<1> QED  BY <1>1, <1>2 DEF OwnReplies

(* The commands a thread can be given. *)
LEMMA RequestTypes ==
    /\ Commands \subseteq Requests /\ Batches \subseteq Seq(Requests)
    /\ \A c \in Requests : c.id \in Id /\ c.read \in BOOLEAN /\ c.len \in Nat /\ (c.read \/ c.len > 0)
    /\ \A s \in Seq(Requests) : Ids(s) \in Seq(Id) /\ Range(Ids(s)) \subseteq Id
<1>1. Commands \subseteq Requests  BY DEF Requests
<1>2. Batches \subseteq Seq(Requests) /\ Requests \subseteq [id : Id, read : BOOLEAN, len : Nat]
      /\ \A c \in Requests : c.read \/ c.len > 0
  BY SubmitAssumption
<1>3. ASSUME NEW s \in Seq(Requests) PROVE Ids(s) \in Seq(Id) /\ Range(Ids(s)) \subseteq Id
  <2>1. \A k \in 1..Len(s) : s[k] \in Requests  OBVIOUS
  <2>2. \A k \in 1..Len(s) : s[k].id \in Id  BY <1>2, <2>1
  <2>3. Ids(s) = [k \in 1..Len(s) |-> s[k].id] /\ Len(s) \in Nat  BY DEF Ids
  <2>4. Ids(s) \in [1..Len(s) -> Id]  BY <2>2, <2>3
  <2> QED  BY <2>3, <2>4 DEF Range
<1> QED  BY <1>1, <1>2, <1>3

(* A thread that is idle, with the reply and the groups of a new request. *)
LEMMA IdleThread == Idle \in Thread
<1>1. <<>> \in Seq(Requests) /\ <<>> \in Replies  BY ReplyTypes
<1> QED  BY <1>1 DEF Idle, Thread, Places

LEMMA SingleThread ==
    ASSUME NEW c \in Requests, NEW pc \in {"done", "write"}, pc = "write" => ~c.read,
           NEW reply \in Replies, OwnReplies(reply),
           NEW w, w = [Idle EXCEPT !.pc = pc, !.group = <<c>>, !.reply = reply]
    PROVE  w \in Thread /\ Sorted(w) /\ Answered(w) /\ w.pc # "index"
<1>0. Idle \in Thread  BY IdleThread
<1>1. <<c>> \in Seq(Requests) /\ c.read \in BOOLEAN  BY RequestTypes
<1> DEFINE g == <<c>>
<1>2. /\ w.pc = pc /\ w.batch = FALSE /\ w.todo = <<>> /\ w.group = g /\ w.read = FALSE
      /\ w.next = <<>> /\ w.index = 0 /\ w.promise = Null /\ w.reply = reply
  BY <1>0 DEF Idle, Thread
<1>3. w \in Thread
  <2>1. pc \in Places /\ g \in Seq(Requests)  BY <1>1 DEF Places
  <2> HIDE DEF g
  <2> QED  BY <1>0, <2>1 DEF Thread, g
<1>4. Sorted(w)
  <2>1. g[1] = c /\ Len(g) = 1 /\ g # <<>> /\ DOMAIN g = {1}  BY <1>1
  <2> HIDE DEF g
  <2> QED  BY <1>1, <1>2, <2>1 DEF Sorted, Writing
<1>5. Answered(w)  BY <1>2 DEF Answered, Awaiting
<1> QED  BY <1>2, <1>3, <1>4, <1>5

(* A thread of a batch that goes to write its group. *)
LEMMA WriteThread ==
    ASSUME NEW g
    PROVE  [[Idle EXCEPT !.pc = "done", !.group = g] EXCEPT !.pc = "write"]
           = [Idle EXCEPT !.pc = "write", !.group = g, !.reply = <<>>]
<1> SUFFICES ASSUME NEW v, v = [[Idle EXCEPT !.pc = "done", !.group = g] EXCEPT !.pc = "write"],
                    NEW w, w = [Idle EXCEPT !.pc = "write", !.group = g, !.reply = <<>>]
             PROVE  v = w
  OBVIOUS
<1>1. v = [pc |-> "write", batch |-> FALSE, todo |-> <<>>, group |-> g, read |-> FALSE,
           next |-> <<>>, index |-> 0, promise |-> Null, reply |-> <<>>]
  BY DEF Idle
<1>2. w = [pc |-> "write", batch |-> FALSE, todo |-> <<>>, group |-> g, read |-> FALSE,
           next |-> <<>>, index |-> 0, promise |-> Null, reply |-> <<>>]
  BY DEF Idle
<1> QED  BY <1>1, <1>2

(* submit_command: a read, a cached result or a group of one write. *)
LEMMA SubmitAlone ==
    ASSUME Types, ThreadInv, CacheInv, NEW t \in Threads, NEW c \in Commands, Submit(t, c)
    PROVE  Alone(t)
<1>0. c \in Requests /\ c.id \in Id /\ c.read \in BOOLEAN  BY RequestTypes
<1>1. /\ up /\ thread[t].pc # "index" /\ UNCHANGED <<log, log_lock, up, ghost, confirm>>
      /\ used'.crashes = used.crashes
  BY DEF Submit, Serving, Use, Types
<1>2. ASSUME NEW pc \in {"done", "write"}, NEW reply \in Replies, OwnReplies(reply),
             pc = "write" => ~c.read,
             thread' = [thread EXCEPT ![t] = [Idle EXCEPT !.pc = pc, !.group = <<c>>, !.reply = reply]]
      PROVE  Alone(t)
  <2> DEFINE w == [Idle EXCEPT !.pc = pc, !.group = <<c>>, !.reply = reply]
  <2>1. w \in Thread /\ Sorted(w) /\ Answered(w) /\ w.pc # "index"  BY <1>0, <1>2, SingleThread
  <2>2. thread' = [thread EXCEPT ![t] = w]  BY <1>2
  <2> HIDE DEF w
  <2> QED  BY <1>1, <2>1, <2>2 DEF Alone
<1>3. CASE Cached(cache, c.id)
  <2>1. Lookup(cache, c.id) \in Result /\ Own(Lookup(cache, c.id), c.id)  BY <1>3, LookupOwn
  <2> DEFINE r == With(<<>>, c.id, Lookup(cache, c.id))
  <2>2. r \in Replies /\ OwnReplies(r)  BY <1>0, <2>1, OneReply
  <2>3. thread' = [thread EXCEPT ![t] = [Idle EXCEPT !.pc = "done", !.group = <<c>>, !.reply = r]]
    BY <1>3 DEF Submit, Set
  <2> HIDE DEF r
  <2> QED  BY <1>2, <2>2, <2>3
<1>4. CASE ~Cached(cache, c.id) /\ c.read
  <2> DEFINE x == [id |-> c.id, n |-> 0, what |-> "read"]
             r == With(<<>>, c.id, x)
  <2>1. x \in Result /\ x.what # "ok"  BY <1>0 DEF Result, Outcomes
  <2>3. thread' = [thread EXCEPT ![t] = [Idle EXCEPT !.pc = "done", !.group = <<c>>, !.reply = r]]
    BY <1>4 DEF Submit, Set
  <2> HIDE DEF x
  <2>2. r \in Replies /\ OwnReplies(r)  BY <1>0, <2>1, OneReply
  <2> HIDE DEF r
  <2> QED  BY <1>2, <2>2, <2>3
<1>5. CASE ~Cached(cache, c.id) /\ ~c.read
  <2>1. <<>> \in Replies /\ OwnReplies(<<>>)  BY ReplyTypes DEF OwnReplies
  <2>2. thread' = [thread EXCEPT ![t] = [[Idle EXCEPT !.pc = "done", !.group = <<c>>] EXCEPT !.pc = "write"]]
    BY <1>5 DEF Submit, Set
  <2>3. [[Idle EXCEPT !.pc = "done", !.group = <<c>>] EXCEPT !.pc = "write"]
        = [Idle EXCEPT !.pc = "write", !.group = <<c>>, !.reply = <<>>]
    BY WriteThread, Zenon
  <2>4. thread' = [thread EXCEPT ![t] = [Idle EXCEPT !.pc = "write", !.group = <<c>>, !.reply = <<>>]]
    BY <2>2, <2>3
  <2> DEFINE r == <<>>
  <2>5. r \in Replies /\ OwnReplies(r)  BY <2>1
  <2>6. thread' = [thread EXCEPT ![t] = [Idle EXCEPT !.pc = "write", !.group = <<c>>, !.reply = r]]
    BY <2>4
  <2> HIDE DEF r
  <2> QED  BY <1>2, <1>5, <2>5, <2>6
<1> QED  BY <1>0, <1>3, <1>4, <1>5

(* A thread that takes up a batch, and one that goes on with it. *)
LEMMA BatchThread ==
    ASSUME NEW b \in Seq(Requests), NEW reply \in Replies, OwnReplies(reply),
           NEW w, w = [Idle EXCEPT !.pc = "scan", !.batch = TRUE, !.todo = b, !.reply = reply]
    PROVE  w \in Thread /\ Sorted(w) /\ Answered(w) /\ w.pc # "index"
<1>0. Idle \in Thread  BY IdleThread
<1>2. /\ w.pc = "scan" /\ w.batch = TRUE /\ w.todo = b /\ w.group = <<>> /\ w.read = FALSE
      /\ w.next = <<>> /\ w.index = 0 /\ w.promise = Null /\ w.reply = reply
  BY <1>0 DEF Idle, Thread
<1>3. w \in Thread  BY <1>0 DEF Thread, Places
<1>4. Sorted(w)  BY <1>2 DEF Sorted, Writing
<1>5. Answered(w)  BY <1>2 DEF Answered, Awaiting
<1> QED  BY <1>2, <1>3, <1>4, <1>5

(* submit_batch_command takes up the whole batch. *)
LEMMA SubmitBatchAlone ==
    ASSUME Types, ThreadInv, NEW t \in Threads, NEW b \in Batches, SubmitBatch(t, b)
    PROVE  Alone(t)
<1>0. b \in Seq(Requests) /\ Range(Ids(b)) \subseteq Id  BY RequestTypes
<1>1. /\ up /\ thread[t].pc # "index" /\ UNCHANGED <<log, log_lock, up, ghost, confirm>>
      /\ used'.crashes = used.crashes
  BY DEF SubmitBatch, Serving, Use, Types
<1> DEFINE r == [id \in Range(Ids(b)) |-> Error("timeout")]
           w == [Idle EXCEPT !.pc = "scan", !.batch = TRUE, !.todo = b, !.reply = r]
<1>2. r \in Replies /\ OwnReplies(r)
  <2>1. Error("timeout") \in Result /\ Error("timeout").what # "ok"  BY ReplyTypes DEF Error, Outcomes
  <2>2. r \in [Range(Ids(b)) -> Result]  BY <2>1
  <2> QED  BY <1>0, <2>1, <2>2 DEF Replies, OwnReplies
<1>3. thread' = [thread EXCEPT ![t] = w]  BY DEF SubmitBatch, Set
<1> HIDE DEF r
<1>4. w \in Thread /\ Sorted(w) /\ Answered(w) /\ w.pc # "index"  BY <1>0, <1>2, BatchThread
<1> HIDE DEF w
<1> QED  BY <1>1, <1>3, <1>4 DEF Alone

(* A batch goes on: it runs the group it has, or takes the next command up. *)
LEMMA RunThread ==
    ASSUME NEW w \in Thread, w.pc = "scan", Sorted(w), Answered(w),
           NEW run \in {"done", "read", "write"}, run = "write" => w.group # <<>> /\ ~w.read,
           NEW v, v = [w EXCEPT !.pc = run]
    PROVE  v \in Thread /\ Sorted(v) /\ Answered(v) /\ v.pc # "index"
<1>1. /\ v.pc = run /\ v.batch = w.batch /\ v.group = w.group /\ v.read = w.read
      /\ v.next = w.next /\ v.index = w.index /\ v.promise = w.promise /\ v.reply = w.reply
  BY DEF Thread
<1>2. v \in Thread  BY DEF Thread, Places
<1>b. w.batch  BY DEF Sorted
<1>3. Sorted(v)  BY <1>1, <1>b DEF Sorted, Writing
<1>4. Answered(v)  BY <1>1, <1>b DEF Answered, Awaiting
<1> QED  BY <1>1, <1>2, <1>3, <1>4

(* A command of the batch whose result is in the cache. *)
LEMMA HitThread ==
    ASSUME NEW w \in Thread, w.pc = "scan", Sorted(w), Answered(w), w.todo # <<>>,
           NEW id \in Id, NEW r \in Result, Own(r, id),
           NEW v, v = [w EXCEPT !.todo = Tail(@), !.reply = With(@, id, r)]
    PROVE  v \in Thread /\ Sorted(v) /\ Answered(v) /\ v.pc # "index"
<1> DEFINE reply == With(w.reply, id, r)
           todo == Tail(w.todo)
<1>t. todo \in Seq(Requests)  BY DEF Thread
<1>r. reply \in Replies  BY ReplyTypes DEF Thread
<1>b. w.batch  BY DEF Sorted
<1>o. OwnReplies(reply)
  <2>1. OwnReplies(w.reply)  BY <1>b DEF Answered
  <2>2. \A j \in DOMAIN w.reply \cup {id} : reply[j] = IF j = id THEN r ELSE w.reply[j]  BY DEF With
  <2>3. DOMAIN reply = DOMAIN w.reply \cup {id}  BY DEF With
  <2> HIDE DEF reply
  <2> QED  BY <2>1, <2>2, <2>3 DEF OwnReplies
<1>0. v = [w EXCEPT !.todo = todo, !.reply = reply]
  OBVIOUS
<1> HIDE DEF reply, todo
<1>1. /\ v.pc = "scan" /\ v.batch = w.batch /\ v.group = w.group /\ v.read = w.read
      /\ v.next = w.next /\ v.index = w.index /\ v.promise = w.promise /\ v.reply = reply
  BY <1>0 DEF Thread
<1>2. v \in Thread  BY <1>0, <1>t, <1>r DEF Thread
<1>3. Sorted(v)  BY <1>1, <1>b DEF Sorted, Writing
<1>4. Answered(v)  BY <1>1, <1>b, <1>o DEF Answered, Awaiting
<1> QED  BY <1>1, <1>2, <1>3, <1>4

(* A command of the same kind joins the group. *)
LEMMA JoinThread ==
    ASSUME NEW w \in Thread, w.pc = "scan", Sorted(w), Answered(w), w.todo # <<>>,
           NEW c \in Requests, w.group = <<>> \/ w.read = c.read,
           NEW v, v = [w EXCEPT !.todo = Tail(@), !.group = Append(@, c), !.read = c.read]
    PROVE  v \in Thread /\ Sorted(v) /\ Answered(v) /\ v.pc # "index"
<1> DEFINE group == Append(w.group, c)
           todo == Tail(w.todo)
           kind == c.read
<1>k. kind \in BOOLEAN  BY RequestTypes
<1>t. todo \in Seq(Requests)  BY DEF Thread
<1>s. w.group \in Seq(Requests)  BY DEF Thread
<1>g. group \in Seq(Requests)  BY <1>s
<1>b. w.batch  BY DEF Sorted
<1>o. \A k \in DOMAIN group : group[k].read = kind
  <2>1. \A k \in DOMAIN w.group : w.group[k].read = w.read  BY DEF Sorted
  <2>2. ASSUME NEW k \in DOMAIN group PROVE group[k].read = kind
    <3>1. CASE k = Len(w.group) + 1  BY <1>s, <3>1
    <3>2. CASE k # Len(w.group) + 1
      <4>1. k \in DOMAIN w.group /\ group[k] = w.group[k]  BY <1>s, <3>2
      <4>2. w.group # <<>>  BY <1>s, <4>1
      <4> QED  BY <2>1, <4>1, <4>2
    <3> QED  BY <3>1, <3>2
  <2> QED  BY <2>2
<1>0. v = [w EXCEPT !.todo = todo, !.group = group, !.read = kind]
  OBVIOUS
<1> HIDE DEF group, todo, kind
<1>1. /\ v.pc = "scan" /\ v.batch = w.batch /\ v.group = group /\ v.read = kind
      /\ v.next = w.next /\ v.index = w.index /\ v.promise = w.promise /\ v.reply = w.reply
  BY <1>0 DEF Thread
<1>2. v \in Thread  BY <1>0, <1>t, <1>g, <1>k DEF Thread
<1>3. Sorted(v)  BY <1>1, <1>b, <1>o DEF Sorted, Writing
<1>4. Answered(v)  BY <1>1, <1>b DEF Answered, Awaiting
<1> QED  BY <1>1, <1>2, <1>3, <1>4

(* A command of the other kind ends the group, which is run first. *)
LEMMA TurnThread ==
    ASSUME NEW w \in Thread, w.pc = "scan", Sorted(w), Answered(w), w.todo # <<>>,
           w.group # <<>>, NEW c \in Requests, w.read # c.read,
           NEW run \in {"read", "write"}, run = "write" => ~w.read,
           NEW v, v = [w EXCEPT !.pc = run, !.todo = Tail(@), !.next = <<c>>]
    PROVE  v \in Thread /\ Sorted(v) /\ Answered(v) /\ v.pc # "index"
<1> DEFINE next == <<c>>
           todo == Tail(w.todo)
<1>t. todo \in Seq(Requests)  BY DEF Thread
<1>n. next \in Seq(Requests) /\ Len(next) = 1 /\ next[1] = c  OBVIOUS
<1>b. w.batch /\ w.promise = Null  BY DEF Sorted
<1>k. c.read = ~w.read  
  <2>1. c.read \in BOOLEAN  BY RequestTypes
  <2>2. w.read \in BOOLEAN  BY DEF Thread
  <2> QED  BY <2>1, <2>2
<1>0. v = [w EXCEPT !.pc = run, !.todo = todo, !.next = next]
  OBVIOUS
<1> HIDE DEF next, todo
<1>1. /\ v.pc = run /\ v.batch = w.batch /\ v.group = w.group /\ v.read = w.read
      /\ v.next = next /\ v.index = w.index /\ v.promise = w.promise /\ v.reply = w.reply
  BY <1>0 DEF Thread
<1>2. v \in Thread  BY <1>0, <1>t, <1>n DEF Thread, Places
<1>3. Sorted(v)  BY <1>1, <1>b, <1>n, <1>k DEF Sorted, Writing
<1>4. Answered(v)  BY <1>1, <1>b DEF Answered, Awaiting
<1> QED  BY <1>1, <1>2, <1>3, <1>4

(* The loop over the batch takes up one command, or runs the last group. *)
LEMMA ScanAlone ==
    ASSUME Types, ThreadInv, CacheInv, AnswerInv, NEW t \in Threads, Scan(t)
    PROVE  Alone(t)
<1> DEFINE w == thread[t]
           c == Head(w.todo)
           run == IF w.group = <<>> THEN "done" ELSE IF w.read THEN "read" ELSE "write"
<1>0. w \in Thread /\ w.pc = "scan" /\ Sorted(w) /\ Answered(w)
  BY DEF Types, Scan, ThreadInv, AnswerInv
<1>1. /\ up /\ thread[t].pc # "index" /\ UNCHANGED <<log, log_lock, up, ghost, confirm>>
      /\ used'.crashes = used.crashes
  BY DEF Scan, Serving
<1>2. ASSUME NEW v, v \in Thread /\ Sorted(v) /\ Answered(v) /\ v.pc # "index",
             thread' = [thread EXCEPT ![t] = v]
      PROVE  Alone(t)
  BY <1>1, <1>2 DEF Alone
<1>r. w.read \in BOOLEAN /\ w.todo \in Seq(Requests)  BY <1>0 DEF Thread
<1>t. ASSUME w.todo # <<>> PROVE c \in Requests /\ c.id \in Id /\ c.read \in BOOLEAN
  <2>1. c \in Requests  BY <1>r, <1>t
  <2> QED  BY <2>1, RequestTypes
<1>3. CASE w.todo = <<>>
  <2> DEFINE v == [w EXCEPT !.pc = run]
  <2>1. run \in {"done", "read", "write"} /\ (run = "write" => w.group # <<>> /\ ~w.read)  BY <1>r
  <2>2. thread' = [thread EXCEPT ![t] = v]  BY <1>3 DEF Scan, Set
  <2> HIDE DEF w, run
  <2>3. v \in Thread /\ Sorted(v) /\ Answered(v) /\ v.pc # "index"  BY <1>0, <2>1, RunThread
  <2> HIDE DEF v
  <2> QED  BY <1>2, <2>2, <2>3
<1>4. CASE w.todo # <<>> /\ Cached(cache, c.id)
  <2> DEFINE r == Lookup(cache, c.id)
             v == [w EXCEPT !.todo = Tail(@), !.reply = With(@, c.id, r)]
  <2>1. r \in Result /\ Own(r, c.id) /\ c.id \in Id  BY <1>4, <1>t, LookupOwn
  <2>2. thread' = [thread EXCEPT ![t] = v]  BY <1>4 DEF Scan, Set
  <2> DEFINE id == c.id
  <2> HIDE DEF w, c, r
  <2>3. v \in Thread /\ Sorted(v) /\ Answered(v) /\ v.pc # "index"
    <3> HIDE DEF id
    <3> QED  BY <1>0, <1>4, <2>1, HitThread DEF id
  <2> HIDE DEF v
  <2> QED  BY <1>2, <2>2, <2>3
<1>5. CASE w.todo # <<>> /\ ~Cached(cache, c.id) /\ (w.group = <<>> \/ w.read = c.read)
  <2> DEFINE v == [w EXCEPT !.todo = Tail(@), !.group = Append(@, c), !.read = c.read]
  <2>1. thread' = [thread EXCEPT ![t] = v]  BY <1>5 DEF Scan, Set
  <2> HIDE DEF w, c
  <2>2. v \in Thread /\ Sorted(v) /\ Answered(v) /\ v.pc # "index"  BY <1>0, <1>5, <1>t, JoinThread
  <2> HIDE DEF v
  <2> QED  BY <1>2, <2>1, <2>2
<1>6. CASE w.todo # <<>> /\ ~Cached(cache, c.id) /\ ~(w.group = <<>> \/ w.read = c.read)
  <2> DEFINE v == [w EXCEPT !.pc = run, !.todo = Tail(@), !.next = <<c>>]
  <2>1. run \in {"read", "write"} /\ (run = "write" => ~w.read)  BY <1>r, <1>6
  <2>2. thread' = [thread EXCEPT ![t] = v]  BY <1>6 DEF Scan, Set
  <2> HIDE DEF w, c, run
  <2>3. v \in Thread /\ Sorted(v) /\ Answered(v) /\ v.pc # "index"
    BY <1>0, <1>6, <1>t, <2>1, TurnThread
  <2> HIDE DEF v
  <2> QED  BY <1>2, <2>2, <2>3
<1> QED  BY <1>3, <1>4, <1>5, <1>6

(* A group of reads is answered and the batch goes on. *)
LEMMA BatchReadAlone ==
    ASSUME Types, ThreadInv, CacheInv, AnswerInv, NEW t \in Threads, BatchRead(t)
    PROVE  Alone(t)
<1> DEFINE w == thread[t]
           position(id) == CHOOSE k \in DOMAIN w.group : w.group[k].id = id
           R(n) == [id \in DOMAIN w.reply |->
                       IF id \notin Range(Ids(w.group)) THEN w.reply[id]
                       ELSE IF position(id) <= n THEN [id |-> id, n |-> 0, what |-> "read"]
                       ELSE Error("timeout")]
<1>0. w \in Thread /\ w.pc = "read" /\ Sorted(w) /\ Answered(w)
  BY DEF Types, BatchRead, ThreadInv, AnswerInv
<1>b. w.batch /\ OwnReplies(w.reply)  BY <1>0 DEF Sorted, Answered
<1>1. /\ up /\ thread[t].pc # "index" /\ UNCHANGED <<log, log_lock, up, ghost, confirm>>
      /\ used'.crashes = used.crashes
  BY DEF BatchRead, Serving
<1>2. Resume(w).reply = w.reply
  <2> HIDE DEF w
  <2> QED  BY <1>0 DEF Resume, Thread
<1>3. PICK n \in 0..Len(w.group) :
          thread' = [thread EXCEPT ![t] = [Resume(w) EXCEPT !.reply = 
                [id \in DOMAIN Resume(w).reply |->
                    IF id \notin Range(Ids(w.group)) THEN Resume(w).reply[id]
                    ELSE IF position(id) <= n THEN [id |-> id, n |-> 0, what |-> "read"]
                    ELSE Error("timeout")]]]
  BY DEF BatchRead, Set
<1> DEFINE v == [Resume(w) EXCEPT !.reply = R(n)]
<1>4. thread' = [thread EXCEPT ![t] = v]  BY <1>2, <1>3
<1>5. R(n) \in Replies /\ OwnReplies(R(n))
  <2>1. PICK D \in SUBSET Id : w.reply \in [D -> Result]
    <3> HIDE DEF w
    <3> QED  BY <1>0 DEF Thread, Replies
  <2> DEFINE f == R(n)
  <2>2. f = [id \in D |-> IF id \notin Range(Ids(w.group)) THEN w.reply[id]
                          ELSE IF position(id) <= n THEN [id |-> id, n |-> 0, what |-> "read"]
                          ELSE Error("timeout")]
    BY <2>1
  <2>3. Error("timeout") \in Result /\ Error("timeout").what # "ok"  BY ReplyTypes DEF Error, Outcomes
  <2>4. ASSUME NEW id \in D
        PROVE  /\ [id |-> id, n |-> 0, what |-> "read"] \in Result
               /\ [id |-> id, n |-> 0, what |-> "read"].what # "ok"
    BY DEF Result, Outcomes
  <2> HIDE DEF w, f, position
  <2>5. ASSUME NEW id \in D
        PROVE  f[id] \in Result /\ (f[id].what = "ok" => Own(f[id], id))
    <3>1. CASE id \notin Range(Ids(w.group))
      <4>1. f[id] = w.reply[id] /\ w.reply[id] \in Result /\ id \in DOMAIN w.reply  BY <2>1, <2>2, <3>1
      <4> QED  BY <1>b, <4>1 DEF OwnReplies
    <3>2. CASE id \in Range(Ids(w.group)) /\ position(id) <= n
      <4>1. f[id] = [id |-> id, n |-> 0, what |-> "read"]  BY <2>2, <3>2
      <4> QED  BY <2>4, <4>1
    <3>3. CASE id \in Range(Ids(w.group)) /\ ~(position(id) <= n)
      <4>1. f[id] = Error("timeout")  BY <2>2, <3>3
      <4> QED  BY <2>3, <4>1
    <3> QED  BY <3>1, <3>2, <3>3
  <2>6. DOMAIN f = D /\ f \in [D -> Result]  BY <2>2, <2>5
  <2>7. f \in Replies /\ OwnReplies(f)  BY <2>5, <2>6 DEF Replies, OwnReplies
  <2> QED  BY <2>7 DEF f, w, position
<1> HIDE DEF w, R
<1>6. v \in Thread /\ Sorted(v) /\ Answered(v) /\ v.pc = "scan"  BY <1>0, <1>b, <1>5, Resumed
<1> HIDE DEF v
<1> QED  BY <1>1, <1>4, <1>6 DEF Alone

(* The client has its answer and the thread is free. *)
LEMMA ReplyAlone ==
    ASSUME Types, ThreadInv, NEW t \in Threads, Reply(t)
    PROVE  Alone(t)
<1>1. /\ up /\ thread[t].pc # "index" /\ UNCHANGED <<log, log_lock, up, ghost, confirm>>
      /\ used'.crashes = used.crashes /\ thread' = [thread EXCEPT ![t] = Idle]
  BY DEF Reply, Set
<1>2. Idle.pc = "idle" /\ Idle.batch = FALSE /\ Idle.group = <<>> /\ Idle.next = <<>>
      /\ Idle.promise = Null /\ Idle.reply = <<>>
  BY DEF Idle
<1>3. Sorted(Idle)  BY <1>2 DEF Sorted, Writing
<1>4. Answered(Idle)  BY <1>2 DEF Answered, Awaiting, OwnReplies
<1> QED  BY <1>1, <1>2, <1>3, <1>4, IdleThread DEF Alone

(* A single command or a group moves on to wait for its result. *)
LEMMA StepThread ==
    ASSUME NEW w \in Thread, w.pc \in {"register", "commit"}, Sorted(w), Answered(w),
           NEW pc \in {"commit", "wait", "harvest"},
           NEW v, v = [w EXCEPT !.pc = pc]
    PROVE  v \in Thread /\ Sorted(v) /\ Answered(v) /\ v.pc # "index"
<1>1. /\ v.pc = pc /\ v.batch = w.batch /\ v.group = w.group /\ v.read = w.read
      /\ v.next = w.next /\ v.index = w.index /\ v.promise = w.promise /\ v.reply = w.reply
  BY DEF Thread
<1>2. v \in Thread  BY DEF Thread, Places
<1>3. Sorted(v)  BY <1>1 DEF Sorted, Writing
<1>4. Answered(v)  BY <1>1 DEF Answered, Awaiting
<1> QED  BY <1>1, <1>2, <1>3, <1>4

(* A single command has its answer. *)
LEMMA DoneThread ==
    ASSUME NEW w \in Thread, Sorted(w), Answered(w), ~w.batch,
           NEW reply \in Replies, OwnReplies(reply) \/ w.index \in ghost.failed,
           NEW v, v = [w EXCEPT !.pc = "done", !.reply = reply]
    PROVE  v \in Thread /\ Sorted(v) /\ Answered(v) /\ v.pc = "done"
<1>1. /\ v.pc = "done" /\ v.batch = w.batch /\ v.group = w.group /\ v.read = w.read
      /\ v.next = w.next /\ v.index = w.index /\ v.promise = w.promise /\ v.reply = reply
  BY DEF Thread
<1>2. v \in Thread  BY DEF Thread, Places
<1>3. Sorted(v)  BY <1>1 DEF Sorted, Writing
<1>4. Answered(v)  BY <1>1 DEF Answered, Awaiting
<1> QED  BY <1>1, <1>2, <1>3, <1>4

(* The promise of an index that is being waited for. *)
LEMMA RegisterAlone ==
    ASSUME Types, ThreadInv, AnswerInv, NEW t \in Threads, Register(t)
    PROVE  Alone(t)
<1> DEFINE w == thread[t]
           v == [w EXCEPT !.pc = "commit"]
<1>0. w \in Thread /\ w.pc = "register" /\ Sorted(w) /\ Answered(w)
  BY DEF Types, Register, ThreadInv, AnswerInv
<1>1. /\ up /\ thread[t].pc # "index" /\ UNCHANGED <<log, log_lock, up, ghost, confirm>>
      /\ used'.crashes = used.crashes /\ thread' = [thread EXCEPT ![t] = v]
  BY DEF Register, Serving, Set
<1> HIDE DEF w
<1>2. v \in Thread /\ Sorted(v) /\ Answered(v) /\ v.pc # "index"  BY <1>0, StepThread
<1> HIDE DEF v
<1> QED  BY <1>1, <1>2 DEF Alone

(* try_commit_entries lets the thread wait, or the leader alone collects at once. *)
LEMMA CommitAlone ==
    ASSUME Types, ThreadInv, AnswerInv, NEW t \in Threads, Commit(t)
    PROVE  Alone(t)
<1> DEFINE w == thread[t]
           pc == IF confirm THEN "wait" ELSE "harvest"
           v == [w EXCEPT !.pc = pc]
<1>0. w \in Thread /\ w.pc = "commit" /\ Sorted(w) /\ Answered(w)
  BY DEF Types, Commit, ThreadInv, AnswerInv
<1>1. /\ up /\ thread[t].pc # "index" /\ UNCHANGED <<log, log_lock, up, ghost, confirm>>
      /\ used'.crashes = used.crashes /\ thread' = [thread EXCEPT ![t] = v]
  BY DEF Commit, Serving, Set
<1>p. pc \in {"commit", "wait", "harvest"}  OBVIOUS
<1> HIDE DEF w, pc
<1>2. v \in Thread /\ Sorted(v) /\ Answered(v) /\ v.pc # "index"  BY <1>0, <1>p, StepThread
<1> HIDE DEF v
<1> QED  BY <1>1, <1>2 DEF Alone

(* What a thread has collected is what it answers. *)
LEMMA CollectedAlone ==
    ASSUME Types, ThreadInv, AnswerInv, NEW t \in Threads, up, thread[t].pc \in {"wait", "harvest"},
           UNCHANGED <<log, log_lock, up, ghost, confirm, used>>,
           NEW reply \in Replies, Collected(t, reply),
           OwnReplies(reply) \/ (~thread[t].batch /\ thread[t].index \in ghost.failed)
    PROVE  Alone(t) /\ thread'[t].pc \in {"scan", "done"}
<1> DEFINE w == thread[t]
<1>0. w \in Thread /\ w.pc \in {"wait", "harvest"} /\ Sorted(w) /\ Answered(w)
  BY DEF Types, ThreadInv, AnswerInv
<1>1. /\ up /\ thread[t].pc # "index" /\ UNCHANGED <<log, log_lock, up, ghost, confirm>>
      /\ used'.crashes = used.crashes
  OBVIOUS
<1>2. CASE w.batch
  <2> DEFINE v == [Resume(w) EXCEPT !.reply = reply]
  <2>1. thread' = [thread EXCEPT ![t] = v]  BY <1>2 DEF Collected, Set
  <2>2. OwnReplies(reply)  BY <1>2
  <2> HIDE DEF w
  <2>3. v \in Thread /\ Sorted(v) /\ Answered(v) /\ v.pc = "scan"  BY <1>0, <1>2, <2>2, Resumed
  <2> HIDE DEF v
  <2>4. thread'[t] = v  BY <2>1 DEF Types
  <2> QED  BY <1>1, <2>1, <2>3, <2>4 DEF Alone
<1>3. CASE ~w.batch
  <2> DEFINE v == [w EXCEPT !.pc = "done", !.reply = reply]
  <2>1. thread' = [thread EXCEPT ![t] = v]  BY <1>3 DEF Collected, Set
  <2>2. OwnReplies(reply) \/ w.index \in ghost.failed  OBVIOUS
  <2> HIDE DEF w
  <2>3. v \in Thread /\ Sorted(v) /\ Answered(v) /\ v.pc = "done"  BY <1>0, <1>3, <2>2, DoneThread
  <2> HIDE DEF v
  <2>4. thread'[t] = v  BY <2>1 DEF Types
  <2> QED  BY <1>1, <2>1, <2>3, <2>4 DEF Alone
<1> QED  BY <1>2, <1>3

(* Without confirmation the results are taken from the cache. *)
LEMMA CollectCommittedAlone ==
    ASSUME Types, ThreadInv, CacheInv, AnswerInv, NEW t \in Threads, CollectCommitted(t)
    PROVE  Alone(t) /\ thread'[t].pc \in {"scan", "done"}
<1> DEFINE w == thread[t]
           r == Harvest(w, w.group, "failed")
<1>0. w \in Thread /\ w.pc = "harvest" /\ Answered(w)
  BY DEF Types, CollectCommitted, AnswerInv
<1>1. /\ up /\ thread[t].pc \in {"wait", "harvest"} /\ Collected(t, r)
      /\ UNCHANGED <<log, log_lock, up, ghost, confirm, used>>
  BY DEF CollectCommitted
<1>2. OwnReplies(w.reply) /\ "failed" \in Outcomes  BY <1>0 DEF Answered, Outcomes
<1>3. r \in Replies /\ OwnReplies(r)
  <2> HIDE DEF w
  <2> QED  BY <1>0, <1>2, HarvestOwn
<1> HIDE DEF r
<1> QED  BY <1>1, <1>3, CollectedAlone

(* The future is ready. *)
LEMMA NotifiedAlone ==
    ASSUME Types, ThreadInv, CacheInv, AnswerInv, NEW t \in Threads, Notified(t)
    PROVE  Alone(t) /\ thread'[t].pc \in {"scan", "done"}
<1> DEFINE w == thread[t]
<1>0. w \in Thread /\ w.pc = "wait" /\ Sorted(w) /\ Answered(w) /\ w.promise # Null
  BY DEF Types, Notified, AnswerInv, ThreadInv
<1>1. /\ up /\ thread[t].pc \in {"wait", "harvest"}
      /\ UNCHANGED <<log, log_lock, up, ghost, confirm, used>>
  BY DEF Notified
<1>2. CASE w.batch
  <2> DEFINE r == Harvest(w, w.group, "failed")
  <2>1. Collected(t, r)  BY <1>2 DEF Notified
  <2>2. OwnReplies(w.reply) /\ "failed" \in Outcomes  BY <1>0 DEF Answered, Outcomes
  <2>3. r \in Replies /\ OwnReplies(r)
    <3> HIDE DEF w
    <3> QED  BY <1>0, <2>2, HarvestOwn
  <2> HIDE DEF r
  <2> QED  BY <1>1, <2>1, <2>3, CollectedAlone
<1>3. CASE ~w.batch
  <2> DEFINE id == w.group[1].id
             r == With(<<>>, id, w.promise)
  <2>1. Collected(t, r)  BY <1>3 DEF Notified
  <2>2. w.promise \in Result /\ id \in Id
    <3>1. w.promise \in {Null} \cup Result /\ w.group \in Seq(Requests)
      <4> HIDE DEF w
      <4> QED  BY <1>0 DEF Thread
    <3>2. Len(w.group) = 1  BY <1>0, <1>3 DEF Sorted, Writing
    <3>3. w.group[1] \in Requests  BY <3>1, <3>2
    <3> QED  BY <1>0, <3>1, <3>3, RequestTypes
  <2>3. r \in Replies  BY <2>2, ReplyTypes
  <2>4. w.index \notin ghost.failed => OwnReplies(r)
    <3>1. w.index \notin ghost.failed => (w.promise.what = "ok" => Own(w.promise, id))
      BY <1>0, <1>3 DEF Answered
    <3> HIDE DEF w, id
    <3> QED  BY <2>2, <3>1, OneReply
  <2> HIDE DEF r
  <2> QED  BY <1>1, <1>3, <2>1, <2>3, <2>4, CollectedAlone
<1> QED  BY <1>2, <1>3

(* wait_for gave up. *)
LEMMA TimeoutAlone ==
    ASSUME Types, ThreadInv, CacheInv, AnswerInv, NEW t \in Threads, Timeout(t)
    PROVE  Alone(t) /\ thread'[t].pc \in {"scan", "done"}
<1> DEFINE w == thread[t]
<1>0. w \in Thread /\ w.pc = "wait" /\ Sorted(w) /\ Answered(w)
  BY DEF Types, Timeout, AnswerInv, ThreadInv
<1>1. /\ up /\ thread[t].pc \in {"wait", "harvest"}
      /\ UNCHANGED <<log, log_lock, up, ghost, confirm, used>>
  BY DEF Timeout
<1>2. CASE w.batch
  <2> DEFINE r == Harvest(w, w.group, "timeout")
  <2>1. Collected(t, r)  BY <1>2 DEF Timeout
  <2>2. OwnReplies(w.reply) /\ "timeout" \in Outcomes  BY <1>0 DEF Answered, Outcomes
  <2>3. r \in Replies /\ OwnReplies(r)
    <3> HIDE DEF w
    <3> QED  BY <1>0, <2>2, HarvestOwn
  <2> HIDE DEF r
  <2> QED  BY <1>1, <2>1, <2>3, CollectedAlone
<1>3. CASE ~w.batch
  <2> DEFINE id == w.group[1].id
             x == Error("timeout")
             r == With(<<>>, id, x)
  <2>1. Collected(t, r)  BY <1>3 DEF Timeout
  <2>2. id \in Id
    <3>1. w.group \in Seq(Requests)
      <4> HIDE DEF w
      <4> QED  BY <1>0 DEF Thread
    <3>2. Len(w.group) = 1  BY <1>0, <1>3 DEF Sorted, Writing
    <3>3. w.group[1] \in Requests  BY <3>1, <3>2
    <3> QED  BY <3>3, RequestTypes
  <2>3. x \in Result /\ x.what # "ok"  BY ReplyTypes DEF Error, Outcomes
  <2> HIDE DEF x, id
  <2>4. r \in Replies /\ OwnReplies(r)  BY <2>2, <2>3, OneReply
  <2> HIDE DEF r
  <2> QED  BY <1>1, <2>1, <2>4, CollectedAlone
<1> QED  BY <1>2, <1>3

(* The rest of the log's invariants rests on the log and on the thread that   *)
(* holds its mutex.                                                           *)
LogInv == FileInv /\ MemoryInv /\ TailInv

(* A step that leaves the log, its mutex and the thread that holds it alone. *)
LEMMA LogFrame ==
    ASSUME LogInv, UNCHANGED <<log, log_lock, up>>, ghost'.misplaced = ghost.misplaced,
           ghost'.dropped = ghost.dropped,
           log_lock # Null => thread'[log_lock] = thread[log_lock]
    PROVE  LogInv'
<1>1. FileInv'  BY DEF LogInv, FileInv
<1>2. MemoryInv'  BY DEF LogInv, MemoryInv, Unreadable, GivesUp, Readable, RecordAt
<1>3. TailInv'
  <2>1. CASE log_lock = Null
    <3>1. log' = log /\ log_lock' = log_lock /\ up' = up /\ ftell(log)' = ftell(log)
      BY DEF ftell, FileEnd
    <3> QED  BY <2>1, <3>1 DEF LogInv, TailInv
  <2>2. CASE log_lock # Null
    <3>1. thread'[log_lock] = thread[log_lock] /\ log' = log /\ log_lock' = log_lock  BY <2>2
    <3>2. NewEntries(log_lock)' = NewEntries(log_lock)  BY <3>1 DEF NewEntries
    <3>3. log_lock' # Null  BY <2>2, <3>1
    <3> QED  BY <3>1, <3>2, <3>3, <2>2 DEF LogInv, TailInv
  <2> QED  BY <2>1, <2>2
<1> QED  BY <1>1, <1>2, <1>3 DEF LogInv

(* What a step of one thread by itself keeps for all of them. *)
LEMMA AloneStep ==
    ASSUME Types, ThreadInv, LogInv, AnswerInv, NEW t \in Threads, Alone(t)
    PROVE  /\ thread' \in [Threads -> Thread] /\ ThreadInv' /\ LogInv'
           /\ \A s \in Threads : Answered(thread[s])'
           /\ \A s \in Threads \ {t} : thread'[s] = thread[s]
<1>1. PICK w \in Thread : Sorted(w) /\ Answered(w) /\ w.pc # "index" /\ thread' = [thread EXCEPT ![t] = w]
  BY DEF Alone
<1>2. thread \in [Threads -> Thread]  BY DEF Types
<1>3. thread' \in [Threads -> Thread]  BY <1>1, <1>2
<1>4. thread'[t] = w /\ \A s \in Threads \ {t} : thread'[s] = thread[s]  BY <1>1, <1>2
<1>5. up /\ log' = log /\ log_lock' = log_lock /\ up' = up /\ ghost' = ghost /\ confirm' = confirm
      /\ thread[t].pc # "index" /\ UNCHANGED <<log, log_lock, up>>
  BY DEF Alone
<1>6. log_lock # t /\ log_lock \in Threads \cup {Null}  BY <1>5 DEF ThreadInv, Types
<1>7. ThreadInv'
  <2>1. \A s \in Threads : Sorted(thread'[s])
    <3> TAKE s \in Threads
    <3>1. CASE s = t  BY <1>1, <1>4, <3>1
    <3>2. CASE s # t  BY <1>4, <3>2 DEF ThreadInv
    <3> QED  BY <3>1, <3>2
  <2>2. \A s \in Threads : thread'[s].pc = "index" <=> log_lock' = s
    <3> TAKE s \in Threads
    <3>1. CASE s = t  BY <1>1, <1>4, <1>5, <1>6, <3>1
    <3>2. CASE s # t  BY <1>4, <1>5, <3>2 DEF ThreadInv
    <3> QED  BY <3>1, <3>2
  <2> QED  BY <1>5, <2>1, <2>2 DEF ThreadInv
<1>8. LogInv'
  <2>1. ghost'.misplaced = ghost.misplaced /\ ghost'.dropped = ghost.dropped  BY <1>5
  <2>2. log_lock # Null => thread'[log_lock] = thread[log_lock]  BY <1>4, <1>6
  <2> QED  BY <1>5, <2>1, <2>2, LogFrame
<1>9. ASSUME NEW s \in Threads PROVE Answered(thread[s])'
  <2> DEFINE x == thread'[s]
  <2>1. Answered(x)
    <3>1. CASE s = t  BY <1>1, <1>4, <3>1
    <3>2. CASE s # t  BY <1>4, <3>2 DEF AnswerInv
    <3> QED  BY <3>1, <3>2
  <2> QED  BY <1>5, <2>1 DEF Answered, OwnReplies, Own
<1> QED  BY <1>3, <1>4, <1>7, <1>8, <1>9

(* Whoever waits in pending_requests_ is not one that changes. *)
LEMMA PendingFrame ==
    ASSUME Types, AnswerInv, NEW t \in Threads, Alone(t), UNCHANGED pending,
           thread[t].pc \notin {"commit", "wait"}
    PROVE  PendingInv'
<1>1. thread \in [Threads -> Thread]  BY DEF Types
<1>2. confirm' = confirm /\ \A s \in Threads \ {t} : thread'[s] = thread[s]  BY <1>1 DEF Alone
<1>3. ASSUME NEW i \in DOMAIN pending PROVE pending[i] \in Threads \ {t}
  BY DEF Types, AnswerInv, PendingInv
<1> QED  BY <1>2, <1>3 DEF AnswerInv, PendingInv

(* A request that enters pending_requests_. *)
LEMMA PendingRegister ==
    ASSUME Types, ThreadInv, AnswerInv, NEW t \in Threads, Register(t)
    PROVE  PendingInv' /\ pending' \in [DOMAIN pending' -> Threads] /\ DOMAIN pending' \subseteq Nat
<1> DEFINE w == thread[t]
           v == [w EXCEPT !.pc = "commit"]
<1>0. w \in Thread /\ w.pc = "register" /\ w.promise = Null /\ w.index \in Nat /\ confirm
  BY DEF Types, Register, ThreadInv, Sorted, AnswerInv, Answered, Thread
<1>1. /\ thread' = [thread EXCEPT ![t] = v] /\ confirm' = confirm
      /\ pending' = With(pending, w.index, t)
  BY DEF Register, Set
<1>2. v.pc = "commit" /\ v.promise = Null /\ v.index = w.index
  <2> HIDE DEF w
  <2> QED  BY <1>0 DEF Thread
<1>3. thread \in [Threads -> Thread] /\ pending \in [DOMAIN pending -> Threads] /\ DOMAIN pending \subseteq Nat
  BY DEF Types
<1> HIDE DEF v, w
<1>4. thread'[t] = v /\ \A s \in Threads \ {t} : thread'[s] = thread[s]  BY <1>1, <1>3
<1>5. /\ DOMAIN pending' = DOMAIN pending \cup {w.index}
      /\ \A i \in DOMAIN pending' : pending'[i] = IF i = w.index THEN t ELSE pending[i]
  BY <1>1 DEF With
<1>6. ASSUME NEW i \in DOMAIN pending'
      PROVE  /\ pending'[i] \in Threads
             /\ thread'[pending'[i]].index = i /\ thread'[pending'[i]].pc \in {"commit", "wait"}
             /\ thread'[pending'[i]].promise = Null
  <2>1. CASE i = w.index  BY <1>2, <1>4, <1>5, <2>1
  <2>2. CASE i # w.index
    <3>1. i \in DOMAIN pending /\ pending'[i] = pending[i]  BY <1>5, <2>2
    <3>2. pending[i] \in Threads /\ thread[pending[i]].index = i /\ thread[pending[i]].pc \in {"commit", "wait"}
          /\ thread[pending[i]].promise = Null
      BY <1>3, <3>1 DEF AnswerInv, PendingInv
    <3>3. pending[i] # t  BY <1>0, <3>2 DEF w
    <3> QED  BY <1>4, <3>1, <3>2, <3>3
  <2> QED  BY <2>1, <2>2
<1>7. PendingInv'  BY <1>0, <1>1, <1>6 DEF PendingInv
<1>8. pending' \in [DOMAIN pending' -> Threads] /\ DOMAIN pending' \subseteq Nat
  <2>1. pending' = [i \in DOMAIN pending \cup {w.index} |-> IF i = w.index THEN t ELSE pending[i]]
    BY <1>1 DEF With
  <2> QED  BY <1>0, <1>3, <1>5, <1>6, <2>1
<1> QED  BY <1>7, <1>8

(* The commits, which leave the request as it waits. *)
LEMMA PendingCommit ==
    ASSUME Types, ThreadInv, AnswerInv, NEW t \in Threads, Commit(t)
    PROVE  PendingInv'
<1> DEFINE w == thread[t]
           pc == IF confirm THEN "wait" ELSE "harvest"
           v == [w EXCEPT !.pc = pc]
<1>0. w \in Thread  BY DEF Types
<1>1. thread' = [thread EXCEPT ![t] = v] /\ confirm' = confirm /\ pending' = pending
  BY DEF Commit, Set
<1>2. v.pc = pc /\ v.promise = w.promise /\ v.index = w.index
  <2> HIDE DEF w, pc
  <2> QED  BY <1>0 DEF Thread
<1>3. thread \in [Threads -> Thread] /\ pending \in [DOMAIN pending -> Threads]
  BY DEF Types
<1> HIDE DEF v
<1>4. thread'[t] = v /\ \A s \in Threads \ {t} : thread'[s] = thread[s]  BY <1>1, <1>3
<1>5. CASE ~confirm  BY <1>1, <1>5 DEF AnswerInv, PendingInv
<1>6. CASE confirm
  <2>1. ASSUME NEW i \in DOMAIN pending
        PROVE  /\ thread'[pending[i]].index = i /\ thread'[pending[i]].pc \in {"commit", "wait"}
               /\ thread'[pending[i]].promise = Null
    <3>1. pending[i] \in Threads /\ thread[pending[i]].index = i /\ thread[pending[i]].pc \in {"commit", "wait"}
          /\ thread[pending[i]].promise = Null
      BY <1>3 DEF AnswerInv, PendingInv
    <3>2. CASE pending[i] = t  BY <1>2, <1>4, <1>6, <3>1, <3>2
    <3>3. CASE pending[i] # t  BY <1>4, <3>1, <3>3
    <3> QED  BY <3>2, <3>3
  <2> QED  BY <1>1, <1>6, <2>1 DEF PendingInv
<1> QED  BY <1>5, <1>6

(* A thread whose promise is fulfilled is erased already. *)
LEMMA PendingNotified ==
    ASSUME Types, AnswerInv, NEW t \in Threads, Notified(t), Alone(t)
    PROVE  PendingInv'
<1>1. thread \in [Threads -> Thread]  BY DEF Types
<1>2. confirm' = confirm /\ pending' = pending /\ \A s \in Threads \ {t} : thread'[s] = thread[s]
  BY <1>1 DEF Alone, Notified
<1>3. ASSUME NEW i \in DOMAIN pending PROVE pending[i] \in Threads \ {t}
  BY DEF Types, AnswerInv, PendingInv, Notified
<1> QED  BY <1>2, <1>3 DEF AnswerInv, PendingInv

(* A thread whose wait ends erases its request. *)
LEMMA PendingTimeout ==
    ASSUME Types, AnswerInv, NEW t \in Threads, Timeout(t), Alone(t)
    PROVE  PendingInv' /\ pending' \in [DOMAIN pending' -> Threads] /\ DOMAIN pending' \subseteq Nat
<1>1. /\ thread \in [Threads -> Thread] /\ pending \in [DOMAIN pending -> Threads]
      /\ DOMAIN pending \subseteq Nat
  BY DEF Types
<1> DEFINE D == DOMAIN pending \ {thread[t].index}
<1>2. confirm' = confirm /\ \A s \in Threads \ {t} : thread'[s] = thread[s]
  BY <1>1 DEF Alone
<1>3. pending' = [i \in D |-> pending[i]]
  BY DEF Timeout, Without, Restrict
<1>4. ASSUME NEW i \in D PROVE pending[i] \in Threads \ {t}
  BY <1>1 DEF AnswerInv, PendingInv
<1> QED  BY <1>1, <1>2, <1>3, <1>4 DEF AnswerInv, PendingInv

(* The indexes of a log that starts at 1 are the positions of its entries. *)
LEMMA LastIndexIs ==
    ASSUME NEW l \in Log
    PROVE  LastIndex(l) = Len(l.entries) /\ LastIndex(l) \in Nat /\ l.entries \in Seq(Entry) /\ l.base = 1
           /\ \A i : InLog(l, i) /\ i \in Int <=> i \in DOMAIN l.entries
<1>1. l.entries \in Seq(Entry) /\ l.base = 1  BY DEF Log
<1>2. LastIndex(l) = Len(l.entries)  BY <1>1 DEF LastIndex
<1>3. \A i : InLog(l, i) /\ i \in Int <=> i \in DOMAIN l.entries  BY <1>1 DEF InLog
<1> QED  BY <1>1, <1>2, <1>3

(* Some index is held by a majority, and none of these is past the log's end. *)
LEMMA MajorityIs ==
    ASSUME NEW D \in SUBSET Followers, NEW m \in [D -> Nat], LastIndex(log) \in Nat,
           \A f \in D : m[f] <= LastIndex(log)
    PROVE  MajorityIndex(m) \in Nat /\ MajorityIndex(m) <= LastIndex(log)
<1> DEFINE last == LastIndex(log)
           holders(v) == Cardinality({f \in DOMAIN m : m[f] >= v}) + IF last >= v THEN 1 ELSE 0
           V == Range(m) \cup {last}
           S == {v \in V : holders(v) > (Cardinality(DOMAIN m) + 1) \div 2}
<1>0. DOMAIN m = D /\ V = {m[f] : f \in D} \cup {last}  BY DEF Range
<1>1. V \in SUBSET Nat /\ V # {} /\ last \in V /\ last \in Nat
      /\ \A f \in D : m[f] \in V
  BY <1>0
<1>2. \A v \in V : v <= last  BY <1>0
<1>3. PICK v \in V : \A y \in V : v <= y
  <2> HIDE DEF V
  <2>1. \E x \in V : \A y \in V : x <= y  BY <1>1, NatMin
  <2> QED  BY <2>1
<1>4. v \in S
  <2>1. {f \in DOMAIN m : m[f] >= v} = D
    <3> HIDE DEF V
    <3> QED  BY <1>0, <1>1, <1>3
  <2>2. IsFiniteSet(D)  BY SubmitAssumption, FS_Subset
  <2>3. Cardinality(D) \in Nat  BY <2>2, FS_CardinalityType
  <2>4. last >= v
    <3> HIDE DEF V
    <3> QED  BY <1>1, <1>3
  <2>5. holders(v) = Cardinality(D) + 1  BY <2>1, <2>4
  <2>6. Cardinality(D) + 1 > (Cardinality(D) + 1) \div 2  BY <2>3
  <2> QED  BY <1>0, <2>5, <2>6
<1>5. S \in SUBSET Nat /\ S # {} /\ \A y \in S : y <= last  BY <1>1, <1>2, <1>4
<1>6. MajorityIndex(m) = Max(S)  BY DEF MajorityIndex
<1> HIDE DEF S, last
<1>7. Max(S) \in S  BY <1>1, <1>5, MaxIs
<1>8. Max(S) \in Nat /\ Max(S) <= last  BY <1>5, <1>7
<1> QED  BY <1>6, <1>8 DEF last

(* How far the log ran.  *)
RunInv == IndexesInv /\ OrderInv

(* A step that changes neither the log nor how far it ran. *)
LEMMA RunFrame ==
    ASSUME RunInv, UNCHANGED <<log, loop, commit, applied, meta, match, up, ghost>>,
           used'.crashes = used.crashes
    PROVE  RunInv'
<1>1. IndexesInv'  BY DEF RunInv, IndexesInv
<1>2. Reached' = Reached /\ LastRun' = LastRun /\ ThisLife' = ThisLife
  BY DEF Reached, LastRun, ThisLife
<1>3. OrderInv'  BY <1>2 DEF RunInv, OrderInv
<1> QED  BY <1>1, <1>3 DEF RunInv

(* A longer log. *)
LEMMA RunLonger ==
    ASSUME Types, RunInv, log' \in Log, LastIndex(log) <= LastIndex(log'),
           UNCHANGED <<loop, commit, applied, meta, match, up>>, ghost'.exec = ghost.exec,
           used'.crashes = used.crashes
    PROVE  RunInv'
<1>0. /\ LastIndex(log) \in Nat /\ LastIndex(log') \in Nat /\ LastIndex(log)' = LastIndex(log')
      /\ commit \in Nat /\ match \in [DOMAIN match -> Nat]
  BY LastIndexIs DEF Types, LastIndex
<1>1. IndexesInv'  BY <1>0 DEF RunInv, IndexesInv
<1>2. Reached' = Reached /\ LastRun' = LastRun /\ ThisLife' = ThisLife
  BY DEF Reached, LastRun, ThisLife
<1>4. Reached \in Nat  BY DEF Reached, Types
<1>3. OrderInv'
  <2>1. ThisLife => Reached <= LastIndex(log)'  BY <1>0, <1>4 DEF RunInv, OrderInv
  <2> QED  BY <1>2, <2>1 DEF RunInv, OrderInv
<1> QED  BY <1>1, <1>3 DEF RunInv

(* A loop starts where the last one ended. *)
LEMMA RunStarts ==
    ASSUME Types, RunInv, up, loop = NoLoop, NEW by \in Owner \ {Null},
           commit' \in Nat, commit <= commit', commit' <= LastIndex(log),
           meta' \in [commit : Nat, applied : Nat], meta'.applied \in {meta.applied, applied},
           \/ loop' = NoLoop
           \/ loop' = [by |-> by, kind |-> "apply", at |-> applied, upto |-> commit'] /\ applied <= commit'
           \/ loop' = [by |-> by, kind |-> "commit", at |-> applied, upto |-> commit']
              /\ commit' = LastIndex(log),
           match' \in [DOMAIN match' -> Nat], \A f \in DOMAIN match' : match'[f] <= LastIndex(log),
           UNCHANGED <<log, applied, up, ghost>>, used'.crashes = used.crashes
    PROVE  RunInv' /\ loop' \in [by : Owner, kind : {"apply", "commit"}, at : Nat, upto : Nat]
<1>0. applied \in Nat /\ LastIndex(log)' = LastIndex(log) /\ NoLoop.by = Null /\ NoLoop.at = 0
  BY DEF Types, LastIndex, NoLoop
<1>1. IndexesInv'  BY <1>0 DEF RunInv, IndexesInv
<1>2. LastRun' = LastRun /\ ThisLife' = ThisLife  BY DEF LastRun, ThisLife
<1>3. Reached = applied /\ Reached' = applied  BY <1>0 DEF Reached
<1>4. OrderInv'
  <2>1. ThisLife => (loop'.by # Null => loop'.at <= loop'.upto)
    BY <1>0, <1>3 DEF RunInv, OrderInv
  <2> QED  BY <1>0, <1>2, <1>3, <2>1 DEF RunInv, OrderInv
<1>5. loop' \in [by : Owner, kind : {"apply", "commit"}, at : Nat, upto : Nat]
  BY <1>0 DEF NoLoop, Owner
<1> QED  BY <1>1, <1>4, <1>5 DEF RunInv

(* try_commit_entries, with match indexes that are within the log. *)
LEMMA RunTry ==
    ASSUME Types, RunInv, up, loop = NoLoop, NEW by \in Owner \ {Null},
           try_commit_entries(by, match'), match' \in [DOMAIN match' -> Nat], DOMAIN match' \subseteq Followers,
           \A f \in DOMAIN match' : match'[f] <= LastIndex(log),
           UNCHANGED <<log, applied, up, ghost>>, used'.crashes = used.crashes
    PROVE  /\ RunInv' /\ loop' \in [by : Owner, kind : {"apply", "commit"}, at : Nat, upto : Nat]
           /\ commit' \in Nat /\ meta' \in [commit : Nat, applied : Nat]
<1> DEFINE last == LastIndex(log)
           c == Max({commit, MajorityIndex(match')})
<1>0. commit \in Nat /\ applied \in Nat /\ last \in Nat /\ meta \in [commit : Nat, applied : Nat]
      /\ commit <= last
  BY LastIndexIs DEF Types, RunInv, IndexesInv
<1>1. MajorityIndex(match') \in Nat /\ MajorityIndex(match') <= last  BY <1>0, MajorityIs
<1>2. c \in Nat /\ commit <= c /\ c \in {commit, MajorityIndex(match')}  BY <1>0, <1>1, OfTwo
<1>3. c <= last  BY <1>0, <1>1, <1>2
<1>4. /\ commit' = c
      /\ meta' = IF c > commit THEN [commit |-> c, applied |-> applied] ELSE meta
      /\ IF commit < last THEN Loop(by, applied, c) ELSE loop' = loop
  BY DEF try_commit_entries
<1> HIDE DEF c
<1>5. \/ loop' = NoLoop
      \/ loop' = [by |-> by, kind |-> "apply", at |-> applied, upto |-> commit'] /\ applied <= commit'
  BY <1>0, <1>2, <1>4 DEF Loop
<1>6. meta' \in [commit : Nat, applied : Nat] /\ meta'.applied \in {meta.applied, applied}
  BY <1>0, <1>2, <1>4
<1>7. commit' \in Nat /\ commit <= commit' /\ commit' <= LastIndex(log)  BY <1>2, <1>3, <1>4
<1>8. RunInv' /\ loop' \in [by : Owner, kind : {"apply", "commit"}, at : Nat, upto : Nat]
  BY <1>5, <1>6, <1>7, RunStarts
<1> QED  BY <1>6, <1>7, <1>8

(* A leader that commits: up to its last index, or to what a majority has. *)
LEMMA RunCommit ==
    ASSUME Types, RunInv, NEW t \in Threads, Commit(t)
    PROVE  /\ RunInv' /\ loop' \in [by : Owner, kind : {"apply", "commit"}, at : Nat, upto : Nat]
           /\ commit' \in Nat /\ meta' \in [commit : Nat, applied : Nat]
<1>0. /\ up /\ loop = NoLoop /\ UNCHANGED <<log, applied, up, ghost>> /\ used'.crashes = used.crashes
      /\ match' = match
  BY DEF Commit, Serving
<1>1. /\ match' \in [DOMAIN match' -> Nat] /\ DOMAIN match' \subseteq Followers
      /\ \A f \in DOMAIN match' : match'[f] <= LastIndex(log)
  BY <1>0 DEF Types, RunInv, IndexesInv
<1>t. t \in Owner \ {Null}  BY SubmitAssumption DEF Owner
<1>2. CASE confirm
  <2>1. try_commit_entries(t, match')  BY <1>0, <1>2 DEF Commit
  <2> QED  BY <1>0, <1>1, <1>t, <2>1, RunTry
<1>3. CASE ~confirm
  <2> DEFINE last == LastIndex(log)
  <2>1. last \in Nat /\ commit \in Nat /\ commit <= last /\ meta \in [commit : Nat, applied : Nat]
        /\ applied \in Nat
    BY LastIndexIs DEF Types, RunInv, IndexesInv
  <2>2. commit_entries(t)  BY <1>3 DEF Commit
  <2>3. /\ meta' = meta
        /\ \/ commit' = last /\ loop' = [by |-> t, kind |-> "commit", at |-> applied, upto |-> last]
           \/ commit' = commit /\ loop' = NoLoop
    BY <1>0, <2>2 DEF commit_entries
  <2>4. meta' \in [commit : Nat, applied : Nat] /\ meta'.applied \in {meta.applied, applied}
        /\ commit' \in Nat /\ commit <= commit' /\ commit' <= last
    BY <2>1, <2>3
  <2> HIDE DEF last
  <2>5. \/ loop' = NoLoop
        \/ loop' = [by |-> t, kind |-> "commit", at |-> applied, upto |-> commit'] /\ commit' = last
    BY <2>3
  <2>6. RunInv' /\ loop' \in [by : Owner, kind : {"apply", "commit"}, at : Nat, upto : Nat]
    BY <1>0, <1>1, <1>t, <2>4, <2>5, RunStarts DEF last
  <2> QED  BY <2>4, <2>6
<1> QED  BY <1>2, <1>3

(* A follower that joins has no entries yet. *)
LEMMA RunJoin ==
    ASSUME Types, RunInv, NEW f \in Followers, Join(f)
    PROVE  RunInv' /\ match' \in [DOMAIN match' -> Nat] /\ DOMAIN match' \subseteq Followers
<1>0. /\ match' = [g \in DOMAIN match \cup {f} |-> IF g = f THEN 0 ELSE match[g]]
      /\ match \in [DOMAIN match -> Nat] /\ DOMAIN match \subseteq Followers
  BY DEF Join, With, Types
<1>1. LastIndex(log) \in Nat  BY LastIndexIs DEF Types
<1>2. match' \in [DOMAIN match' -> Nat] /\ DOMAIN match' \subseteq Followers  BY <1>0
<1>3. \A g \in DOMAIN match' : match'[g] <= LastIndex(log)
  BY <1>0, <1>1 DEF RunInv, IndexesInv
<1>4. UNCHANGED <<log, loop, commit, applied, meta, up, ghost, used>>  BY DEF Join
<1>5. IndexesInv'  BY <1>3, <1>4 DEF RunInv, IndexesInv, LastIndex
<1>6. OrderInv'  BY <1>4 DEF RunInv, OrderInv, Reached, LastRun, ThisLife, LastIndex
<1> QED  BY <1>2, <1>5, <1>6 DEF RunInv

(* An acknowledged index is one the leader has. *)
LEMMA RunAck ==
    ASSUME Types, RunInv, NEW f \in Followers, Ack(f)
    PROVE  /\ RunInv' /\ match' \in [DOMAIN match' -> Nat] /\ DOMAIN match' \subseteq Followers
           /\ loop' \in [by : Owner, kind : {"apply", "commit"}, at : Nat, upto : Nat]
           /\ commit' \in Nat /\ meta' \in [commit : Nat, applied : Nat]
<1>0. /\ up /\ loop = NoLoop /\ UNCHANGED <<log, applied, up, ghost>> /\ used'.crashes = used.crashes
      /\ f \in DOMAIN match
  BY DEF Ack, Serving
<1>1. /\ match \in [DOMAIN match -> Nat] /\ DOMAIN match \subseteq Followers
      /\ \A g \in DOMAIN match : match[g] <= LastIndex(log)
      /\ LastIndex(log) \in Nat
  BY LastIndexIs DEF Types, RunInv, IndexesInv
<1>2. PICK i \in match[f]..LastIndex(log) : match' = [match EXCEPT ![f] = i] /\ try_commit_entries("ack", match')
  BY DEF Ack
<1>3. i \in Nat /\ i <= LastIndex(log)  BY <1>0, <1>1, <1>2
<1>4. /\ match' \in [DOMAIN match' -> Nat] /\ DOMAIN match' \subseteq Followers
      /\ \A g \in DOMAIN match' : match'[g] <= LastIndex(log)
  BY <1>0, <1>1, <1>2, <1>3
<1>5. "ack" \in Owner \ {Null}  BY SubmitAssumption DEF Owner
<1> QED  BY <1>0, <1>2, <1>4, <1>5, RunTry

(* The entry that is applied is in the log; running it appends to what ran.   *)
Running == loop.at + 1
Ran == [id |-> log.entries[Running].id, n |-> Len(ghost.exec) + 1, what |-> "ok"]

LEMMA ApplyFacts ==
    ASSUME Types, RunInv, ApplyOne
    PROVE  /\ up /\ log_lock = Null /\ loop.by # Null
           /\ Running \in DOMAIN log.entries /\ Running \in Nat /\ Running <= loop.upto
           /\ log.entries[Running].id \in Id /\ Ran \in Result
           /\ loop' = [by |-> loop.by, kind |-> loop.kind, at |-> Running, upto |-> loop.upto]
           /\ ghost' = [exec |-> Append(ghost.exec, [at |-> Running, id |-> log.entries[Running].id,
                                                     life |-> used.crashes]),
                        misplaced |-> ghost.misplaced, failed |-> ghost.failed, lost |-> FALSE,
                        dropped |-> ghost.dropped]
           /\ cache' = Put(cache, log.entries[Running].id, Ran)
           /\ IF loop.kind = "apply" THEN applied' = Running /\ notify_request_applied(Running, Ran)
              ELSE UNCHANGED <<applied, thread, pending>>
           /\ UNCHANGED <<log, log_lock, commit, meta, match, confirm, up, used>>
<1> DEFINE i == loop.at + 1
           id == get(log, i).id
           result == IF InLog(log, i) THEN [id |-> id, n |-> Len(ghost.exec) + 1, what |-> "ok"]
                     ELSE Error("log read error")
<1>0. /\ up /\ log_lock = Null /\ loop.at < loop.upto
      /\ UNCHANGED <<log, log_lock, commit, meta, match, confirm, up, used>>
  BY DEF ApplyOne
<1>1. loop \in [by : Owner, kind : {"apply", "commit"}, at : Nat, upto : Nat] /\ log \in Log
      /\ ghost \in Ghosts /\ ghost.exec \in Seq(Run)
  BY DEF Types, Ghosts
<1>2. loop.by # Null /\ loop.upto = commit /\ commit <= LastIndex(log)
  BY <1>0 DEF RunInv, IndexesInv, NoLoop
<1>3. LastIndex(log) = Len(log.entries) /\ log.base = 1 /\ log.entries \in Seq(Entry)
  BY <1>1, LastIndexIs
<1>4. loop.at \in Nat /\ loop.upto \in Nat /\ Len(log.entries) \in Nat  BY <1>1, <1>3
<1>5. i \in 1..Len(log.entries) /\ i \in Nat /\ i <= loop.upto  BY <1>0, <1>2, <1>3, <1>4
<1>6. InLog(log, i)  BY <1>3, <1>4, <1>5 DEF InLog
<1>7. get(log, i) = log.entries[i]  BY <1>3, <1>4, <1>5 DEF get
<1>8. log.entries[i] \in Entry /\ log.entries[i].id \in Id
  <2>1. log.entries[i] \in Entry
    <3> HIDE DEF i
    <3> QED  BY <1>3, <1>5
  <2>2. \A e \in Entry : e.id \in Id  BY DEF Entry
  <2> QED  BY <2>1, <2>2
<1>9. result = Ran  BY <1>6, <1>7 DEF Ran, Running
<1>10. Ran \in Result
  <2>1. Len(ghost.exec) \in Nat  BY <1>1
  <2> QED  BY <1>8, <2>1 DEF Ran, Running, Result, Outcomes
<1>11. /\ loop' = [loop EXCEPT !.at = i]
       /\ ghost' = [ghost EXCEPT !.exec = Append(@, [at |-> i, id |-> id, life |-> used.crashes])]
       /\ cache' = Put(cache, id, result)
       /\ IF loop.kind = "apply" THEN applied' = i /\ notify_request_applied(i, result)
          ELSE UNCHANGED <<applied, thread, pending>>
  BY <1>6 DEF ApplyOne
<1>12. id = log.entries[Running].id /\ i = Running  BY <1>7 DEF Running
<1> HIDE DEF i, id, result
<1>13. loop' = [by |-> loop.by, kind |-> loop.kind, at |-> Running, upto |-> loop.upto]
  BY <1>1, <1>11, <1>12
<1>14. ghost' = [exec |-> Append(ghost.exec, [at |-> Running, id |-> log.entries[Running].id,
                                              life |-> used.crashes]),
                 misplaced |-> ghost.misplaced, failed |-> ghost.failed, lost |-> FALSE,
                        dropped |-> ghost.dropped]
  BY <1>1, <1>11, <1>12 DEF Ghosts
<1>15. Running \in DOMAIN log.entries /\ log.entries[Running].id \in Id  BY <1>3, <1>5, <1>8, <1>12
<1>16. Running \in Nat /\ Running <= loop.upto  BY <1>5, <1>12
<1> QED  BY <1>0, <1>2, <1>9, <1>10, <1>11, <1>12, <1>13, <1>14, <1>15, <1>16

(* The parts of what ran. *)
LEMMA RunFields ==
    ASSUME NEW x \in Seq(Run), NEW k \in 1..Len(x)
    PROVE  x[k].at \in Nat /\ x[k].id \in Id /\ x[k].life \in Nat
<1>1. x[k] \in Run  OBVIOUS
<1> QED  BY <1>1 DEF Run

(* One more run. *)
LEMMA ExecLonger ==
    ASSUME Types, RunInv, ApplyOne, NEW x, x = ghost.exec, NEW y, y = ghost'.exec
    PROVE  /\ x \in Seq(Run)
           /\ y \in Seq(Run) /\ Len(y) = Len(x) + 1
           /\ y[Len(y)] = [at |-> Running, id |-> log.entries[Running].id, life |-> used.crashes]
           /\ \A k \in 1..Len(x) : y[k] = x[k]
<1>1. x \in Seq(Run) /\ used.crashes \in Nat  BY DEF Types, Ghosts
<1> DEFINE e == [at |-> Running, id |-> log.entries[Running].id, life |-> used.crashes]
<1>2. y = Append(x, e) /\ e \in Run  BY <1>1, ApplyFacts DEF Run
<1> HIDE DEF e
<1> QED  BY <1>1, <1>2 DEF e

(* The next entry of a loop is run. *)
LEMMA RunApplies ==
    ASSUME Types, RunInv, CacheInv, ApplyOne, NEW x, x = ghost.exec, NEW y, y = ghost'.exec
    PROVE  /\ RunInv' /\ loop' \in [by : Owner, kind : {"apply", "commit"}, at : Nat, upto : Nat]
           /\ applied' \in Nat
<1> DEFINE i == Running
           n == Len(x)
<1>0. /\ up /\ up' /\ loop.by # Null /\ i \in Nat /\ i \in DOMAIN log.entries /\ i <= loop.upto
      /\ loop' = [by |-> loop.by, kind |-> loop.kind, at |-> i, upto |-> loop.upto]
      /\ UNCHANGED <<log, commit, meta, match, up, used>>
      /\ IF loop.kind = "apply" THEN applied' = i ELSE applied' = applied
  BY ApplyFacts
<1>1. /\ x \in Seq(Run)
      /\ y \in Seq(Run) /\ Len(y) = n + 1
      /\ y[Len(y)].at = i /\ y[Len(y)].life = used.crashes
      /\ \A k \in 1..n : y[k] = x[k]
  <2>1. /\ x \in Seq(Run)
        /\ y \in Seq(Run) /\ Len(y) = Len(x) + 1
        /\ y[Len(y)] = [at |-> Running, id |-> log.entries[Running].id, life |-> used.crashes]
        /\ \A k \in 1..Len(x) : y[k] = x[k]
    BY ExecLonger
  <2> DEFINE r == [at |-> Running, id |-> log.entries[Running].id, life |-> used.crashes]
  <2>2. r.at = Running /\ r.life = used.crashes  OBVIOUS
  <2>3. y[Len(y)] = r  BY <2>1
  <2> HIDE DEF r
  <2>4. y[Len(y)].at = Running /\ y[Len(y)].life = used.crashes  BY <2>2, <2>3
  <2> QED  BY <2>1, <2>4
<1>2. loop \in [by : Owner, kind : {"apply", "commit"}, at : Nat, upto : Nat] /\ applied \in Nat
      /\ meta \in [commit : Nat, applied : Nat] /\ log \in Log /\ commit \in Nat /\ used.crashes \in Nat
      /\ loop.at \in Nat /\ loop.upto \in Nat
  BY DEF Types
<1>3. loop' \in [by : Owner, kind : {"apply", "commit"}, at : Nat, upto : Nat] /\ applied' \in Nat
  BY <1>0, <1>2
<1>i. i = loop.at + 1  BY DEF Running
<1>4. Reached = loop.at /\ Reached' = i  BY <1>0 DEF Reached
<1>5. IndexesInv'
  <2>1. meta.applied <= applied /\ meta.applied \in Nat /\ applied <= loop.at
        /\ (loop.kind = "apply" => applied = loop.at) /\ loop.upto = commit
    BY <1>0, <1>2 DEF RunInv, IndexesInv
  <2>2. loop'.by # Null /\ loop'.upto = commit' /\ loop'.kind = loop.kind /\ loop'.at = i
        /\ loop'.upto = loop.upto
    BY <1>0, <2>1
  <2>3. (loop.kind = "apply" => applied' = i) /\ applied' <= i /\ meta.applied <= applied'
    BY <1>0, <1>2, <1>i, <2>1
  <2> HIDE DEF i
  <2>4. IndexesInv  BY DEF RunInv
  <2>5. LastIndex(log') = LastIndex(log)  BY <1>0
  <2> QED  BY <1>0, <2>2, <2>3, <2>4, <2>5 DEF IndexesInv, LastIndex
<1> HIDE DEF i
<1>n. n \in Nat /\ DOMAIN x = 1..n /\ DOMAIN y = 1..(n + 1)  BY <1>1
<1>l. y[n + 1].at = i /\ y[n + 1].life = used.crashes /\ n + 1 \in DOMAIN y  BY <1>1, <1>n
<1>x. \A k \in 1..n : k \in DOMAIN y /\ y[k] = x[k] /\ x[k].at \in Nat
  <2>1. \A k \in 1..n : x[k].at \in Nat  BY <1>1, RunFields
  <2> QED  BY <1>1, <1>n, <2>1
<1>z. LastRun = x[n]  BY DEF LastRun
<1>o. OrderInv  BY DEF RunInv
<1>6. LastRun' = y[n + 1] /\ y # <<>> /\ ThisLife'
  <2>1. LastRun' = y[Len(y)]  BY DEF LastRun
  <2>2. y # <<>>  BY <1>1, <1>n
  <2> QED  BY <1>0, <1>1, <2>1, <2>2 DEF ThisLife
<1>7. \A j \in 1..i : \E k \in DOMAIN y : y[k].at = j
  <2> TAKE j \in 1..i
  <2>1. CASE j = i  BY <1>l, <2>1
  <2>2. CASE j # i
    <3>1. j \in 1..Reached  BY <1>0, <1>2, <1>4, <1>i, <2>2
    <3>2. PICK k \in DOMAIN x : x[k].at = j  BY <1>o, <3>1 DEF OrderInv
    <3>3. k \in DOMAIN y /\ y[k] = x[k]  BY <1>n, <1>x, <3>2
    <3> QED  BY <3>2, <3>3
  <2> QED  BY <2>1, <2>2
<1>8. ASSUME NEW k \in 1..n
      PROVE  IF y[k].life = y[k + 1].life THEN y[k + 1].at = y[k].at + 1 ELSE y[k + 1].at <= y[k].at + 1
  <2>1. CASE k < n
    <3>1. k \in 1..(Len(x) - 1) /\ k + 1 \in 1..n  BY <1>n, <2>1
    <3>2. IF x[k].life = x[k + 1].life THEN x[k + 1].at = x[k].at + 1 ELSE x[k + 1].at <= x[k].at + 1
      BY <1>o, <3>1 DEF OrderInv
    <3> QED  BY <1>1, <3>1, <3>2
  <2>2. CASE k = n
    <3>1. x # <<>> /\ y[k] = LastRun /\ y[k + 1].at = loop.at + 1 /\ y[k + 1].life = used.crashes
      BY <1>i, <1>l, <1>n, <1>x, <1>z, <2>2
    <3>2. LastRun.at \in Nat  BY <1>x, <1>z, <2>2
    <3>3. CASE y[k].life = y[k + 1].life
      <4>1. ThisLife  BY <3>1, <3>3 DEF ThisLife
      <4>2. LastRun.at = loop.at  BY <1>4, <1>o, <4>1 DEF OrderInv
      <4> QED  BY <3>1, <3>3, <4>2
    <3>4. CASE y[k].life # y[k + 1].life
      <4>1. loop.at <= LastRun.at  BY <1>4, <1>o, <3>1 DEF OrderInv
      <4> QED  BY <1>2, <3>1, <3>2, <3>4, <4>1
    <3> QED  BY <3>3, <3>4
  <2> QED  BY <1>n, <2>1, <2>2
<1>9. i <= LastIndex(log) /\ LastIndex(log)' = LastIndex(log)
  <2>1. LastIndex(log) = Len(log.entries) /\ log.entries \in Seq(Entry)  BY <1>2, LastIndexIs
  <2> QED  BY <1>0, <2>1 DEF LastIndex
<1>10. OrderInv'
  <2>1. LastRun'.at = i  BY <1>1, <1>6
  <2>2. i <= LastRun'.at  BY <1>0, <2>1
  <2>3. loop'.at <= loop'.upto  BY <1>0
  <2>4. Len(y) - 1 = n  BY <1>1, <1>n
  <2> HIDE DEF n
  <2>5. /\ ghost'.exec # <<>> /\ \A j \in 1..Reached' : \E k \in DOMAIN ghost'.exec : ghost'.exec[k].at = j
        /\ \A k \in 1..(Len(ghost'.exec) - 1) :
             IF ghost'.exec[k].life = ghost'.exec[k + 1].life
             THEN ghost'.exec[k + 1].at = ghost'.exec[k].at + 1
             ELSE ghost'.exec[k + 1].at <= ghost'.exec[k].at + 1
    BY <1>4, <1>6, <1>7, <1>8, <2>4
  <2>6. up' /\ LastRun'.at = Reached' /\ Reached' <= LastIndex(log)' /\ loop'.at <= loop'.upto /\ Reached' <= LastRun'.at
    BY <1>0, <1>4, <1>9, <2>1, <2>2, <2>3
  <2> QED  BY <2>5, <2>6 DEF OrderInv
<1> QED  BY <1>3, <1>5, <1>10 DEF RunInv

(* The end of a loop: last_applied_ and, after a commit, .raft_meta. *)
LEMMA RunDone ==
    ASSUME Types, RunInv, ApplyDone
    PROVE  /\ RunInv' /\ loop' \in [by : Owner, kind : {"apply", "commit"}, at : Nat, upto : Nat]
           /\ applied' \in Nat /\ meta' \in [commit : Nat, applied : Nat]
<1>0. /\ up /\ loop.by # Null /\ loop.at >= loop.upto
      /\ applied' = loop.upto /\ meta' = [commit |-> commit, applied |-> loop.upto] /\ loop' = NoLoop
      /\ UNCHANGED <<log, commit, match, up, used, ghost>>
  BY DEF ApplyDone
<1>1. loop.at \in Nat /\ loop.upto \in Nat /\ commit \in Nat
  BY DEF Types
<1>2. NoLoop.by = Null /\ NoLoop.at = 0 /\ NoLoop.upto = 0 /\ NoLoop.kind = "apply"
      /\ NoLoop \in [by : Owner, kind : {"apply", "commit"}, at : Nat, upto : Nat]
  BY DEF NoLoop, Owner
<1>3. loop' \in [by : Owner, kind : {"apply", "commit"}, at : Nat, upto : Nat]
      /\ applied' \in Nat /\ meta' \in [commit : Nat, applied : Nat] /\ meta'.applied = applied'
  BY <1>0, <1>1, <1>2
<1>4. IndexesInv'
  <2>1. IndexesInv  BY DEF RunInv
  <2>2. LastIndex(log') = LastIndex(log)  BY <1>0
  <2> QED  BY <1>0, <1>1, <1>2, <1>3, <2>1, <2>2 DEF IndexesInv
<1>5. Reached = loop.at /\ Reached' = loop.upto  BY <1>0, <1>2 DEF Reached
<1>6. LastRun' = LastRun /\ ThisLife' = ThisLife  BY <1>0 DEF LastRun, ThisLife
<1>7. OrderInv'
  <2>1. OrderInv  BY DEF RunInv
  <2>2. ghost.exec # <<>> => LastRun.at \in Nat
    <3>1. ghost.exec \in Seq(Run)  BY DEF Types, Ghosts
    <3>2. ASSUME ghost.exec # <<>> PROVE LastRun.at \in Nat
      <4>1. Len(ghost.exec) \in 1..Len(ghost.exec)  BY <3>1, <3>2
      <4> QED  BY <3>1, <4>1, RunFields DEF LastRun
    <3> QED  BY <3>2
  <2>3. ghost.exec = <<>> => Reached' = 0  BY <1>0, <1>1, <1>5, <2>1 DEF OrderInv
  <2>4. ghost.exec # <<>> => Reached' <= LastRun.at  BY <1>0, <1>1, <1>5, <2>1, <2>2 DEF OrderInv
  <2>5. \A i \in 1..Reached' : i \in 1..Reached  BY <1>0, <1>1, <1>5
  <2>6. ThisLife => LastRun.at = Reached' /\ Reached' <= LastIndex(log)
    <3>1. ThisLife => LastRun.at = loop.at /\ loop.at <= LastIndex(log) /\ loop.at <= loop.upto
      BY <1>0, <1>5, <2>1 DEF OrderInv
    <3>2. loop.at <= loop.upto => loop.at = loop.upto  BY <1>0, <1>1
    <3> QED  BY <1>5, <3>1, <3>2
  <2>7. LastIndex(log)' = LastIndex(log) /\ loop'.by = Null /\ up' /\ ghost' = ghost  BY <1>0, <1>2
  <2> QED  BY <1>6, <2>1, <2>3, <2>4, <2>5, <2>6, <2>7 DEF OrderInv
<1> QED  BY <1>3, <1>4, <1>7 DEF RunInv

(* A crash leaves what .raft_meta recorded. *)
LEMMA RunCrash ==
    ASSUME Types, RunInv, CacheInv, Crash
    PROVE  RunInv'
<1>0. /\ up /\ ~up' /\ loop' = NoLoop /\ match' = <<>> /\ commit' = 0 /\ applied' = 0
      /\ log'.entries = <<>>
      /\ used'.crashes = used.crashes + 1 /\ UNCHANGED <<meta, confirm, ghost>>
  BY DEF Crash, Use, Types, Log
<1>1. loop.at \in Nat /\ meta.applied \in Nat /\ applied \in Nat /\ used.crashes \in Nat
      /\ ghost.exec \in Seq(Run)
  BY DEF Types, Ghosts
<1>2. LastIndex(log)' = 0  BY <1>0 DEF LastIndex
<1>3. IndexesInv'  BY <1>0, <1>2 DEF IndexesInv, NoLoop
<1>4. Reached' = meta.applied /\ Reached = IF loop.by # Null THEN loop.at ELSE applied
  BY <1>0 DEF Reached
<1>5. meta.applied <= Reached /\ Reached \in Nat
  <2>1. IndexesInv  BY DEF RunInv
  <2> QED  BY <1>0, <1>1, <1>4, <2>1 DEF IndexesInv
<1>6. LastRun' = LastRun  BY <1>0 DEF LastRun
<1>7. ASSUME ghost.exec # <<>> PROVE LastRun.at \in Nat /\ LastRun.life \in Nat /\ LastRun.life <= used.crashes
  <2>1. Len(ghost.exec) \in 1..Len(ghost.exec)  BY <1>1, <1>7
  <2>2. Len(ghost.exec) \in DOMAIN ghost.exec  BY <1>1, <2>1
  <2>3. LastRun.life <= used.crashes  BY <2>2 DEF CacheInv, LastRun
  <2> QED  BY <1>1, <2>1, <2>3, RunFields DEF LastRun
<1>8. ~ThisLife'
  <2>1. ghost.exec # <<>> => LastRun.life # used.crashes + 1  BY <1>1, <1>7
  <2> QED  BY <1>0, <1>6, <2>1 DEF ThisLife
<1>9. OrderInv'
  <2>1. OrderInv  BY DEF RunInv
  <2>3. ghost.exec = <<>> => Reached' = 0  BY <1>1, <1>4, <1>5, <2>1 DEF OrderInv
  <2>4. ghost.exec # <<>> => Reached' <= LastRun.at  BY <1>1, <1>4, <1>5, <1>7, <2>1 DEF OrderInv
  <2>5. \A i \in 1..Reached' : i \in 1..Reached  BY <1>1, <1>4, <1>5
  <2> QED  BY <1>0, <1>6, <1>8, <2>1, <2>3, <2>4, <2>5 DEF OrderInv
<1> QED  BY <1>3, <1>9 DEF RunInv

(* The constructor commits and applies what the log holds, as .raft_meta says. *)
LEMMA RunRestart ==
    ASSUME Types, ThreadInv, RunInv, Restart, log' \in Log
    PROVE  /\ RunInv' /\ loop' \in [by : Owner, kind : {"apply", "commit"}, at : Nat, upto : Nat]
           /\ applied' \in Nat /\ commit' \in Nat
<1>0. /\ ~up /\ up' /\ applied' = meta.applied /\ Loop("ctor", meta.applied, commit')
      /\ commit' = Min({meta.commit, LastIndex(log')})
      /\ UNCHANGED <<meta, match, used>> /\ ghost'.exec = ghost.exec
  BY DEF Restart, Types, Ghosts
<1>1. meta.commit \in Nat /\ meta.applied \in Nat /\ LastIndex(log') \in Nat
  BY LastIndexIs DEF Types
<1>2. commit' \in Nat /\ commit' <= LastIndex(log')  BY <1>0, <1>1, OfTwo
<1>3. match' = <<>>  BY <1>0 DEF ThreadInv
<1>4. \/ loop' = NoLoop
      \/ loop' = [by |-> "ctor", kind |-> "apply", at |-> meta.applied, upto |-> commit']
         /\ meta.applied < commit'
  BY <1>0 DEF Loop
<1>5. "ctor" # Null /\ "ctor" \in Owner  BY SubmitAssumption DEF Owner
<1>6. NoLoop.by = Null /\ NoLoop \in [by : Owner, kind : {"apply", "commit"}, at : Nat, upto : Nat]
  BY DEF NoLoop, Owner
<1>7. loop' \in [by : Owner, kind : {"apply", "commit"}, at : Nat, upto : Nat]
  BY <1>1, <1>2, <1>4, <1>5, <1>6
<1>8. IndexesInv'
  <2>1. LastIndex(log)' = LastIndex(log')  BY DEF LastIndex
  <2>2. /\ loop'.by = Null => loop' = NoLoop
        /\ loop'.by # Null => /\ loop'.upto = commit' /\ loop'.at = meta.applied
                              /\ loop'.at <= loop'.upto
    BY <1>1, <1>2, <1>4, <1>5, <1>6
  <2>3. DOMAIN match' = {}  BY <1>3
  <2> QED  BY <1>0, <1>1, <1>2, <2>1, <2>2, <2>3 DEF IndexesInv
<1>9. Reached = meta.applied /\ Reached' = meta.applied
  <2>1. Reached = meta.applied  BY <1>0 DEF Reached
  <2>2. loop'.by # Null => loop'.at = meta.applied  BY <1>4, <1>6
  <2>3. Reached' = meta.applied  BY <1>0, <2>2 DEF Reached
  <2> QED  BY <2>1, <2>3
<1>10. LastRun' = LastRun /\ ~ThisLife'
  BY <1>0 DEF RunInv, OrderInv, ThisLife, LastRun
<1>11. OrderInv'  BY <1>0, <1>9, <1>10 DEF RunInv, OrderInv
<1> QED  BY <1>0, <1>1, <1>2, <1>7, <1>8, <1>11 DEF RunInv

(* No record reaches past the end of the file. *)
LEMMA WalBounds ==
    ASSUME Types, FileInv, NEW wal, wal = log.wal
    PROVE  /\ wal \in Seq(Record) /\ FileEnd(log) \in Nat
           /\ \A k \in 1..Len(wal) : /\ wal[k].at \in Nat /\ wal[k].entry \in Entry
                                     /\ wal[k].entry.len \in Nat /\ wal[k].at < FileEnd(log)
           /\ wal = <<>> => FileEnd(log) = 0
           /\ wal # <<>> => FileEnd(log) = wal[Len(wal)].at + wal[Len(wal)].entry.len
<1>1. wal \in Seq(Record)  BY DEF Types, Log
<1>2. ASSUME NEW k \in 1..Len(wal)
      PROVE  wal[k].at \in Nat /\ wal[k].entry \in Entry /\ wal[k].entry.len \in Nat \ {0}
  <2>1. wal[k] \in Record  BY <1>1
  <2>2. wal[k].at \in Nat /\ wal[k].entry \in Entry  BY <2>1 DEF Record
  <2> QED  BY <2>2 DEF Entry
<1>3. CASE wal = <<>>
  <2>1. FileEnd(log) = 0 /\ Len(wal) = 0  BY <1>3 DEF FileEnd
  <2> QED  BY <1>1, <1>3, <2>1
<1>4. CASE wal # <<>>
  <2> DEFINE n == Len(wal)
  <2>1. n \in Nat /\ n \in 1..n /\ DOMAIN wal = 1..n  BY <1>1, <1>4
  <2>2. FileEnd(log) = wal[n].at + wal[n].entry.len  BY <1>4 DEF FileEnd, Last
  <2>3. FileEnd(log) \in Nat /\ wal[n].at < FileEnd(log)  BY <1>2, <2>1, <2>2
  <2>4. ASSUME NEW k \in 1..n PROVE wal[k].at < FileEnd(log)
    <3>1. CASE k = n  BY <2>3, <3>1
    <3>2. CASE k # n
      <4>1. k < n  BY <2>1, <3>2
      <4>2. wal[k].at < wal[n].at  BY <2>1, <4>1 DEF FileInv
      <4> QED  BY <1>2, <2>1, <2>3, <4>2
    <3> QED  BY <3>1, <3>2
  <2> QED  BY <1>1, <1>2, <1>4, <2>2, <2>3, <2>4
<1> QED  BY <1>3, <1>4

(* Sequences. *)
LEMMA MakeSeq ==
    ASSUME NEW S, NEW n \in Nat, NEW s \in [1..n -> S]
    PROVE  s \in Seq(S) /\ Len(s) = n
OBVIOUS

(* Joining two sequences. *)
LEMMA Concat ==
    ASSUME NEW S, NEW a \in Seq(S), NEW b \in Seq(S), NEW c, c = a \o b
    PROVE  /\ c \in Seq(S) /\ Len(c) = Len(a) + Len(b)
           /\ \A k \in 1..Len(a) : c[k] = a[k]
           /\ \A k \in 1..Len(b) : c[Len(a) + k] = b[k]
OBVIOUS

(* The parts of an entry. *)
LEMMA NewEntry ==
    ASSUME NEW index \in Nat \ {0}, NEW id \in Id, NEW len \in Nat \ {0},
           NEW e, e = [index |-> index, id |-> id, len |-> len]
    PROVE  e \in Entry /\ e.index = index /\ e.id = id
BY DEF Entry

(* The entries an append makes of a group. *)
LEMMA NewEntriesAre ==
    ASSUME Types, NEW t \in Threads, \A k \in DOMAIN thread[t].group : ~thread[t].group[k].read,
           NEW g, g = thread[t].group, NEW es, es = NewEntries(t)
    PROVE  /\ g \in Seq(Requests) /\ es \in Seq(Entry) /\ Len(es) = Len(g)
           /\ \A k \in 1..Len(g) : es[k].index = Len(log.entries) + k /\ es[k].id = g[k].id
           /\ log.entries \in Seq(Entry)
<1>0. thread[t] \in Thread /\ log \in Log  BY DEF Types
<1>1. g \in Seq(Requests)  BY <1>0 DEF Thread
<1>2. log.base = 1 /\ log.entries \in Seq(Entry)  BY <1>0 DEF Log
<1> DEFINE n == Len(g)
           m == Len(log.entries)
           h == [k \in DOMAIN g |-> [index |-> 0, id |-> g[k].id, len |-> g[k].len]]
<1>3. n \in Nat /\ DOMAIN g = 1..n /\ m \in Nat  BY <1>1, <1>2
<1>4. ASSUME NEW k \in 1..n PROVE g[k].id \in Id /\ g[k].len \in Nat \ {0}
  <2>1. g[k] \in Requests  BY <1>1
  <2>2. ~g[k].read  BY <1>3
  <2> QED  BY <2>1, <2>2, RequestTypes
<1>5. Len(h) = n  BY <1>3
<1>6. es = [i \in 1..n |-> [h[i] EXCEPT !.index = 1 + m + i - 1]]
  <2>1. es = Numbered(log, h)  BY DEF NewEntries
  <2>2. es = [i \in 1..Len(h) |-> [h[i] EXCEPT !.index = log.base + Len(log.entries) + i - 1]]
    <3> HIDE DEF h
    <3> QED  BY <2>1 DEF Numbered
  <2> HIDE DEF h
  <2> QED  BY <1>2, <1>5, <2>2
<1>7. ASSUME NEW i \in 1..n
      PROVE  es[i] = [index |-> m + i, id |-> g[i].id, len |-> g[i].len]
  <2>1. h[i] = [index |-> 0, id |-> g[i].id, len |-> g[i].len]  BY <1>3
  <2>2. 1 + m + i - 1 = m + i  BY <1>3
  <2> HIDE DEF h, m
  <2>3. [h[i] EXCEPT !.index = m + i] = [index |-> m + i, id |-> g[i].id, len |-> g[i].len]
    BY <2>1
  <2> QED  BY <1>6, <2>2, <2>3
<1> HIDE DEF h
<1>8. ASSUME NEW i \in 1..n PROVE es[i] \in Entry /\ es[i].index = m + i /\ es[i].id = g[i].id
  <2>1. m + i \in Nat \ {0}  BY <1>3
  <2> HIDE DEF m
  <2>2. es[i] = [index |-> m + i, id |-> g[i].id, len |-> g[i].len]  BY <1>7
  <2>3. g[i].id \in Id /\ g[i].len \in Nat \ {0}  BY <1>4
  <2> DEFINE x == m + i
  <2> HIDE DEF x
  <2>4. \A e : e = [index |-> x, id |-> g[i].id, len |-> g[i].len] => e \in Entry /\ e.index = x /\ e.id = g[i].id
    BY <2>1, <2>3, NewEntry DEF x
  <2> QED  BY <2>2, <2>4 DEF x
<1>9. es \in Seq(Entry) /\ Len(es) = n
  <2>1. es \in [1..n -> Entry]
    <3> HIDE DEF n, m
    <3> QED  BY <1>6, <1>8
  <2> QED  BY <1>3, <2>1
<1> QED  BY <1>1, <1>2, <1>8, <1>9

(* A batch written at the end of a file. *)
Extended(w, wal, f, es) ==
    /\ w \in Seq(Record) /\ Len(w) = Len(wal) + Len(es)
    /\ \A k \in 1..Len(wal) : w[k] = wal[k]
    /\ \A k \in 1..Len(es) : w[Len(wal) + k] = [at |-> f[k], entry |-> es[k]]

LEMMA Written ==
    ASSUME NEW wal \in Seq(Record), NEW es \in Seq(Entry), NEW o \in Nat, NEW f, f = Offsets(o, es),
           NEW s, s = [i \in 1..Len(es) |-> [at |-> f[i], entry |-> es[i]]], NEW w, w = wal \o s
    PROVE  Extended(w, wal, f, es)
<1> DEFINE n == Len(es)
           r(i) == [at |-> f[i], entry |-> es[i]]
<1>1. n \in Nat /\ f \in [1..n -> Nat]  BY OffsetsResult
<1>2. ASSUME NEW i \in 1..n PROVE r(i) \in Record
  <2>1. f[i] \in Nat  BY <1>1
  <2>2. es[i] \in Entry  OBVIOUS
  <2> QED  BY <2>1, <2>2 DEF Record
<1>5. s = [i \in 1..n |-> r(i)]  OBVIOUS
<1>6. \A i \in 1..n : r(i) = [at |-> f[i], entry |-> es[i]]  OBVIOUS
<1>n. n = Len(es)  OBVIOUS
<1> HIDE DEF r, n
<1>3. s \in [1..n -> Record] /\ \A i \in 1..n : s[i] = r(i)  BY <1>2, <1>5
<1>4. s \in Seq(Record) /\ Len(s) = n  BY <1>1, <1>3, MakeSeq
<1>7. /\ w \in Seq(Record) /\ Len(w) = Len(wal) + Len(s)
      /\ \A k \in 1..Len(wal) : w[k] = wal[k]
      /\ \A k \in 1..Len(s) : w[Len(wal) + k] = s[k]
  BY <1>4, Concat
<1> QED  BY <1>3, <1>4, <1>6, <1>7, <1>n DEF Extended

(* The thread that is about to write, and what it writes. *)
LEMMA AppendWalFacts ==
    ASSUME Types, ThreadInv, NEW t \in Threads, AppendWal(t),
           NEW es, es = NewEntries(t), NEW o, o = FileEnd(log)
    PROVE  /\ up /\ log_lock = Null /\ log \in Log /\ thread[t] \in Thread /\ Sorted(thread[t])
           /\ es \in Seq(Entry) /\ Len(es) \in Nat \ {0} /\ Len(es) = Len(thread[t].group)
           /\ \A k \in 1..Len(es) : es[k].index = Len(log.entries) + k /\ es[k].id = thread[t].group[k].id
<1>1. up /\ log_lock = Null /\ thread[t].pc = "write"
  BY DEF AppendWal, Serving
<1>2. log \in Log /\ thread[t] \in Thread /\ Sorted(thread[t])  BY DEF Types, ThreadInv
<1> DEFINE g == thread[t].group
<1>3. thread[t].group # <<>> /\ \A k \in DOMAIN thread[t].group : ~thread[t].group[k].read
  BY <1>1, <1>2 DEF Sorted, Writing
<1>4. /\ g \in Seq(Requests) /\ es \in Seq(Entry) /\ Len(es) = Len(g)
      /\ \A k \in 1..Len(g) : es[k].index = Len(log.entries) + k /\ es[k].id = g[k].id
  BY <1>3, NewEntriesAre
<1>5. Len(es) \in Nat \ {0}  BY <1>3, <1>4
<1> QED  BY <1>1, <1>2, <1>4, <1>5

(* The first write of append, as it changes the log. *)
LEMMA AppendWalLog ==
    ASSUME Types, NEW t \in Threads, AppendWal(t),
           NEW es, es = NewEntries(t), NEW o, o = FileEnd(log)
    PROVE  log' = [entries |-> log.entries, base |-> log.base, index |-> log.index, rewound |-> FALSE,
                      wal |-> log.wal \o [i \in 1..Len(es) |-> [at |-> Offsets(o, es)[i], entry |-> es[i]]]]
<1> DEFINE f == Offsets(o, es)
           s == [i \in 1..Len(es) |-> [at |-> f[i], entry |-> es[i]]]
<1>1. log' = write_to_wal(log, es) /\ log \in Log  BY DEF AppendWal, Types
<1>2. log' = [log EXCEPT !.wal = log.wal \o s, !.rewound = FALSE]
  BY <1>1 DEF write_to_wal
<1> HIDE DEF s
<1>3. log' = [entries |-> log.entries, base |-> log.base, index |-> log.index, rewound |-> FALSE,
              wal |-> log.wal \o s]
  BY <1>1, <1>2 DEF Log
<1> QED  BY <1>3 DEF s

(* One sequence begins with another. *)
Kept(a, b) == \A k \in DOMAIN a : k \in DOMAIN b /\ b[k] = a[k]

(* Where a whole record lies. *)
LEMMA ReadableIs ==
    ASSUME NEW l \in Log, NEW q
    PROVE  /\ RecordAt(l, q) = {k \in DOMAIN l.wal : l.wal[k].at = q}
           /\ Readable(l, q) <=> \E k \in DOMAIN l.wal : l.wal[k].at = q
<1>1. ASSUME NEW k \in DOMAIN l.wal PROVE l.wal[k].entry.index # 0
  <2>1. l.wal \in Seq(Record)  BY DEF Log
  <2>2. l.wal[k] \in Record  BY <2>1
  <2> QED  BY <2>2 DEF Record, Entry
<1> QED  BY <1>1 DEF Readable, RecordAt

(* A new record lies past the end: what could not be read still cannot.       *)
LEMMA LogAppendWal ==
    ASSUME Types, ThreadInv, LogInv, NEW t \in Threads, AppendWal(t),
           NEW es, es = NewEntries(t), NEW o, o = FileEnd(log),
           NEW wal, wal = log.wal, NEW new, new = log'.wal
    PROVE  LogInv' /\ log' \in Log /\ Kept(wal, new) /\ log'.index = log.index
<1> DEFINE f == Offsets(o, es)
           n == Len(es)
           m == Len(wal)
<1>1. /\ up /\ log_lock = Null /\ log \in Log /\ thread[t] \in Thread
      /\ es \in Seq(Entry) /\ n \in Nat \ {0}
      /\ \A k \in 1..n : es[k].index = Len(log.entries) + k
  BY AppendWalFacts
<1>2. log' = [entries |-> log.entries, base |-> log.base, index |-> log.index, rewound |-> FALSE,
              wal |-> wal \o [i \in 1..n |-> [at |-> f[i], entry |-> es[i]]]]
  BY AppendWalLog
<1>3. /\ wal \in Seq(Record) /\ o \in Nat
      /\ \A k \in 1..m : wal[k].at \in Nat /\ wal[k].at < o
      /\ wal = <<>> => o = 0
  BY WalBounds DEF LogInv
<1>4. f \in [1..n -> Nat] /\ f[1] = o /\ (\A j, k \in 1..n : j < k => f[j] < f[k]) /\ \A k \in 1..n : o <= f[k]
  <2>1. f \in [1..n -> Nat] /\ f[1] = o  BY <1>1, <1>3, OffsetsResult
  <2>2. (\A j, k \in 1..n : j < k => f[j] < f[k]) /\ \A k \in 1..n : o <= f[k]  BY <1>1, <1>3, OffsetsGrow
  <2> HIDE DEF f
  <2> QED  BY <2>1, <2>2
<1>F. f = Offsets(o, es)  OBVIOUS
<1> HIDE DEF f
<1>5. /\ new \in Seq(Record) /\ Len(new) = m + n
      /\ \A k \in 1..m : new[k] = wal[k]
      /\ \A k \in 1..n : new[m + k] = [at |-> f[k], entry |-> es[k]]
  <2> DEFINE s == [i \in 1..Len(es) |-> [at |-> f[i], entry |-> es[i]]]
  <2>1. new = wal \o s  BY <1>2
  <2>2. s = [i \in 1..Len(es) |-> [at |-> f[i], entry |-> es[i]]]  OBVIOUS
  <2> HIDE DEF s
  <2>3. /\ new \in Seq(Record) /\ Len(new) = Len(wal) + Len(es)
        /\ \A k \in 1..Len(wal) : new[k] = wal[k]
        /\ \A k \in 1..Len(es) : new[Len(wal) + k] = [at |-> f[k], entry |-> es[k]]
    <3>1. Extended(new, wal, f, es)  BY <1>1, <1>3, <1>F, <2>1, <2>2, Written
    <3> QED  BY <3>1 DEF Extended
  <2> QED  BY <2>3
<1>6. /\ log'.wal = new /\ log'.index = log.index /\ log'.entries = log.entries /\ log'.base = log.base
      /\ log'.rewound = FALSE
  BY <1>2
<1>7. log' \in Log
  <2>1. log.entries \in Seq(Entry) /\ log.base \in {1} /\ log.index \in Seq(Nat)  BY <1>1 DEF Log
  <2>2. log' = [entries |-> log.entries, base |-> log.base, index |-> log.index, rewound |-> FALSE, wal |-> new]
    BY <1>2
  <2>3. FALSE \in BOOLEAN  OBVIOUS
  <2> QED  BY <1>5, <2>1, <2>2, <2>3 DEF Log
<1> HIDE DEF n, m
<1>m. m \in Nat /\ DOMAIN wal = 1..m /\ DOMAIN new = 1..(m + n) /\ n \in Nat
      /\ m = Len(wal) /\ n = Len(es) /\ n >= 1
  <2>1. m \in Nat /\ m = Len(wal) /\ DOMAIN wal = 1..m  BY <1>3 DEF m
  <2>2. n \in Nat /\ n = Len(es) /\ n >= 1  BY <1>1 DEF n
  <2>3. DOMAIN new = 1..(m + n)  BY <1>5
  <2> QED  BY <2>1, <2>2, <2>3
<1>8. ASSUME NEW k \in 1..n
      PROVE  m + k \in DOMAIN new /\ new[m + k].at = f[k] /\ new[m + k].entry = es[k] /\ f[k] \in Nat /\ o <= f[k]
  <2> DEFINE r == [at |-> f[k], entry |-> es[k]]
  <2>1. r.at = f[k] /\ r.entry = es[k]  OBVIOUS
  <2>2. new[m + k] = r  BY <1>5
  <2> HIDE DEF r
  <2>3. m + k \in DOMAIN new /\ f[k] \in Nat /\ o <= f[k]  BY <1>4, <1>m
  <2> QED  BY <2>1, <2>2, <2>3
<1>9. ASSUME NEW k \in 1..m PROVE k \in DOMAIN new /\ new[k] = wal[k] /\ new[k].at < o /\ new[k].at \in Nat
  BY <1>3, <1>5, <1>m
<1>10. ASSUME NEW k \in DOMAIN new PROVE k \in 1..m \/ \E j \in 1..n : k = m + j
  <2>1. k \in 1..m \/ (k - m \in 1..n /\ k = m + (k - m))  BY <1>m
  <2> QED  BY <2>1
<1>f. FileInv  BY DEF LogInv
<1>11. \A j, k \in DOMAIN new : j < k => new[j].at < new[k].at
  <2> SUFFICES ASSUME NEW j \in DOMAIN new, NEW k \in DOMAIN new, j < k PROVE new[j].at < new[k].at
    OBVIOUS
  <2>1. CASE j \in 1..m /\ k \in 1..m
    <3>1. wal[j].at < wal[k].at  BY <1>f, <1>m, <2>1 DEF FileInv
    <3> QED  BY <1>9, <2>1, <3>1
  <2>2. CASE j \in 1..m /\ k \notin 1..m
    <3>1. PICK i \in 1..n : k = m + i  BY <1>10, <2>2
    <3> QED  BY <1>3, <1>8, <1>9, <2>2, <3>1
  <2>3. CASE j \notin 1..m
    <3>1. PICK i \in 1..n : j = m + i  BY <1>10, <2>3
    <3>2. k \notin 1..m  BY <1>m, <2>3, <3>1
    <3>3. PICK h \in 1..n : k = m + h  BY <1>10, <3>2
    <3>4. i < h  BY <1>m, <3>1, <3>3
    <3>5. f[i] < f[h]  BY <1>4, <3>4
    <3> QED  BY <1>8, <3>1, <3>3, <3>5
  <2> QED  BY <2>1, <2>2, <2>3
<1>12. o <= FileEnd(log')
  <2>1. new # <<>> /\ m + n \in 1..(m + n)  BY <1>5, <1>m
  <2>2. FileEnd(log') = new[m + n].at + new[m + n].entry.len
    <3>1. Len(new) = m + n  BY <1>5, <1>m
    <3> QED  BY <1>6, <2>1, <3>1 DEF FileEnd, Last
  <2>3. new[m + n].at = f[n] /\ new[m + n].entry = es[n] /\ f[n] \in Nat /\ o <= f[n]
    BY <1>8, <1>m
  <2>4. es[n].len \in Nat
    <3>1. es[n] \in Entry  BY <1>1, <1>m
    <3> QED  BY <3>1 DEF Entry
  <2> QED  BY <1>3, <2>2, <2>3, <2>4
<1>13. FileEnd(log') \in Nat
  <2>1. new # <<>> /\ m + n \in 1..(m + n) /\ Len(new) = m + n  BY <1>5, <1>m
  <2>2. FileEnd(log') = new[m + n].at + new[m + n].entry.len
    BY <1>6, <2>1 DEF FileEnd, Last
  <2>3. new[m + n] \in Record  BY <1>5, <2>1
  <2>4. new[m + n].at \in Nat /\ new[m + n].entry \in Entry  BY <2>3 DEF Record
  <2>5. new[m + n].entry.len \in Nat  BY <2>4 DEF Entry
  <2> QED  BY <2>2, <2>4, <2>5
<1>e. log.wal = <<>> => log.entries = <<>>
  <2> SUFFICES ASSUME log.wal = <<>> PROVE log.entries = <<>>  OBVIOUS
  <2>0. log.index \in Seq(Nat) /\ log.entries \in Seq(Entry)  BY <1>1 DEF Log
  <2>1. \A k \in DOMAIN log.index : FALSE
    <3> SUFFICES ASSUME NEW k \in DOMAIN log.index PROVE FALSE  OBVIOUS
    <3>1. log.index[k] < o /\ o = 0  BY <1>3, <1>f DEF FileInv
    <3>2. log.index[k] \in Nat  BY <2>0
    <3> QED  BY <3>1, <3>2
  <2>2. ~Unreadable /\ Len(log.index) = 0
    <3>1. ~Unreadable  BY <2>1 DEF Unreadable, GivesUp
    <3>2. Len(log.index) \in Nat /\ DOMAIN log.index = 1..Len(log.index)  BY <2>0
    <3>3. Len(log.index) = 0
      <4>1. 1 \notin DOMAIN log.index  BY <2>1
      <4> QED  BY <3>2, <4>1
    <3> QED  BY <3>1, <3>3
  <2>3. Len(log.entries) = 0
    <3>1. ~ghost.dropped  BY <2>2 DEF LogInv, MemoryInv
    <3> QED  BY <1>1, <2>2, <3>1 DEF LogInv, MemoryInv
  <2> QED  BY <2>0, <2>3
<1>14. new # <<>> /\ new[1].at = 0 /\ new[1].entry.index = 1
  <2>1. new # <<>>  BY <1>5, <1>m
  <2>2. CASE wal # <<>>
    <3>1. 1 \in 1..m  BY <1>3, <1>m, <2>2
    <3>2. wal[1].at = 0 /\ wal[1].entry.index = 1  BY <1>f, <2>2 DEF FileInv
    <3> QED  BY <1>9, <2>1, <3>1, <3>2
  <2>3. CASE wal = <<>>
    <3>1. m = 0 /\ 1 \in 1..n /\ o = 0  BY <1>3, <1>m, <2>3
    <3>2. es[1].index = 1
      <4>1. Len(log.entries) = 0  BY <1>e, <2>3
      <4> QED  BY <1>1, <1>m, <3>1, <4>1
    <3>3. new[m + 1].at = f[1] /\ new[m + 1].entry = es[1]  BY <1>8, <3>1
    <3> QED  BY <1>4, <2>1, <3>1, <3>2, <3>3
  <2> QED  BY <2>2, <2>3
<1>15. FileInv'
  <2>1. \A k \in DOMAIN log.index : log.index[k] < FileEnd(log')
    <3> TAKE k \in DOMAIN log.index
    <3>1. log.index[k] < o /\ log.index[k] \in Nat
      <4>1. log.index \in Seq(Nat)  BY <1>1 DEF Log
      <4> QED  BY <1>f, <4>1 DEF FileInv
    <3> QED  BY <1>3, <1>12, <1>13, <3>1
  <2>2. FileEnd(log)' = FileEnd(log')  BY DEF FileEnd
  <2> QED  BY <1>f, <1>6, <1>11, <1>14, <2>1, <2>2 DEF FileInv
<1>16. \A k \in DOMAIN log.index : Readable(log', log.index[k]) <=> Readable(log, log.index[k])
  <2> TAKE k \in DOMAIN log.index
  <2>1. ASSUME Readable(log, log.index[k]) PROVE Readable(log', log.index[k])
    <3>1. PICK j \in 1..m : wal[j].at = log.index[k]  BY <1>1, <1>m, <2>1, ReadableIs
    <3>2. j \in DOMAIN new /\ new[j].at = log.index[k]  BY <1>9, <3>1
    <3> QED  BY <1>6, <1>7, <3>2, ReadableIs
  <2>2. ASSUME Readable(log', log.index[k]) PROVE Readable(log, log.index[k])
    <3>1. PICK j \in DOMAIN new : new[j].at = log.index[k]  BY <1>6, <1>7, <2>2, ReadableIs
    <3>2. log.index[k] < o /\ log.index[k] \in Nat
      <4>1. log.index \in Seq(Nat)  BY <1>1 DEF Log
      <4> QED  BY <1>f, <4>1 DEF FileInv
    <3>3. j \in 1..m
      <4> SUFFICES ASSUME j \notin 1..m PROVE FALSE  OBVIOUS
      <4>1. PICK i \in 1..n : j = m + i  BY <1>10
      <4> QED  BY <1>3, <1>8, <3>1, <3>2, <4>1
    <3>4. j \in DOMAIN log.wal /\ log.wal[j].at = log.index[k]  BY <1>9, <1>m, <3>1, <3>3
    <3> QED  BY <1>1, <3>4, ReadableIs
  <2> QED  BY <2>1, <2>2
<1>17. Unreadable' <=> Unreadable  BY <1>6, <1>16 DEF Unreadable, GivesUp, Readable, RecordAt
<1>18. ghost.misplaced \subseteq ghost'.misplaced /\ ghost'.dropped = ghost.dropped
  BY DEF AppendWal, Types, Ghosts
<1>19. MemoryInv'
  <2>m. MemoryInv  BY DEF LogInv
  <2>1. Unreadable' => ghost'.misplaced # {}  BY <1>17, <1>18, <2>m DEF MemoryInv
  <2>2. ASSUME ~ghost.dropped
        PROVE  /\ Len(log.index) = Len(log.entries)
               /\ \A i \in DOMAIN log.entries \ ghost'.misplaced :
                    \E k \in DOMAIN new : new[k] = [at |-> log.index[i], entry |-> log.entries[i]]
    <3>1. Len(log.index) = Len(log.entries)  BY <1>1, <2>2, <2>m DEF MemoryInv
    <3>2. ASSUME NEW i \in DOMAIN log.entries \ ghost'.misplaced
          PROVE  \E k \in DOMAIN new : new[k] = [at |-> log.index[i], entry |-> log.entries[i]]
      <4> DEFINE r == [at |-> log.index[i], entry |-> log.entries[i]]
      <4>1. i \in DOMAIN log.entries \ ghost.misplaced  BY <1>18
      <4>2. PICK k \in 1..m : wal[k] = r  BY <1>1, <1>m, <2>2, <2>m, <4>1 DEF MemoryInv
      <4> HIDE DEF r
      <4>3. k \in DOMAIN new /\ new[k] = r  BY <1>9, <4>2
      <4> QED  BY <4>3 DEF r
    <3> QED  BY <3>1, <3>2
  <2>3. ghost'.dropped => Unreadable'  BY <1>17, <1>18, <2>m DEF MemoryInv
  <2> QED  BY <1>6, <1>18, <2>1, <2>2, <2>3 DEF MemoryInv
<1>20. TailInv'
  <2>1. /\ log_lock' = t /\ t # Null /\ thread' = [thread EXCEPT ![t] = [thread[t] EXCEPT !.pc = "index", !.index = ftell(log)]]
        /\ ghost' = [ghost EXCEPT !.misplaced = IF ftell(log) = o THEN @ ELSE @ \cup {es[k].index : k \in DOMAIN es}]
    BY SubmitAssumption DEF AppendWal, Set
  <2>2. thread'[t].group = thread[t].group /\ thread'[t].index = ftell(log)
    <3>1. thread'[t] = [thread[t] EXCEPT !.pc = "index", !.index = ftell(log)]  BY <2>1 DEF Types
    <3> DEFINE w == thread[t]
               v == thread'[t]
               p == ftell(log)
    <3>2. v = [w EXCEPT !.pc = "index", !.index = p] /\ w \in Thread  BY <1>1, <3>1
    <3> HIDE DEF w, v, p
    <3>3. v.group = w.group /\ v.index = p  BY <3>2 DEF Thread
    <3> QED  BY <3>3 DEF w, v, p
  <2>3. NewEntries(t)' = es
    <3>1. NewEntries(t)' = NewEntries(t)  BY <1>6, <2>2 DEF NewEntries, Numbered
    <3> QED  BY <3>1
  <2>4. \/ thread'[t].index = o
        \/ thread'[t].index = 0 /\ \A k \in 1..Len(es) : es[k].index \in ghost'.misplaced
    <3>1. ftell(log) = o \/ ftell(log) = 0  BY DEF ftell
    <3>2. ftell(log) # o => \A k \in 1..Len(es) : es[k].index \in ghost'.misplaced
      <4>1. ftell(log) # o => ghost'.misplaced = ghost.misplaced \cup {es[k].index : k \in DOMAIN es}
        BY <2>1 DEF Types
      <4>2. DOMAIN es = 1..Len(es)  BY <1>1
      <4> QED  BY <4>1, <4>2
    <3> QED  BY <2>2, <3>1, <3>2
  <2>5. log.index = <<>> => thread'[t].index = 0
    <3>1. log.index = <<>> => ftell(log) = 0  BY <1>1 DEF LogInv, TailInv
    <3> QED  BY <2>2, <3>1
  <2>6. Len(new) - Len(es) = m /\ m >= 0 /\ 1 \in 1..n  BY <1>5, <1>m
  <2>7. new[m + 1].at = o  BY <1>4, <1>8, <2>6
  <2>8. \A k \in 1..Len(es) : new[m + k] = [at |-> Offsets(o, es)[k], entry |-> es[k]]
    BY <1>5, <1>m, <1>F
  <2>9. log_lock' # Null  BY <2>1
  <2> QED  BY <1>6, <2>1, <2>3, <2>4, <2>5, <2>6, <2>7, <2>8, <2>9 DEF TailInv
<1>21. Kept(wal, new)  BY <1>9, <1>m DEF Kept
<1> QED  BY <1>6, <1>7, <1>15, <1>19, <1>20, <1>21 DEF LogInv

(* The thread between the two writes. *)
Storing(t, es, f) ==
    /\ up /\ log_lock = t /\ log_lock' = Null /\ log \in Log /\ thread[t] \in Thread /\ Sorted(thread[t])
    /\ thread[t].pc = "index" /\ thread[t].index \in Nat
    /\ es \in Seq(Entry) /\ Len(es) \in Nat \ {0} /\ Len(es) = Len(thread[t].group)
    /\ \A k \in 1..Len(es) : es[k].index = Len(log.entries) + k /\ es[k].id = thread[t].group[k].id
    /\ f \in Seq(Nat) /\ Len(f) = Len(es) /\ f[1] = thread[t].index
    /\ log' = store(log, es, f) /\ ghost' = ghost /\ up' = up

(* The second write of append, as it changes the log. *)
LEMMA AppendIndexFacts ==
    ASSUME Types, ThreadInv, NEW t \in Threads, AppendIndex(t),
           NEW es, es = NewEntries(t), NEW f, f = Offsets(thread[t].index, es)
    PROVE  Storing(t, es, f)
<1>1. up /\ log_lock' = Null /\ thread[t].pc = "index" /\ log' = store(log, es, f) /\ ghost' = ghost /\ up' = up
  BY DEF AppendIndex, Serving
<1>2. log \in Log /\ thread[t] \in Thread /\ Sorted(thread[t])  BY DEF Types, ThreadInv
<1> DEFINE g == thread[t].group
<1>3. thread[t].group # <<>> /\ \A k \in DOMAIN thread[t].group : ~thread[t].group[k].read
  BY <1>1, <1>2 DEF Sorted, Writing
<1>4. /\ g \in Seq(Requests) /\ es \in Seq(Entry) /\ Len(es) = Len(g)
      /\ \A k \in 1..Len(g) : es[k].index = Len(log.entries) + k /\ es[k].id = g[k].id
  BY <1>3, NewEntriesAre
<1>5. Len(es) \in Nat \ {0}  BY <1>3, <1>4
<1>6. log_lock = t  BY <1>1 DEF ThreadInv
<1>7. thread[t].index \in Nat  BY <1>2 DEF Thread
<1>8. f \in Seq(Nat) /\ Len(f) = Len(es) /\ f[1] = thread[t].index
  <2>1. f \in [1..Len(es) -> Nat] /\ f[1] = thread[t].index  BY <1>4, <1>5, <1>7, OffsetsResult
  <2> QED  BY <1>5, <2>1, MakeSeq
<1> QED  BY <1>1, <1>2, <1>4, <1>5, <1>6, <1>7, <1>8 DEF Storing

(* Joining two sequences, said in one word. *)
Joined(c, a, b, S) ==
    /\ c \in Seq(S) /\ Len(c) = Len(a) + Len(b)
    /\ \A k \in 1..Len(a) : c[k] = a[k]
    /\ \A k \in 1..Len(b) : c[Len(a) + k] = b[k]
LEMMA Joins ==
    ASSUME NEW S, NEW a \in Seq(S), NEW b \in Seq(S), NEW c, c = a \o b
    PROVE  Joined(c, a, b, S)
<1> QED  BY Concat DEF Joined

(* The record that store builds. *)
Both(k, l, es, f) ==
    /\ k \in Log /\ k.wal = l.wal /\ k.rewound = l.rewound
    /\ k.entries = l.entries \o es /\ k.index = l.index \o f
LEMMA Stored ==
    ASSUME NEW l \in Log, NEW es \in Seq(Entry), NEW f \in Seq(Nat), NEW k, k = store(l, es, f)
    PROVE  Both(k, l, es, f)
<1> DEFINE a == l.entries \o es
           b == l.index \o f
<1>1. l.entries \in Seq(Entry) /\ l.index \in Seq(Nat)  BY DEF Log
<1>2. a \in Seq(Entry) /\ b \in Seq(Nat)  BY <1>1, Concat
<1>3. k = [l EXCEPT !.entries = a, !.index = b]  BY DEF store
<1> HIDE DEF a, b
<1>4. k \in Log /\ k.wal = l.wal /\ k.rewound = l.rewound /\ k.entries = a /\ k.index = b
  BY <1>2, <1>3 DEF Log
<1> QED  BY <1>4 DEF a, b, Both

(* The second write of append keeps the invariants of the log. *)
LEMMA LogAppendIndex ==
    ASSUME Types, ThreadInv, LogInv, NEW t \in Threads, AppendIndex(t),
           NEW es, es = NewEntries(t), NEW f, f = Offsets(thread[t].index, es)
    PROVE  LogInv' /\ log' \in Log /\ LastIndex(log) <= LastIndex(log')
           /\ Joined(log'.entries, log.entries, es, Entry)
           /\ Kept(log.index, log'.index) /\ log'.wal = log.wal
<1> SUFFICES ASSUME NEW wal, wal = log.wal, NEW old, old = log.index, NEW new, new = log'.index,
                    NEW have, have = log.entries, NEW got, got = log'.entries
             PROVE  LogInv' /\ log' \in Log /\ LastIndex(log) <= LastIndex(log')
                    /\ Joined(got, have, es, Entry)
                    /\ Kept(old, new) /\ log'.wal = log.wal
  OBVIOUS
<1> DEFINE n == Len(es)
           m == Len(wal) - n
           o == wal[m + 1].at
           p == thread[t].index
<1>1. /\ up /\ log_lock = t /\ log_lock' = Null /\ log \in Log /\ p \in Nat
      /\ es \in Seq(Entry) /\ n \in Nat \ {0}
      /\ \A k \in 1..n : es[k].index = Len(have) + k
      /\ f \in Seq(Nat) /\ Len(f) = n /\ f[1] = p
      /\ log' = store(log, es, f) /\ ghost' = ghost /\ up' = up
  <2>1. Storing(t, es, f)  BY AppendIndexFacts
  <2> QED  BY <2>1 DEF Storing
<1>2. log' \in Log /\ log'.wal = wal /\ log'.rewound = log.rewound /\ got = have \o es /\ new = old \o f
  <2>1. Both(log', log, es, f)  BY <1>1, Stored
  <2> QED  BY <2>1 DEF Both
<1>3. have \in Seq(Entry) /\ old \in Seq(Nat)  BY <1>1 DEF Log
<1>4. /\ Len(got) = Len(have) + n
      /\ \A k \in 1..Len(have) : got[k] = have[k]
      /\ \A k \in 1..n : got[Len(have) + k] = es[k]
      /\ got \in Seq(Entry)
  <2>1. Joined(got, have, es, Entry)  BY <1>1, <1>2, <1>3, Joins
  <2> QED  BY <2>1 DEF Joined
<1>5. /\ Len(new) = Len(old) + n
      /\ \A k \in 1..Len(old) : new[k] = old[k]
      /\ \A k \in 1..n : new[Len(old) + k] = f[k]
      /\ new \in Seq(Nat)
  <2>0. old \in Seq(Nat) /\ f \in Seq(Nat) /\ new = old \o f  BY <1>1, <1>2, <1>3
  <2>1. Joined(new, old, f, Nat)  BY <2>0, Joins
  <2>2. Len(f) = n  BY <1>1
  <2> HIDE DEF n
  <2> QED  BY <2>1, <2>2 DEF Joined
<1>6. /\ wal \in Seq(Record) /\ FileEnd(log) \in Nat
      /\ \A k \in 1..Len(wal) : wal[k].at \in Nat /\ wal[k].at < FileEnd(log)
  BY WalBounds DEF LogInv
<1>7. /\ m >= 0 /\ (old = <<>> => p = 0)
      /\ \A k \in 1..n : wal[m + k] = [at |-> Offsets(o, es)[k], entry |-> es[k]]
      /\ p = o \/ (p = 0 /\ \A k \in 1..n : es[k].index \in ghost.misplaced)
  <2>1. t # Null  BY SubmitAssumption
  <2> QED  BY <1>1, <2>1 DEF LogInv, TailInv
<1>N. n = Len(es) /\ n \in Nat /\ n >= 1 /\ m \in Nat /\ m + n = Len(wal)
  BY <1>1, <1>6, <1>7
<1>f. f = Offsets(p, es)  OBVIOUS
<1> HIDE DEF n, m, p
<1>8. ASSUME NEW k \in 1..n
      PROVE  m + k \in 1..Len(wal) /\ wal[m + k].at = Offsets(o, es)[k] /\ wal[m + k].entry = es[k]
             /\ wal[m + k] = [at |-> Offsets(o, es)[k], entry |-> es[k]]
  <2> DEFINE x == Offsets(o, es)[k]
             r == [at |-> x, entry |-> es[k]]
  <2>1. r.at = x /\ r.entry = es[k]  OBVIOUS
  <2>2. wal[m + k] = r  BY <1>7
  <2> HIDE DEF r
  <2>3. m + k \in 1..Len(wal)  BY <1>N
  <2> QED  BY <2>1, <2>2, <2>3 DEF r
<1>o. o \in Nat
  <2>1. m + 1 \in 1..Len(wal)  BY <1>N
  <2> QED  BY <1>6, <2>1
<1> HIDE DEF o
<1>9. ASSUME NEW k \in 1..n PROVE f[k] < FileEnd(log) /\ f[k] \in Nat
  <2> DEFINE a == Offsets(p, es)[k]
             b == Offsets(o, es)[k]
  <2>1. b < FileEnd(log) /\ b \in Nat  BY <1>6, <1>8
  <2>2. a \in Nat  BY <1>1, <1>N, OffsetsResult
  <2>3. a + o = b + p  BY <1>1, <1>o, <1>N, OffsetsShift
  <2>4. f[k] = a  BY <1>f
  <2> HIDE DEF a, b
  <2>5. a < FileEnd(log)
    <3>1. CASE p = o  BY <1>o, <1>6, <2>1, <2>2, <2>3, <3>1
    <3>2. CASE p = 0  BY <1>o, <1>6, <2>1, <2>2, <2>3, <3>2
    <3> QED  BY <1>7, <3>1, <3>2
  <2> QED  BY <2>2, <2>4, <2>5
<1>i. Len(old) \in Nat /\ DOMAIN old = 1..Len(old) /\ DOMAIN new = 1..(Len(old) + n)
      /\ Len(have) \in Nat /\ DOMAIN have = 1..Len(have) /\ DOMAIN got = 1..(Len(have) + n)
  BY <1>3, <1>4, <1>5
<1>10. ASSUME NEW k \in DOMAIN new PROVE k \in 1..Len(old) \/ \E j \in 1..n : k = Len(old) + j
  <2> DEFINE l == Len(old)
  <2>0. l \in Nat /\ k \in 1..(l + n)  BY <1>i
  <2> HIDE DEF l
  <2>1. k \in 1..l \/ (k - l \in 1..n /\ k = l + (k - l))  BY <1>N, <2>0
  <2> QED  BY <2>1 DEF l
<1>11. FileInv'
  <2>f. FileInv  BY DEF LogInv
  <2>1. \A k \in DOMAIN new : new[k] < FileEnd(log)
    <3> TAKE k \in DOMAIN new
    <3>1. CASE k \in 1..Len(old)
      <4>1. k \in DOMAIN log.index /\ new[k] = log.index[k]  BY <1>5, <1>i, <3>1
      <4> QED  BY <2>f, <4>1 DEF FileInv
    <3>2. CASE k \notin 1..Len(old)
      <4>1. PICK j \in 1..n : k = Len(old) + j  BY <1>10, <3>2
      <4> QED  BY <1>5, <1>9, <4>1
    <3> QED  BY <3>1, <3>2
  <2>2. new # <<>> => new[1] = 0
    <3>1. CASE old # <<>>
      <4>1. 1 \in 1..Len(old) /\ old[1] = 0  BY <1>3, <2>f, <3>1 DEF FileInv
      <4> QED  BY <1>5, <4>1
    <3>2. CASE old = <<>>
      <4>1. Len(old) = 0 /\ 1 \in 1..n /\ p = 0  BY <1>7, <1>N, <3>2
      <4>2. new[Len(old) + 1] = f[1]  BY <1>5, <4>1
      <4> QED  BY <1>1, <4>1, <4>2
    <3> QED  BY <3>1, <3>2
  <2>3. FileEnd(log') = FileEnd(log) /\ FileEnd(log)' = FileEnd(log')  BY <1>2 DEF FileEnd
  <2>4. log'.wal = log.wal  BY <1>2
  <2> QED  BY <2>1, <2>2, <2>3, <2>4, <2>f DEF FileInv
<1>12. \A q : Readable(log', q) <=> Readable(log, q)  BY <1>2 DEF Readable, RecordAt
<1>13. ASSUME Unreadable PROVE Unreadable' /\ ghost.misplaced # {}
  <2>1. PICK k \in DOMAIN old : ~Readable(log, old[k])  BY <1>13 DEF Unreadable, GivesUp
  <2>2. k \in DOMAIN new /\ new[k] = old[k]
    <3> DEFINE l == Len(old)
    <3>1. k \in 1..l /\ l \in Nat  BY <1>i
    <3>2. new[k] = old[k]  BY <1>5, <3>1
    <3>3. DOMAIN new = 1..(l + n)  BY <1>i
    <3> HIDE DEF l
    <3>4. k \in 1..(l + n)  BY <1>N, <3>1
    <3> QED  BY <3>2, <3>3, <3>4
  <2>3. ~Readable(log', new[k])  BY <1>12, <2>1, <2>2
  <2>4. Unreadable'  BY <2>2, <2>3 DEF Unreadable, GivesUp, Readable, RecordAt
  <2> QED  BY <1>13, <2>4 DEF LogInv, MemoryInv
<1>14. ASSUME ~Unreadable, p = o PROVE ~Unreadable'
  <2>1. \A k \in DOMAIN new : Readable(log', new[k])
    <3> TAKE k \in DOMAIN new
    <3>1. CASE k \in 1..Len(old)
      <4>1. k \in DOMAIN log.index /\ new[k] = log.index[k]  BY <1>5, <1>i, <3>1
      <4> QED  BY <1>12, <1>14, <4>1 DEF Unreadable, GivesUp
    <3>2. CASE k \notin 1..Len(old)
      <4>1. PICK j \in 1..n : k = Len(old) + j  BY <1>10, <3>2
      <4>2. new[k] = wal[m + j].at /\ m + j \in 1..Len(wal)
        <5>1. new[k] = f[j]  BY <1>5, <4>1
        <5>2. m + j \in 1..Len(wal) /\ wal[m + j].at = Offsets(o, es)[j]  BY <1>8
        <5>3. f = Offsets(o, es)  BY <1>14, <1>f
        <5> QED  BY <5>1, <5>2, <5>3
      <4>3. m + j \in DOMAIN log.wal  BY <1>6, <4>2
      <4>4. Readable(log, new[k])  BY <1>1, <4>2, <4>3, ReadableIs
      <4> QED  BY <1>12, <4>4
    <3> QED  BY <3>1, <3>2
  <2> QED  BY <2>1 DEF Unreadable, GivesUp, Readable, RecordAt
<1>15. MemoryInv'
  <2>m. MemoryInv  BY DEF LogInv
  <2>1. Unreadable' => ghost.misplaced # {}
    <3>1. CASE Unreadable  BY <1>13, <3>1
    <3>2. CASE ~Unreadable /\ p = o  BY <1>14, <3>2
    <3>3. CASE ~(p = o)
      <4>1. 1 \in 1..n  BY <1>N
      <4> QED  BY <1>7, <3>3, <4>1
    <3> QED  BY <3>1, <3>2, <3>3
  <2>2. ASSUME ~ghost.dropped
        PROVE  /\ Len(new) = Len(got)
               /\ \A i \in DOMAIN got \ ghost.misplaced :
                    \E k \in DOMAIN wal : wal[k] = [at |-> new[i], entry |-> got[i]]
    <3>1. Len(old) = Len(have)  BY <1>1, <2>m, <2>2 DEF MemoryInv
    <3>2. ASSUME NEW i \in DOMAIN got \ ghost.misplaced
          PROVE  \E k \in DOMAIN wal : wal[k] = [at |-> new[i], entry |-> got[i]]
      <4>1. CASE i \in 1..Len(old)
        <5>1. new[i] = log.index[i] /\ got[i] = log.entries[i] /\ i \in DOMAIN log.entries \ ghost.misplaced
          BY <1>4, <1>5, <1>i, <3>1, <4>1
        <5>2. \E k \in DOMAIN wal : wal[k] = [at |-> log.index[i], entry |-> log.entries[i]]
          BY <1>1, <2>m, <2>2, <5>1 DEF MemoryInv
        <5> QED  BY <5>1, <5>2
      <4>2. CASE i \notin 1..Len(old)
        <5>0. i \in DOMAIN new  BY <1>i, <3>1
        <5>1. PICK j \in 1..n : i = Len(old) + j  BY <1>10, <4>2, <5>0
        <5>2. new[i] = f[j] /\ got[i] = es[j] /\ es[j].index = i
          BY <1>1, <1>4, <1>5, <1>N, <3>1, <5>1
        <5>3. p = o  BY <1>7, <5>2
        <5>4. m + j \in DOMAIN wal /\ wal[m + j] = [at |-> new[i], entry |-> got[i]]
          BY <1>6, <1>8, <1>f, <5>2, <5>3
        <5> QED  BY <5>4
      <4> QED  BY <4>1, <4>2
    <3> QED  BY <1>4, <1>5, <3>1, <3>2
  <2>3. log'.wal = wal /\ ghost' = ghost /\ up' = up  BY <1>1, <1>2
  <2>4. ghost.dropped => Unreadable'  BY <1>13, <2>m DEF MemoryInv
  <2> QED  BY <2>1, <2>2, <2>3, <2>4 DEF MemoryInv
<1>16. TailInv'
  <2>1. new # <<>>  BY <1>5, <1>i, <1>N
  <2> QED  BY <1>1, <2>1 DEF TailInv
<1>17. LastIndex(log) <= LastIndex(log')
  <2>1. LastIndex(log) = Len(have) /\ LastIndex(log') = Len(got)  BY <1>1, <1>2, LastIndexIs
  <2> QED  BY <1>4, <1>i, <1>N, <2>1
<1>18. Joined(got, have, es, Entry)  BY <1>1, <1>2, <1>3, Joins
<1>19. Kept(old, new)
  <2> SUFFICES ASSUME NEW k \in DOMAIN old PROVE k \in DOMAIN new /\ new[k] = old[k]  BY DEF Kept
  <2> DEFINE l == Len(old)
  <2>1. k \in 1..l /\ l \in Nat /\ DOMAIN new = 1..(l + n)  BY <1>i
  <2>2. new[k] = old[k]  BY <1>5, <2>1
  <2> HIDE DEF l
  <2> QED  BY <1>N, <2>1, <2>2
<1> QED  BY <1>2, <1>11, <1>15, <1>16, <1>17, <1>18, <1>19 DEF LogInv

(* A crash leaves the files. *)
LEMMA LogCrash ==
    ASSUME Types, LogInv, Crash
    PROVE  LogInv' /\ log' \in Log /\ log'.wal = log.wal /\ log'.index = log.index
<1>1. /\ log' = [log EXCEPT !.entries = <<>>, !.base = 1] /\ log \in Log
      /\ ~up' /\ log_lock' = Null /\ ghost' = ghost
  BY DEF Crash, Types
<1>2. log' \in Log /\ log'.wal = log.wal /\ log'.index = log.index
  <2> DEFINE none == <<>>
  <2>1. none \in Seq(Entry) /\ log' = [log EXCEPT !.entries = none, !.base = 1]  BY <1>1
  <2> HIDE DEF none
  <2> QED  BY <1>1, <2>1 DEF Log
<1>3. FileInv /\ MemoryInv  BY DEF LogInv
<1>4. FileEnd(log)' = FileEnd(log)  BY <1>2 DEF FileEnd
<1>5. FileInv'  BY <1>2, <1>3, <1>4 DEF FileInv
<1>6. Unreadable' <=> Unreadable  BY <1>2 DEF Unreadable, GivesUp, Readable, RecordAt
<1>7. MemoryInv'  BY <1>1, <1>3, <1>6 DEF MemoryInv
<1>8. TailInv'  BY <1>1 DEF TailInv
<1> QED  BY <1>2, <1>5, <1>7, <1>8 DEF LogInv

(* The records that the index file names are read back. *)
ReadsAs(q, e) ==
    /\ e \in Entry
    /\ \E k \in DOMAIN log.wal : log.wal[k] = [at |-> q, entry |-> e]
    /\ q = 0 => e.index = 1
LEMMA ReadBack ==
    ASSUME Types, FileInv, NEW q, Readable(log, q)
    PROVE  ReadsAs(q, read_entry_from_wal(log, q))
<1> DEFINE e == read_entry_from_wal(log, q)
           wal == log.wal
           k == CHOOSE j \in RecordAt(log, q) : TRUE
<1>0. RecordAt(log, q) = {j \in DOMAIN wal : wal[j].at = q}  BY ReadableIs DEF Types
<1>1. k \in DOMAIN wal /\ wal[k].at = q  BY <1>0 DEF Readable
<1>2. e = wal[k].entry  BY DEF read_entry_from_wal
<1>3. wal \in Seq(Record)  BY DEF Types, Log
<1>4. \A j, l \in DOMAIN wal : j < l => wal[j].at < wal[l].at  BY DEF FileInv
<1>5. wal # <<>> => wal[1].at = 0 /\ wal[1].entry.index = 1  BY DEF FileInv
<1> HIDE DEF wal, k, e
<1>6. k \in 1..Len(wal) /\ wal[k] \in Record /\ Len(wal) \in Nat /\ DOMAIN wal = 1..Len(wal)
  BY <1>1, <1>3
<1>7. wal[k] = [at |-> q, entry |-> e] /\ e \in Entry /\ q \in Nat
  BY <1>1, <1>2, <1>6 DEF Record
<1>8. ASSUME q = 0 PROVE e.index = 1
  <2>1. 1 \in DOMAIN wal /\ wal # <<>>  BY <1>6
  <2>2. wal[1].at = 0  BY <1>5, <2>1
  <2>3. ~(1 < k)
    <3> SUFFICES ASSUME 1 < k PROVE FALSE  OBVIOUS
    <3>1. wal[1].at < wal[k].at  BY <1>1, <1>4, <2>1
    <3> QED  BY <1>1, <1>8, <2>2, <3>1
  <2>4. k = 1  BY <1>6, <2>3
  <2> QED  BY <1>2, <1>5, <2>1, <2>4
<1> QED  BY <1>1, <1>7, <1>8 DEF wal, e, ReadsAs

(* What the constructor finds is a log, and the one the files describe. *)
LEMMA LogRestart ==
    ASSUME Types, ThreadInv, LogInv, Restart
    PROVE  LogInv' /\ log' \in Log /\ log'.wal = log.wal /\ log'.index = log.index
<1> DEFINE old == log.index
           read == [k \in DOMAIN old |-> read_entry_from_wal(log, old[k])]
           es == log'.entries
<1>1. /\ log \in Log /\ ~up /\ up' /\ log' = recover(log) /\ log_lock' = log_lock
      /\ ghost'.misplaced = ghost.misplaced /\ ghost'.dropped = (ghost.dropped \/ Unreadable)
  BY DEF Restart, Types, Ghosts, Unreadable
<1>2. log_lock = Null
  <2>1. \A t \in Threads : thread[t].pc = "idle"  BY <1>1 DEF ThreadInv, Idle
  <2>2. \A t \in Threads : log_lock # t  BY <2>1 DEF ThreadInv
  <2> QED  BY <2>2 DEF Types
<1>f. FileInv /\ MemoryInv  BY DEF LogInv
<1>i. old \in Seq(Nat) /\ Len(old) \in Nat /\ DOMAIN old = 1..Len(old)  BY <1>1 DEF Log
<1> DEFINE found == IF \A k \in DOMAIN old : Readable(log, old[k]) THEN read ELSE <<>>
           base == IF found = <<>> THEN 1 ELSE found[1].index
<1>3. log' = [log EXCEPT !.entries = found, !.base = base, !.rewound = TRUE]
  BY <1>1 DEF recover
<1>l. found = IF Unreadable THEN <<>> ELSE read
  <2>1. Unreadable <=> ~(\A k \in DOMAIN old : Readable(log, old[k]))  BY DEF Unreadable, GivesUp
  <2> HIDE DEF read
  <2> QED  BY <2>1
<1>4. ASSUME ~Unreadable
      PROVE  /\ read \in Seq(Entry) /\ Len(read) = Len(old)
             /\ \A i \in DOMAIN old : \E k \in DOMAIN log.wal : log.wal[k] = [at |-> old[i], entry |-> read[i]]
             /\ old # <<>> => read[1].index = 1
  <2>1. ASSUME NEW i \in DOMAIN old
        PROVE  /\ read[i] \in Entry
               /\ \E k \in DOMAIN log.wal : log.wal[k] = [at |-> old[i], entry |-> read[i]]
               /\ old[i] = 0 => read[i].index = 1
    <3>1. Readable(log, old[i])  BY <1>4 DEF Unreadable, GivesUp
    <3>2. read[i] = read_entry_from_wal(log, old[i])  OBVIOUS
    <3>3. ReadsAs(old[i], read_entry_from_wal(log, old[i]))
      <4> DEFINE q == old[i]
      <4>1. Readable(log, q)  BY <3>1
      <4> HIDE DEF q
      <4>2. ReadsAs(q, read_entry_from_wal(log, q))  BY <1>f, <4>1, ReadBack
      <4> QED  BY <4>2 DEF q
    <3> QED  BY <3>2, <3>3 DEF ReadsAs
  <2>2. read \in [1..Len(old) -> Entry]  BY <1>i, <2>1
  <2>3. read \in Seq(Entry) /\ Len(read) = Len(old)
    <3> HIDE DEF read
    <3> QED  BY <1>i, <2>2, MakeSeq
  <2>4. ASSUME old # <<>> PROVE read[1].index = 1
    <3>1. 1 \in DOMAIN old /\ old[1] = 0  BY <1>i, <1>f, <2>4 DEF FileInv
    <3> QED  BY <2>1, <3>1
  <2> QED  BY <2>1, <2>3, <2>4
<1>5. found \in Seq(Entry) /\ base = 1
  <2>1. CASE Unreadable
    <3>1. found = <<>>  BY <1>l, <2>1
    <3> HIDE DEF found
    <3>2. base = 1  BY <3>1
    <3>3. found \in Seq(Entry)
      <4> HIDE DEF base
      <4> QED  BY <3>1
    <3> QED  BY <3>2, <3>3
  <2>2. CASE ~Unreadable
    <3>1. found = read  BY <1>l, <2>2
    <3> HIDE DEF read, found
    <3>2. Len(found) = Len(old) /\ found \in Seq(Entry)  BY <1>4, <2>2, <3>1
    <3>3. found # <<>> => old # <<>>  BY <3>2
    <3> QED  BY <1>4, <2>2, <3>1, <3>2, <3>3
  <2> QED  BY <2>1, <2>2
<1> HIDE DEF found, base
<1>6. log' \in Log /\ log'.wal = log.wal /\ log'.index = old /\ es = found /\ log'.rewound = TRUE
  BY <1>1, <1>3, <1>5 DEF Log
<1>7. FileEnd(log)' = FileEnd(log)  BY <1>6 DEF FileEnd
<1>8. FileInv'  BY <1>6, <1>7, <1>f DEF FileInv
<1>9. Unreadable' <=> Unreadable  BY <1>6 DEF Unreadable, GivesUp, Readable, RecordAt
<1>10. MemoryInv'
  <2>1. Unreadable' => ghost'.misplaced # {}  BY <1>1, <1>9, <1>f DEF MemoryInv
  <2>2. ASSUME ~ghost'.dropped
        PROVE  /\ Len(log'.index) = Len(es)
               /\ \A i \in DOMAIN es \ ghost'.misplaced :
                     \E k \in DOMAIN log'.wal : log'.wal[k] = [at |-> log'.index[i], entry |-> es[i]]
    <3>1. ~Unreadable  BY <1>1, <2>2
    <3>2. es = read  BY <1>6, <1>l, <3>1
    <3> HIDE DEF read, es
    <3>3. Len(es) = Len(old) /\ DOMAIN es = DOMAIN old  BY <1>4, <1>i, <3>1, <3>2
    <3> QED  BY <1>4, <1>6, <3>1, <3>2, <3>3
  <2>3. ghost'.dropped => Unreadable'  BY <1>1, <1>9, <1>f DEF MemoryInv
  <2> QED  BY <2>1, <2>2, <2>3 DEF MemoryInv
<1>11. TailInv'
  <2>1. ftell(log)' = 0  BY <1>6 DEF ftell
  <2> QED  BY <1>1, <1>2, <2>1 DEF TailInv
<1> QED  BY <1>6, <1>8, <1>10, <1>11 DEF LogInv

(* The files only grow. *)
LEMMA RanFrame ==
    ASSUME RanInv, Kept(log.index, log'.index), Kept(log.wal, log'.wal),
           ghost.misplaced \subseteq ghost'.misplaced, ghost'.exec = ghost.exec,
           ghost.dropped => ghost'.dropped
    PROVE  RanInv'
<1> SUFFICES ASSUME ~ghost'.dropped, NEW k \in DOMAIN ghost.exec, NEW r, r = ghost.exec[k]
             PROVE  r.at \in ghost'.misplaced \/ Filed(r)'
  BY DEF RanInv, Filed
<1>1. r.at \in ghost.misplaced \/ Filed(r)  BY DEF RanInv
<1>2. Filed(r) => Filed(r)'
  <2> SUFFICES ASSUME Filed(r) PROVE Filed(r)'  OBVIOUS
  <2>1. r.at \in DOMAIN log'.index /\ log'.index[r.at] = log.index[r.at]  BY DEF Filed, Kept
  <2>2. PICK j \in DOMAIN log.wal : log.wal[j].at = log.index[r.at] /\ log.wal[j].entry.id = r.id
    BY DEF Filed
  <2>3. j \in DOMAIN log'.wal /\ log'.wal[j] = log.wal[j]  BY DEF Kept
  <2> QED  BY <2>1, <2>2, <2>3 DEF Filed
<1> QED  BY <1>1, <1>2

LEMMA RanKept ==
    ASSUME RanInv, log'.index = log.index, log'.wal = log.wal,
           ghost'.misplaced = ghost.misplaced, ghost'.exec = ghost.exec, ghost.dropped => ghost'.dropped
    PROVE  RanInv'
<1>1. Kept(log.index, log'.index) /\ Kept(log.wal, log'.wal)  BY DEF Kept
<1> QED  BY <1>1, RanFrame

(* What runs is the entry the log has at the index. *)
LEMMA RanApplies ==
    ASSUME Types, LogInv, RunInv, RanInv, ApplyOne
    PROVE  RanInv'
<1>x. PICK x : x = ghost.exec  OBVIOUS
<1>y. PICK y : y = ghost'.exec  OBVIOUS
<1>i. PICK i : i = Running  OBVIOUS
<1>d. PICK id : id = log.entries[i].id  OBVIOUS
<1>1. /\ x \in Seq(Run) /\ y \in Seq(Run) /\ Len(y) = Len(x) + 1
      /\ y[Len(y)].at = i /\ y[Len(y)].id = id
      /\ \A k \in 1..Len(x) : y[k] = x[k]
  BY <1>x, <1>y, <1>i, <1>d, ExecLonger
<1>2. /\ up /\ i \in DOMAIN log.entries /\ log' = log
      /\ ghost'.misplaced = ghost.misplaced /\ ghost'.dropped = ghost.dropped
  BY <1>i, ApplyFacts
<1> SUFFICES ASSUME ~ghost.dropped, NEW k \in DOMAIN y
             PROVE  y[k].at \in ghost.misplaced \/ Filed(y[k])
  BY <1>2, <1>y DEF RanInv, Filed
<1>3. CASE k \in DOMAIN x
  <2>1. y[k] = x[k]  BY <1>1, <1>3
  <2> QED  BY <1>3, <1>x, <2>1 DEF RanInv
<1>4. CASE k \notin DOMAIN x
  <2>1. k = Len(y)  BY <1>1, <1>4
  <2>2. CASE i \in ghost.misplaced  BY <1>1, <2>1, <2>2
  <2>3. CASE i \notin ghost.misplaced
    <3>1. /\ Len(log.index) = Len(log.entries)
          /\ \E j \in DOMAIN log.wal : log.wal[j] = [at |-> log.index[i], entry |-> log.entries[i]]
      BY <1>2, <2>3 DEF LogInv, MemoryInv
    <3>2. i \in DOMAIN log.index
      <4>1. log.index \in Seq(Nat) /\ log.entries \in Seq(Entry)  BY DEF Types, Log
      <4> QED  BY <1>2, <3>1, <4>1
    <3>3. PICK j \in DOMAIN log.wal : log.wal[j] = [at |-> log.index[i], entry |-> log.entries[i]]
      BY <3>1
    <3>4. log.wal[j].at = log.index[i] /\ log.wal[j].entry.id = id  BY <1>d, <3>3
    <3> QED  BY <1>1, <2>1, <3>2, <3>4 DEF Filed
  <2> QED  BY <2>2, <2>3
<1> QED  BY <1>3, <1>4

-----------------------------------------------------------------------------
(* The steps that change a thread and the log, or what ran. *)

(* The log gets longer, more runs, more fails. *)
Grows ==
    /\ confirm' = confirm /\ ghost.failed \subseteq ghost'.failed
    /\ \A k \in DOMAIN ghost.exec : k \in DOMAIN ghost'.exec /\ ghost'.exec[k] = ghost.exec[k]
    /\ \A k \in DOMAIN log.entries : k \in DOMAIN log'.entries /\ log'.entries[k] = log.entries[k]

(* What is about its own command stays so when more runs. *)
LEMMA OwnKept ==
    ASSUME Grows, NEW r, OwnReplies(r)
    PROVE  OwnReplies(r)'
BY DEF Grows, OwnReplies, Own

LEMMA AnsweredKept ==
    ASSUME Grows, NEW x, Answered(x)
    PROVE  Answered(x)'
<1>1. OwnReplies(x.reply) => OwnReplies(x.reply)'  BY OwnKept
<1>2. ASSUME NEW r, NEW id, Own(r, id) PROVE Own(r, id)'  BY <1>2 DEF Grows, Own
<1>3. /\ confirm' = confirm /\ ghost.failed \subseteq ghost'.failed
      /\ \A k \in DOMAIN log.entries : k \in DOMAIN log'.entries /\ log'.entries[k] = log.entries[k]
  BY DEF Grows
<1>4. \/ OwnReplies(x.reply)' \/ (~x.batch /\ x.pc = "done" /\ x.index \in ghost'.failed)
  BY <1>1, <1>3 DEF Answered
<1>5. x.promise # Null /\ x.promise.what = "ok" /\ ~x.batch /\ x.index \notin ghost'.failed
          => Own(x.promise, x.group[1].id)'
  BY <1>2, <1>3 DEF Answered
<1>6. x.pc \in Awaiting /\ ~x.batch /\ x.index \notin ghost'.failed =>
          x.index \in DOMAIN log'.entries /\ log'.entries[x.index].id = x.group[1].id
  BY <1>3 DEF Answered
<1>7. x.pc = "register" => confirm'  BY <1>3 DEF Answered
<1> QED  BY <1>4, <1>5, <1>6, <1>7 DEF Answered

(* One thread changes. *)
OneThread(t, w) ==
    /\ thread' \in [Threads -> Thread] /\ ThreadInv' /\ thread'[t] = w
    /\ \A s \in Threads \ {t} : thread'[s] = thread[s]

(* The invariants of the threads when one of them changes. *)
LEMMA ThreadChanges ==
    ASSUME Types, ThreadInv, up, up' = up, NEW t \in Threads, NEW w \in Thread, Sorted(w),
           thread' = [thread EXCEPT ![t] = w], w.pc = "index" <=> log_lock' = t,
           \A s \in Threads \ {t} : log_lock' = s <=> log_lock = s
    PROVE  OneThread(t, w)
<1>1. thread \in [Threads -> Thread]  BY DEF Types
<1>2. thread' \in [Threads -> Thread] /\ thread'[t] = w /\ \A s \in Threads \ {t} : thread'[s] = thread[s]
  BY <1>1
<1>3. \A s \in Threads : Sorted(thread'[s])
  <2> TAKE s \in Threads
  <2>1. CASE s = t  BY <1>2, <2>1
  <2>2. CASE s # t  BY <1>2, <2>2 DEF ThreadInv
  <2> QED  BY <2>1, <2>2
<1>4. \A s \in Threads : thread'[s].pc = "index" <=> log_lock' = s
  <2> TAKE s \in Threads
  <2>1. CASE s = t  BY <1>2, <2>1
  <2>2. CASE s # t  BY <1>2, <2>2 DEF ThreadInv
  <2> QED  BY <2>1, <2>2
<1>5. ThreadInv'  BY <1>3, <1>4 DEF ThreadInv
<1> QED  BY <1>2, <1>5 DEF OneThread

(* The answers of the others stay what they are. *)
LEMMA OthersAnswered ==
    ASSUME AnswerInv, Grows, NEW t \in Threads, NEW w, OneThread(t, w), Answered(w)'
    PROVE  \A s \in Threads : Answered(thread[s])'
<1> SUFFICES ASSUME NEW s \in Threads PROVE Answered(thread[s])'
  OBVIOUS
<1>1. PICK x : x = thread'[s]  OBVIOUS
<1>2. Answered(x)'
  <2>1. CASE s = t
    <3>1. x = w  BY <1>1, <2>1 DEF OneThread
    <3> QED  BY <3>1 DEF Answered, OwnReplies, Own
  <2>2. CASE s # t
    <3>1. x = thread[s]  BY <1>1, <2>2 DEF OneThread
    <3>2. Answered(x)  BY <3>1 DEF AnswerInv
    <3> QED  BY <3>2, AnsweredKept
  <2> QED  BY <2>1, <2>2
<1> QED  BY <1>1, <1>2 DEF Answered, OwnReplies, Own

(* pending_requests_ when a thread changes that is not in it. *)
LEMMA PendingOthers ==
    ASSUME Types, AnswerInv, NEW t \in Threads, NEW w, OneThread(t, w), UNCHANGED <<pending, confirm>>,
           thread[t].pc \notin {"commit", "wait"}
    PROVE  PendingInv'
<1>2. \A s \in Threads \ {t} : thread'[s] = thread[s]  BY DEF OneThread
<1>3. ASSUME NEW i \in DOMAIN pending PROVE pending[i] \in Threads \ {t}
  BY DEF Types, AnswerInv, PendingInv
<1> QED  BY <1>2, <1>3 DEF AnswerInv, PendingInv

(* A thread in an append goes on with an index. *)
LEMMA AppendThread ==
    ASSUME NEW w \in Thread, w.pc \in {"write", "index"}, Sorted(w), Answered(w), Grows,
           NEW pc \in {"index", "register", "commit"}, NEW i \in Nat, pc = "register" => confirm,
           pc # "index" /\ ~w.batch =>
              i \in ghost'.failed \/ (i \in DOMAIN log'.entries /\ log'.entries[i].id = w.group[1].id),
           NEW v, v = [w EXCEPT !.pc = pc, !.index = i]
    PROVE  v \in Thread /\ Sorted(v) /\ Answered(v)' /\ v.pc = pc
<1>1. /\ v.pc = pc /\ v.batch = w.batch /\ v.group = w.group /\ v.read = w.read
      /\ v.next = w.next /\ v.index = i /\ v.promise = w.promise /\ v.reply = w.reply
  BY DEF Thread
<1>2. v \in Thread  BY DEF Thread, Places
<1>3. Sorted(v) /\ v.promise = Null  BY <1>1 DEF Sorted, Writing
<1>4. OwnReplies(v.reply)'
  <2>1. OwnReplies(v.reply)  BY <1>1 DEF Answered
  <2> QED  BY <2>1, OwnKept
<1>5. v.pc \in Awaiting /\ ~v.batch /\ v.index \notin ghost'.failed =>
          v.index \in DOMAIN log'.entries /\ log'.entries[v.index].id = v.group[1].id
  BY <1>1 DEF Awaiting
<1>6. v.pc = "register" => confirm'  BY <1>1 DEF Grows
<1>7. Answered(v)'  BY <1>3, <1>4, <1>5, <1>6 DEF Answered
<1> QED  BY <1>1, <1>2, <1>3, <1>7

(* The first write of an append. *)
LEMMA AnswerAppendWal ==
    ASSUME Types, ThreadInv, AnswerInv, NEW t \in Threads, AppendWal(t)
    PROVE  thread' \in [Threads -> Thread] /\ ThreadInv' /\ AnswerInv'
<1>w. PICK w : w = thread[t]  OBVIOUS
<1>j. PICK i : i = ftell(log)  OBVIOUS
<1>v. PICK v : v = [w EXCEPT !.pc = "index", !.index = i]  OBVIOUS
<1> DEFINE o == FileEnd(log)
           es == NewEntries(t)
<1>0. w \in Thread /\ w.pc = "write" /\ Sorted(w) /\ Answered(w)
  BY <1>w DEF Types, AppendWal, ThreadInv, AnswerInv
<1>1. /\ up /\ up' = up /\ log_lock = Null /\ log_lock' = t /\ thread' = [thread EXCEPT ![t] = v]
      /\ pending' = pending /\ confirm' = confirm
      /\ ghost'.exec = ghost.exec /\ ghost'.failed = ghost.failed
  BY <1>w, <1>j, <1>v DEF AppendWal, Serving, Set, Types, Ghosts
<1>2. log'.entries = log.entries
  <2>1. log' = [entries |-> log.entries, base |-> log.base, index |-> log.index, rewound |-> FALSE,
                wal |-> log.wal \o [k \in 1..Len(es) |-> [at |-> Offsets(o, es)[k], entry |-> es[k]]]]
    BY AppendWalLog
  <2> QED  BY <2>1
<1>3. Grows  BY <1>1, <1>2 DEF Grows
<1>4. i \in Nat
  <2>1. FileEnd(log) \in Nat /\ log \in Log
    <3>1. log \in Log  BY DEF Types
    <3>2. ASSUME log.wal # <<>> PROVE FileEnd(log) \in Nat
      <4> DEFINE k == Len(log.wal)
                 r == log.wal[k]
      <4>1. r \in Record  BY <3>1, <3>2 DEF Log
      <4> HIDE DEF r
      <4>2. r.at \in Nat /\ r.entry.len \in Nat  BY <4>1 DEF Record, Entry
      <4>3. FileEnd(log) = r.at + r.entry.len  BY <3>2 DEF FileEnd, Last, r
      <4> QED  BY <4>2, <4>3
    <3> QED  BY <3>1, <3>2 DEF FileEnd
  <2> QED  BY <1>j, <2>1 DEF ftell
<1>n. t # Null /\ \A s \in Threads : s # Null  BY SubmitAssumption
<1>5. v \in Thread /\ Sorted(v) /\ Answered(v)' /\ v.pc = "index"
  BY <1>0, <1>3, <1>4, <1>v, AppendThread
<1>6. OneThread(t, v)
  <2>1. \A s \in Threads \ {t} : log_lock' = s <=> log_lock = s  BY <1>1, <1>n
  <2> QED  BY <1>1, <1>5, <2>1, ThreadChanges
<1>7. PendingInv'  BY <1>0, <1>1, <1>6, <1>w, PendingOthers
<1>8. \A s \in Threads : Answered(thread[s])'  BY <1>3, <1>5, <1>6, OthersAnswered
<1> QED  BY <1>6, <1>7, <1>8 DEF OneThread, AnswerInv

(* A write that fails. *)
LEMMA AnswerAppendFails ==
    ASSUME Types, ThreadInv, AnswerInv, NEW t \in Threads, AppendFails(t)
    PROVE  /\ thread' \in [Threads -> Thread] /\ ThreadInv' /\ AnswerInv'
           /\ ghost'.exec = ghost.exec /\ ghost'.misplaced = ghost.misplaced
           /\ ghost' \in Ghosts /\ ghost'.dropped = ghost.dropped
<1>w. PICK w : w = thread[t]  OBVIOUS
<1>j. PICK i : i = log.base + Len(log.entries)  OBVIOUS
<1>0. w \in Thread /\ w.pc = "write" /\ Sorted(w) /\ Answered(w)
  BY <1>w DEF Types, AppendFails, ThreadInv, AnswerInv
<1>1. /\ up /\ up' = up /\ log_lock = Null /\ log_lock' = log_lock /\ log' = log
      /\ pending' = pending /\ confirm' = confirm
  BY DEF AppendFails, Serving
<1>g. ghost \in Ghosts  BY DEF Types
<1>i. i \in Nat
  <2>1. log.entries \in Seq(Entry) /\ log.base = 1  BY DEF Types, Log
  <2> QED  BY <1>j, <2>1
<1>n. log_lock' # t  BY <1>1, SubmitAssumption
<1>b. CASE w.batch
  <2> DEFINE ids == Range(Ids(w.group))
             r == [id \in DOMAIN w.reply |-> IF id \in ids THEN Error("failed") ELSE w.reply[id]]
  <2>v. PICK v : v = [Resume(w) EXCEPT !.reply = r]  OBVIOUS
  <2>1. Resume(w).reply = w.reply  BY <1>0 DEF Resume, Thread
  <2>2. /\ thread' = [thread EXCEPT ![t] = [Resume(w) EXCEPT !.reply =
              [id \in DOMAIN Resume(w).reply |-> IF id \in ids THEN Error("failed") ELSE Resume(w).reply[id]]]]
        /\ ghost' = ghost
    BY <1>b, <1>w DEF AppendFails, Failed, Set
  <2>3. thread' = [thread EXCEPT ![t] = v]  BY <2>1, <2>2, <2>v
  <2>4. r \in Replies /\ OwnReplies(r)
    <3>1. OwnReplies(w.reply)  BY <1>0 DEF Answered
    <3> HIDE DEF ids
    <3>2. PICK D \in SUBSET Id : w.reply \in [D -> Result]  BY <1>0 DEF Thread, Replies
    <3>3. Error("failed") \in Result /\ Error("failed").what # "ok"  BY ReplyTypes DEF Error, Outcomes
    <3>4. r = [id \in D |-> IF id \in ids THEN Error("failed") ELSE w.reply[id]] /\ DOMAIN w.reply = D
      BY <3>2
    <3> HIDE DEF r
    <3>5. ASSUME NEW id \in D PROVE r[id] \in Result /\ (r[id].what = "ok" => Own(r[id], id))
      <4>1. CASE id \in ids
        <5>1. r[id] = Error("failed")  BY <3>4, <4>1
        <5> QED  BY <3>3, <5>1
      <4>2. CASE id \notin ids
        <5>1. r[id] = w.reply[id] /\ w.reply[id] \in Result  BY <3>2, <3>4, <4>2
        <5> QED  BY <3>1, <3>4, <5>1 DEF OwnReplies
      <4> QED  BY <4>1, <4>2
    <3>6. DOMAIN r = D /\ r \in [D -> Result]  BY <3>4, <3>5
    <3> QED  BY <3>5, <3>6 DEF Replies, OwnReplies
  <2>g. Grows  BY <1>1, <2>2 DEF Grows
  <2> HIDE DEF r
  <2>5. v \in Thread /\ Sorted(v) /\ Answered(v) /\ v.pc = "scan"  BY <1>0, <1>b, <2>4, <2>v, Resumed
  <2>6. OneThread(t, v)  BY <1>1, <1>n, <2>3, <2>5, ThreadChanges
  <2>7. PendingInv'  BY <1>0, <1>1, <2>6, <1>w, PendingOthers
  <2>8. Answered(v)'  BY <2>5, <2>g, AnsweredKept
  <2>9. \A s \in Threads : Answered(thread[s])'  BY <2>6, <2>8, <2>g, OthersAnswered
  <2> QED  BY <1>g, <2>2, <2>6, <2>7, <2>9 DEF OneThread, AnswerInv
<1>s. CASE ~w.batch
  <2>c. PICK pc : pc = Following  OBVIOUS
  <2>v. PICK v : v = [w EXCEPT !.pc = pc, !.index = i]  OBVIOUS
  <2>1. /\ thread' = [thread EXCEPT ![t] = v]
        /\ ghost' = [ghost EXCEPT !.failed = @ \cup {i}]
    BY <1>s, <1>w, <1>j, <2>c, <2>v DEF AppendFails, Set
  <2>2. /\ ghost'.exec = ghost.exec /\ ghost'.misplaced = ghost.misplaced
        /\ ghost'.failed = ghost.failed \cup {i}
        /\ ghost' \in Ghosts /\ ghost'.dropped = ghost.dropped
    BY <1>g, <1>i, <2>1 DEF Ghosts
  <2>g. Grows  BY <1>1, <2>2 DEF Grows
  <2>p. pc \in {"register", "commit"} /\ (pc = "register" => confirm)  BY <2>c DEF Following
  <2>f. i \in ghost'.failed  BY <2>2
  <2>5. v \in Thread /\ Sorted(v) /\ Answered(v)' /\ v.pc = pc
    BY <1>0, <1>i, <2>g, <2>p, <2>f, <2>v, AppendThread
  <2>6. OneThread(t, v)  BY <1>1, <1>n, <2>1, <2>5, <2>p, ThreadChanges
  <2>7. PendingInv'  BY <1>0, <1>1, <2>6, <1>w, PendingOthers
  <2>9. \A s \in Threads : Answered(thread[s])'  BY <2>6, <2>5, <2>g, OthersAnswered
  <2> QED  BY <2>2, <2>6, <2>7, <2>9 DEF OneThread, AnswerInv
<1> QED  BY <1>b, <1>s

(* The second write of an append: the thread waits for its last entry, or     *)
(* answers that the log refused.                                              *)
LEMMA RefusedThread ==
    ASSUME NEW w \in Thread, w.pc = "index", Sorted(w),
           NEW reply \in Replies, OwnReplies(reply),
           NEW v, v = [w EXCEPT !.pc = "done", !.reply = reply]
    PROVE  v \in Thread /\ Sorted(v) /\ Answered(v) /\ v.pc = "done"
<1>1. /\ v.pc = "done" /\ v.batch = w.batch /\ v.group = w.group /\ v.read = w.read
      /\ v.next = w.next /\ v.index = w.index /\ v.promise = w.promise /\ v.reply = reply
  BY DEF Thread
<1>2. v \in Thread  BY DEF Thread, Places
<1>3. Sorted(v)  BY <1>1 DEF Sorted, Writing
<1>4. w.promise = Null  BY DEF Sorted
<1>5. Answered(v)  BY <1>1, <1>4 DEF Answered, Awaiting
<1> QED  BY <1>1, <1>2, <1>3, <1>5

(* The second write of append and the answers. *)
LEMMA AnswerAppendIndex ==
    ASSUME Types, ThreadInv, LogInv, AnswerInv, NEW t \in Threads, AppendIndex(t)
    PROVE  thread' \in [Threads -> Thread] /\ ThreadInv' /\ AnswerInv'
<1>w. PICK w : w = thread[t]  OBVIOUS
<1>e. PICK es : es = NewEntries(t)  OBVIOUS
<1>f. PICK f : f = Offsets(thread[t].index, es)  OBVIOUS
<1>h. PICK have : have = log.entries  OBVIOUS
<1>g. PICK got : got = log'.entries  OBVIOUS
<1>s. Storing(t, es, f)  BY <1>e, <1>f, AppendIndexFacts
<1>0. w \in Thread /\ w.pc = "index" /\ Sorted(w) /\ Answered(w)
  BY <1>w DEF Types, AppendIndex, ThreadInv, AnswerInv
<1>1. /\ up /\ up' = up /\ log_lock = t /\ log_lock' = Null
      /\ pending' = pending /\ confirm' = confirm /\ ghost' = ghost
  BY <1>s DEF AppendIndex, Storing
<1>2. /\ log' \in Log
      /\ Len(got) = Len(have) + Len(es)
      /\ \A k \in 1..Len(have) : got[k] = have[k]
      /\ \A k \in 1..Len(es) : got[Len(have) + k] = es[k]
  <2>1. log' \in Log /\ Joined(log'.entries, log.entries, es, Entry)  BY <1>e, <1>f, LogAppendIndex
  <2>2. Joined(got, have, es, Entry)  BY <1>h, <1>g, <2>1
  <2> QED  BY <2>1, <2>2 DEF Joined
<1>3. have \in Seq(Entry) /\ got \in Seq(Entry) /\ Len(have) \in Nat /\ Len(es) \in Nat \ {0}
      /\ DOMAIN have = 1..Len(have) /\ DOMAIN got = 1..Len(got)
  <2>1. log.entries \in Seq(Entry) /\ log'.entries \in Seq(Entry)  BY <1>2 DEF Types, Log
  <2>2. have \in Seq(Entry) /\ got \in Seq(Entry)  BY <1>h, <1>g, <2>1
  <2>3. Len(es) \in Nat \ {0}  BY <1>s DEF Storing
  <2> QED  BY <2>2, <2>3
<1>4. Grows
  <2>1. ASSUME NEW k \in DOMAIN have PROVE k \in DOMAIN got /\ got[k] = have[k]
    BY <1>2, <1>3
  <2> QED  BY <1>1, <1>g, <1>h, <2>1 DEF Grows
<1>n. log_lock' # t /\ \A s \in Threads : s # Null  BY <1>1, SubmitAssumption
<1>o. \A s \in Threads \ {t} : log_lock' = s <=> log_lock = s  BY <1>1, <1>n
<1>a. CASE Throws(log')
  <2>r. PICK r : r = [id \in Range(Ids(w.group)) |-> Error("deadlock")]  OBVIOUS
  <2>v. PICK v : v = [w EXCEPT !.pc = "done", !.reply = r]  OBVIOUS
  <2>1. thread' = [thread EXCEPT ![t] = v]
    BY <1>a, <1>w, <2>r, <2>v DEF AppendIndex, Appended, Set
  <2>2. r \in Replies /\ OwnReplies(r)
    <3>1. Range(Ids(w.group)) \subseteq Id  BY <1>0, RequestTypes DEF Thread
    <3>2. Error("deadlock") \in Result /\ Error("deadlock").what # "ok"  BY ReplyTypes DEF Error, Outcomes
    <3> DEFINE D == Range(Ids(w.group))
    <3> HIDE DEF D
    <3>3. r = [id \in D |-> Error("deadlock")] /\ D \in SUBSET Id  BY <2>r, <3>1 DEF D
    <3>4. r \in [D -> Result] /\ DOMAIN r = D  BY <3>2, <3>3
    <3>5. \A id \in D : r[id].what # "ok"  BY <3>2, <3>3
    <3> QED  BY <3>3, <3>4, <3>5 DEF Replies, OwnReplies
  <2>3. v \in Thread /\ Sorted(v) /\ Answered(v) /\ v.pc = "done"  BY <1>0, <2>2, <2>v, RefusedThread
  <2>4. OneThread(t, v)  BY <1>1, <1>n, <1>o, <2>1, <2>3, ThreadChanges
  <2>5. PendingInv'  BY <1>0, <1>1, <1>w, <2>4, PendingOthers
  <2>6. Answered(v)'  BY <1>4, <2>3, AnsweredKept
  <2>7. \A s \in Threads : Answered(thread[s])'  BY <1>4, <2>4, <2>6, OthersAnswered
  <2> QED  BY <2>4, <2>5, <2>7 DEF OneThread, AnswerInv
<1>b. CASE ~Throws(log')
  <2>i. PICK i : i = Len(got)  OBVIOUS
  <2>c. PICK pc : pc = Following  OBVIOUS
  <2>v. PICK v : v = [w EXCEPT !.pc = pc, !.index = i]  OBVIOUS
  <2>0. LastIndex(log') = i  BY <1>2, <1>g, <2>i, LastIndexIs
  <2>1. thread' = [thread EXCEPT ![t] = v]
    BY <1>b, <1>w, <2>0, <2>c, <2>v DEF AppendIndex, Appended, Set
  <2>2. pc \in {"register", "commit"} /\ (pc = "register" => confirm)  BY <2>c DEF Following
  <2>3. i \in Nat  BY <2>i, <1>3
  <2>4. ASSUME ~w.batch PROVE i \in DOMAIN got /\ got[i].id = w.group[1].id
    <3>1. Len(w.group) = 1  BY <1>0, <2>4 DEF Sorted, Writing
    <3>2. Len(es) = 1 /\ es[1].id = w.group[1].id  BY <1>s, <1>w, <3>1 DEF Storing
    <3>3. i = Len(have) + 1  BY <1>2, <2>i, <3>2
    <3>4. got[Len(have) + 1] = es[1]  BY <1>2, <3>2
    <3>5. i \in DOMAIN got  BY <1>3, <2>i, <3>3
    <3> QED  BY <3>2, <3>3, <3>4, <3>5
  <2>5. v \in Thread /\ Sorted(v) /\ Answered(v)' /\ v.pc = pc
    BY <1>0, <1>4, <1>g, <2>2, <2>3, <2>4, <2>v, AppendThread
  <2>6. OneThread(t, v)  BY <1>1, <1>n, <1>o, <2>1, <2>2, <2>5, ThreadChanges
  <2>7. PendingInv'  BY <1>0, <1>1, <1>w, <2>6, PendingOthers
  <2>8. \A s \in Threads : Answered(thread[s])'  BY <1>4, <2>6, <2>5, OthersAnswered
  <2> QED  BY <2>6, <2>7, <2>8 DEF OneThread, AnswerInv
<1> QED  BY <1>a, <1>b

(* The promise of a thread that waits for the entry that ran. *)
LEMMA NotifiedThread ==
    ASSUME Grows, NEW w \in Thread, Sorted(w), Answered(w), w.pc \in {"commit", "wait"},
           NEW r \in Result, r.what = "ok",
           ~w.batch /\ w.index \notin ghost.failed => Own(r, w.group[1].id)',
           NEW v, v = [w EXCEPT !.promise = r]
    PROVE  v \in Thread /\ Sorted(v) /\ Answered(v)' /\ v.pc = w.pc
<1>1. /\ v.pc = w.pc /\ v.batch = w.batch /\ v.group = w.group /\ v.read = w.read
      /\ v.next = w.next /\ v.index = w.index /\ v.promise = r /\ v.reply = w.reply
  BY DEF Thread
<1>2. v \in Thread  BY DEF Thread
<1>3. Sorted(v)  BY <1>1 DEF Sorted, Writing
<1>4. Answered(w)'  BY AnsweredKept
<1>5. ghost.failed \subseteq ghost'.failed  BY DEF Grows
<1>6. Answered(v)'  BY <1>1, <1>4, <1>5 DEF Answered
<1> QED  BY <1>1, <1>2, <1>3, <1>6

(* An applied entry fulfils the promise of the thread that waits for it. *)
LEMMA AnswerApplies ==
    ASSUME Types, ThreadInv, RunInv, AnswerInv, ApplyOne
    PROVE  /\ thread' \in [Threads -> Thread] /\ ThreadInv' /\ AnswerInv'
           /\ pending' \in [DOMAIN pending' -> Threads] /\ DOMAIN pending' \subseteq Nat
           /\ ghost' \in Ghosts
           /\ ghost'.misplaced = ghost.misplaced /\ ghost'.dropped = ghost.dropped
<1>i. PICK i : i = Running  OBVIOUS
<1>r. PICK r : r = Ran  OBVIOUS
<1>x. PICK x : x = ghost.exec  OBVIOUS
<1>y. PICK y : y = ghost'.exec  OBVIOUS
<1>1. /\ up /\ log_lock = Null /\ i \in DOMAIN log.entries /\ i \in Nat /\ r \in Result
      /\ IF loop.kind = "apply" THEN notify_request_applied(i, r) ELSE UNCHANGED <<thread, pending>>
      /\ UNCHANGED <<log, log_lock, confirm, up>>
      /\ ghost'.misplaced = ghost.misplaced /\ ghost'.failed = ghost.failed
      /\ ghost'.dropped = ghost.dropped
  BY <1>i, <1>r, ApplyFacts
<1>2. /\ x \in Seq(Run) /\ y \in Seq(Run) /\ Len(y) = Len(x) + 1
      /\ y[Len(y)] = [at |-> i, id |-> log.entries[i].id, life |-> used.crashes]
      /\ \A k \in 1..Len(x) : y[k] = x[k]
  BY <1>i, <1>x, <1>y, ExecLonger
<1>3. ghost' \in Ghosts
  <2>1. \E a : ghost' = [exec |-> a, misplaced |-> ghost.misplaced, failed |-> ghost.failed, lost |-> FALSE,
                        dropped |-> ghost.dropped]
    BY ApplyFacts
  <2>2. ghost.misplaced \in SUBSET Nat /\ ghost.failed \in SUBSET Nat /\ ghost.dropped \in BOOLEAN
    BY DEF Types, Ghosts
  <2> QED  BY <1>2, <1>y, <2>1, <2>2 DEF Ghosts
<1>4. Grows
  <2>1. ASSUME NEW k \in DOMAIN x PROVE k \in DOMAIN y /\ y[k] = x[k]  BY <1>2
  <2> QED  BY <1>1, <1>x, <1>y, <2>1 DEF Grows
<1>5. r.what = "ok" /\ Own(r, log.entries[i].id)'
  <2>1. r = [id |-> log.entries[i].id, n |-> Len(y), what |-> "ok"]
    BY <1>2, <1>i, <1>r, <1>x DEF Ran
  <2>2. Len(y) \in DOMAIN y /\ y[Len(y)].id = log.entries[i].id  BY <1>2
  <2> QED  BY <1>1, <1>y, <2>1, <2>2 DEF Own
<1>p. /\ pending \in [DOMAIN pending -> Threads] /\ DOMAIN pending \subseteq Nat
      /\ thread \in [Threads -> Thread]
  BY DEF Types
<1>6. CASE loop.kind = "apply" /\ i \in DOMAIN pending
  <2>s. PICK s : s = pending[i]  OBVIOUS
  <2>w. PICK w : w = thread[s]  OBVIOUS
  <2>v. PICK v : v = [w EXCEPT !.promise = r]  OBVIOUS
  <2>1. s \in Threads /\ w \in Thread /\ Sorted(w) /\ Answered(w)
        /\ w.index = i /\ w.pc \in {"commit", "wait"}
    BY <1>6, <1>p, <2>s, <2>w DEF ThreadInv, AnswerInv, PendingInv
  <2>2. confirm  BY <1>6 DEF AnswerInv, PendingInv
  <2>3. thread' = [thread EXCEPT ![s] = v] /\ pending' = Without(pending, i)
    BY <1>1, <1>6, <2>s, <2>w, <2>v DEF notify_request_applied, Set
  <2>4. ASSUME ~w.batch, w.index \notin ghost.failed PROVE Own(r, w.group[1].id)'
    <3>2. log.entries[i].id = w.group[1].id  BY <2>1, <2>4 DEF Answered, Awaiting
    <3>3. Own(r, log.entries[i].id)'  BY <1>5
    <3> QED  BY <1>1, <3>2, <3>3 DEF Own
  <2>5. v \in Thread /\ Sorted(v) /\ Answered(v)' /\ v.pc = w.pc
    BY <1>1, <1>4, <1>5, <2>1, <2>4, <2>v, NotifiedThread
  <2>6. OneThread(s, v)
    <3>1. v.pc = "index" <=> log_lock' = s  BY <1>1, <2>1, <2>5, SubmitAssumption
    <3> QED  BY <1>1, <2>1, <2>3, <2>5, <3>1, ThreadChanges
  <2>7. \A q \in Threads : Answered(thread[q])'  BY <1>4, <2>1, <2>5, <2>6, OthersAnswered
  <2>8. pending' = [j \in DOMAIN pending \ {i} |-> pending[j]]
    BY <2>3 DEF Without, Restrict
  <2>9. ASSUME NEW j \in DOMAIN pending'
        PROVE  /\ thread'[pending'[j]].index = j /\ thread'[pending'[j]].pc \in {"commit", "wait"}
               /\ thread'[pending'[j]].promise = Null
    <3>1. j \in DOMAIN pending /\ j # i /\ pending'[j] = pending[j]  BY <2>8
    <3>2. pending[j] \in Threads /\ thread[pending[j]].index = j /\ thread[pending[j]].pc \in {"commit", "wait"}
          /\ thread[pending[j]].promise = Null
      BY <1>p, <3>1 DEF AnswerInv, PendingInv
    <3>3. pending[j] # s  BY <2>1, <2>w, <3>1, <3>2
    <3>4. thread'[pending[j]] = thread[pending[j]]  BY <2>6, <3>2, <3>3 DEF OneThread
    <3> QED  BY <3>1, <3>2, <3>4
  <2>10. PendingInv'  BY <1>1, <2>2, <2>9 DEF PendingInv
  <2>11. pending' \in [DOMAIN pending' -> Threads] /\ DOMAIN pending' \subseteq Nat
    BY <1>p, <2>8
  <2> QED  BY <1>1, <1>3, <2>6, <2>7, <2>10, <2>11 DEF OneThread, AnswerInv
<1>7. CASE ~(loop.kind = "apply" /\ i \in DOMAIN pending)
  <2>1. UNCHANGED <<thread, pending>>  BY <1>1, <1>7 DEF notify_request_applied
  <2>2. ThreadInv'  BY <1>1, <2>1 DEF ThreadInv
  <2>3. PendingInv'  BY <1>1, <2>1 DEF AnswerInv, PendingInv
  <2>4. ASSUME NEW s \in Threads PROVE Answered(thread[s])'
    <3>1. PICK q : q = thread[s]  OBVIOUS
    <3>2. Answered(q)  BY <3>1 DEF AnswerInv
    <3>3. Answered(q)'  BY <1>4, <3>2, AnsweredKept
    <3>4. thread'[s] = q  BY <2>1, <3>1
    <3> QED  BY <3>3, <3>4 DEF Answered, OwnReplies, Own
  <2> QED  BY <1>1, <1>3, <1>p, <2>1, <2>2, <2>3, <2>4 DEF AnswerInv
<1> QED  BY <1>6, <1>7

-----------------------------------------------------------------------------
(* The cache. *)
LEMMA CacheFrame ==
    ASSUME CacheInv, UNCHANGED <<cache, up>>, ghost'.exec = ghost.exec, used'.crashes = used.crashes
    PROVE  CacheInv'
BY DEF CacheInv, Own, Cached

(* The cache after gets. *)
LEMMA CacheRearranged ==
    ASSUME Types, CacheInv, Rearranged(cache, cache'), UNCHANGED up, ghost'.exec = ghost.exec,
           used'.crashes = used.crashes
    PROVE  CacheInv' /\ cache' \in Seq(Item)
<1>c. PICK c : c = cache  OBVIOUS
<1>d. PICK d : d = cache'  OBVIOUS
<1>x. PICK x : x = ghost.exec  OBVIOUS
<1>u. PICK life : life = used.crashes  OBVIOUS
<1>1. /\ d \in Seq(Item) /\ Distinct(d) /\ Len(d) = Len(c)
      /\ \A k \in DOMAIN c : \E j \in DOMAIN d : d[j] = c[k]
      /\ \A k \in DOMAIN d : \E j \in DOMAIN c : c[j] = d[k]
  BY <1>c, <1>d DEF Rearranged
<1>0. ghost'.exec = x /\ used'.crashes = life /\ up' = up  BY <1>x, <1>u
<1>2. ASSUME NEW k \in DOMAIN d
      PROVE  LET r == d[k].result
             IN  /\ r.id = d[k].id /\ r.n \in DOMAIN x /\ x[r.n].id = d[k].id /\ x[r.n].life = life
                 /\ \A m \in DOMAIN x : m > r.n => x[m].id # d[k].id
  <2>1. PICK j \in DOMAIN c : c[j] = d[k]  BY <1>1
  <2> QED  BY <2>1, <1>c, <1>x, <1>u DEF CacheInv, Own
<1>3. \A id : Cached(c, id) => Cached(d, id)
  <2> SUFFICES ASSUME NEW id, Cached(c, id) PROVE Cached(d, id)  OBVIOUS
  <2>1. PICK k \in DOMAIN c : c[k].id = id  BY DEF Cached
  <2>2. PICK j \in DOMAIN d : d[j] = c[k]  BY <1>1
  <2> QED  BY <2>1, <2>2 DEF Cached
<1>4. \A j, k \in DOMAIN d : d[j].id = d[k].id => j = k  BY <1>1 DEF Distinct
<1>5. Len(d) <= Capacity  BY <1>1, <1>c DEF CacheInv
<1>6. LET ids == {x[k].id : k \in {m \in DOMAIN x : x[m].life = life}}
      IN  up /\ Cardinality(ids) <= Capacity => \A id \in ids : Cached(d, id)
  <2>1. LET ids == {x[k].id : k \in {m \in DOMAIN x : x[m].life = life}}
        IN  up /\ Cardinality(ids) <= Capacity => \A id \in ids : Cached(c, id)
    BY <1>c, <1>x, <1>u DEF CacheInv
  <2> QED  BY <1>3, <2>1
<1>7. /\ ~up => \A k \in DOMAIN x : x[k].life # life
      /\ \A k \in DOMAIN x : x[k].life <= life
  BY <1>x, <1>u DEF CacheInv
<1>8. CacheInv'  BY <1>0, <1>2, <1>4, <1>5, <1>6, <1>7, <1>d DEF CacheInv, Own
<1> QED  BY <1>1, <1>8, <1>d

(* The ids in a list of different items are as many as the items. *)
LEMMA Different ==
    ASSUME NEW c \in Seq(Item), Distinct(c), NEW S, S = {c[k].id : k \in DOMAIN c}
    PROVE  IsFiniteSet(S) /\ Cardinality(S) = Len(c)
<1> DEFINE n == Len(c)
           f == [k \in 1..n |-> c[k].id]
<1>1. n \in Nat /\ DOMAIN c = 1..n  OBVIOUS
<1>2. IsFiniteSet(1..n) /\ Cardinality(1..n) = n  BY <1>1, FS_Interval
<1>3. f \in [1..n -> S] /\ \A s \in S : \E k \in 1..n : f[k] = s  BY <1>1
<1>4. \A j, k \in 1..n : f[j] = f[k] => j = k  BY <1>1 DEF Distinct
<1> HIDE DEF f
<1>5. f \in Surjection(1..n, S)  BY <1>3 DEF Surjection
<1>6. f \in Injection(1..n, S)  BY <1>3, <1>4 DEF Injection, IsInjective
<1> QED  BY <1>2, <1>5, <1>6, FS_Surjection

(* One more run and its result.  The cache drops an item only when more ids   *)
(* ran than it has room for.                                                  *)
LEMMA CacheApplies ==
    ASSUME Types, RunInv, CacheInv, ApplyOne
    PROVE  CacheInv' /\ cache' \in Seq(Item)
<1>i. PICK id : id = log.entries[Running].id  OBVIOUS
<1>r. PICK r : r = Ran  OBVIOUS
<1>x. PICK x : x = ghost.exec  OBVIOUS
<1>y. PICK y : y = ghost'.exec  OBVIOUS
<1>c. PICK c : c = cache  OBVIOUS
<1>d. PICK d : d = cache'  OBVIOUS
<1>u. PICK life : life = used.crashes  OBVIOUS
<1>1. /\ up /\ up' = up /\ used' = used /\ id \in Id /\ r \in Result /\ d = Put(c, id, r)
  BY <1>i, <1>r, <1>c, <1>d, ApplyFacts
<1>2. /\ x \in Seq(Run) /\ y \in Seq(Run) /\ Len(y) = Len(x) + 1
      /\ y[Len(y)].id = id /\ y[Len(y)].life = life
      /\ \A k \in 1..Len(x) : y[k] = x[k]
  BY <1>i, <1>x, <1>y, <1>u, ExecLonger
<1>3. r.id = id /\ r.n = Len(y)
  BY <1>2, <1>i, <1>r, <1>x DEF Ran
<1>4. /\ c \in Seq(Item) /\ Distinct(c) /\ Len(c) <= Capacity
      /\ \A k \in DOMAIN c :
            LET q == c[k].result
            IN  /\ q.id = c[k].id /\ q.n \in DOMAIN x /\ x[q.n].id = c[k].id /\ x[q.n].life = life
                /\ \A m \in DOMAIN x : m > q.n => x[m].id # c[k].id
      /\ \A k \in DOMAIN x : x[k].life <= life
  BY <1>c, <1>x, <1>u DEF Types, CacheInv, Distinct, Item, Own
<1>n. /\ Len(x) \in Nat /\ Len(y) \in Nat /\ DOMAIN x = 1..Len(x) /\ DOMAIN y = 1..(Len(x) + 1)
      /\ life \in Nat /\ Len(c) \in Nat /\ Capacity \in Nat \ {0}
  BY SMTT(30), <1>2, <1>4, <1>u, SubmitAssumption DEF Types
<1>5. /\ d \in Seq(Item) /\ Distinct(d) /\ Len(d) > 0 /\ Len(d) <= Capacity
      /\ d[1] = [id |-> id, result |-> r]
      /\ \A k \in DOMAIN d : k # 1 => \E j \in DOMAIN c : c[j] = d[k] /\ c[j].id # id
      /\ Cached(c, id) \/ Len(c) < Capacity =>
            \A j \in DOMAIN c : c[j].id # id => \E k \in DOMAIN d : d[k] = c[j]
  BY <1>1, <1>4, PutResult
<1>6. ASSUME NEW k \in DOMAIN d
      PROVE  LET q == d[k].result
             IN  /\ q.id = d[k].id /\ q.n \in DOMAIN y /\ y[q.n].id = d[k].id /\ y[q.n].life = life
                 /\ \A m \in DOMAIN y : m > q.n => y[m].id # d[k].id
  <2>1. CASE k = 1
    <3>1. d[k].id = id /\ d[k].result = r  BY <1>5, <2>1
    <3>2. r.n \in DOMAIN y /\ \A m \in DOMAIN y : ~(m > r.n)  BY <1>2, <1>3, <1>n
    <3> QED  BY <1>2, <1>3, <3>1, <3>2
  <2>2. CASE k # 1
    <3>1. PICK j \in DOMAIN c : c[j] = d[k] /\ c[j].id # id  BY <1>5, <2>2
    <3> DEFINE q == c[j].result
    <3>2. /\ q.id = c[j].id /\ q.n \in DOMAIN x /\ x[q.n].id = c[j].id /\ x[q.n].life = life
          /\ \A m \in DOMAIN x : m > q.n => x[m].id # c[j].id
      BY <1>4
    <3>q. d[k].result = q /\ d[k].id = c[j].id  BY <3>1
    <3> HIDE DEF q
    <3>3. q.n \in DOMAIN y /\ y[q.n] = x[q.n]  BY <1>2, <1>n, <3>2
    <3>4. ASSUME NEW m \in DOMAIN y, m > q.n PROVE y[m].id # c[j].id
      <4>1. CASE m \in DOMAIN x  BY <1>2, <1>n, <3>2, <3>4, <4>1
      <4>2. CASE m \notin DOMAIN x
        <5>1. m = Len(y)  BY <1>2, <1>n, <4>2
        <5> QED  BY <1>2, <3>1, <5>1
      <4> QED  BY <4>1, <4>2
    <3> QED  BY <3>2, <3>3, <3>4, <3>q
  <2> QED  BY <2>1, <2>2
<1> DEFINE old == {x[k].id : k \in {m \in DOMAIN x : x[m].life = life}}
           new == {y[k].id : k \in {m \in DOMAIN y : y[m].life = life}}
<1>7. new = old \cup {id}
  <2>1. ASSUME NEW e \in new PROVE e \in old \cup {id}
    <3>1. PICK k \in DOMAIN y : y[k].life = life /\ e = y[k].id  OBVIOUS
    <3>2. CASE k \in DOMAIN x  BY <1>2, <1>n, <3>1, <3>2
    <3>3. CASE k \notin DOMAIN x
      <4>1. k = Len(y)  BY <1>2, <1>n, <3>3
      <4> QED  BY <1>2, <3>1, <4>1
    <3> QED  BY <3>2, <3>3
  <2>2. ASSUME NEW e \in old PROVE e \in new
    <3>1. PICK k \in DOMAIN x : x[k].life = life /\ e = x[k].id  OBVIOUS
    <3>2. k \in DOMAIN y /\ y[k] = x[k]  BY <1>2, <1>n
    <3> QED  BY <3>1, <3>2
  <2>3. id \in new
    <3>1. Len(y) \in DOMAIN y  BY <1>2, <1>n
    <3> QED  BY <1>2, <3>1
  <2> HIDE DEF old, new
  <2> QED  BY <2>1, <2>2, <2>3
<1>8. IsFiniteSet(old) /\ IsFiniteSet(new) /\ Cardinality(old) \in Nat /\ Cardinality(new) \in Nat
      /\ Cardinality(old) <= Cardinality(new)
  <2> DEFINE D == {m \in DOMAIN x : x[m].life = life}
  <2>1. IsFiniteSet(D)
    <3>1. IsFiniteSet(1..Len(x))  BY <1>n, FS_Interval
    <3>2. D \in SUBSET (1..Len(x))  BY <1>n
    <3> HIDE DEF D
    <3> QED  BY <3>1, <3>2, FS_Subset
  <2>2. IsFiniteSet(old)
    <3> DEFINE f == [k \in D |-> x[k].id]
    <3>1. f \in [D -> old] /\ \A s \in old : \E k \in D : f[k] = s  OBVIOUS
    <3> HIDE DEF f, D, old
    <3>2. f \in Surjection(D, old)  BY <3>1 DEF Surjection
    <3> QED  BY <2>1, <3>2, FS_Surjection
  <2> HIDE DEF old, new
  <2>3. IsFiniteSet(new)  BY <1>7, <2>2, FS_AddElement
  <2>4. old \in SUBSET new  BY <1>7
  <2> QED  BY <2>2, <2>3, <2>4, FS_Subset, FS_CardinalityType
<1>9. Cardinality(old) <= Capacity => \A e \in old : Cached(c, e)
  <2>1. LET ids == {ghost.exec[k].id : k \in {m \in DOMAIN ghost.exec : ghost.exec[m].life = used.crashes}}
        IN  Cardinality(ids) <= Capacity => \A e \in ids : Cached(cache, e)
    BY <1>1 DEF CacheInv
  <2> QED  BY <2>1, <1>c, <1>x, <1>u
<1>10. \A k \in DOMAIN c : c[k].id \in old
  <2> TAKE k \in DOMAIN c
  <2> DEFINE m == c[k].result.n
  <2>1. m \in DOMAIN x /\ x[m].id = c[k].id /\ x[m].life = life  BY <1>4
  <2> HIDE DEF m
  <2> QED  BY <2>1
<1> HIDE DEF old, new
<1>11. ASSUME Cardinality(new) <= Capacity PROVE \A e \in new : Cached(d, e)
  <2>1. Cached(c, id) \/ Len(c) < Capacity
    <3> SUFFICES ASSUME ~Cached(c, id), ~(Len(c) < Capacity) PROVE FALSE  OBVIOUS
    <3> DEFINE S == {c[k].id : k \in DOMAIN c}
    <3>1. id \notin S  BY DEF Cached
    <3>2. S \cup {id} \in SUBSET new  BY <1>7, <1>10
    <3> HIDE DEF S
    <3>3. IsFiniteSet(S) /\ Cardinality(S) = Len(c)  BY <1>4, Different DEF S
    <3>4. Cardinality(S \cup {id}) = Len(c) + 1  BY <3>1, <3>3, FS_AddElement
    <3>5. Cardinality(S \cup {id}) <= Cardinality(new)  BY <1>8, <3>2, FS_Subset
    <3> QED  BY <1>8, <1>11, <1>n, <3>4, <3>5
  <2> TAKE e \in new
  <2>2. CASE e = id
    <3>1. 1 \in DOMAIN d /\ d[1].id = id  BY <1>5
    <3> QED  BY <2>2, <3>1 DEF Cached
  <2>3. CASE e # id
    <3>1. e \in old  BY <1>7, <2>3
    <3>2. Cardinality(old) <= Capacity  BY <1>8, <1>11, <1>n
    <3>3. PICK j \in DOMAIN c : c[j].id = e  BY <1>9, <3>1, <3>2 DEF Cached
    <3>4. PICK k \in DOMAIN d : d[k] = c[j]  BY <1>5, <2>1, <2>3, <3>3
    <3> QED  BY <3>3, <3>4 DEF Cached
  <2> QED  BY <2>2, <2>3
<1>12. ASSUME NEW k \in DOMAIN y PROVE y[k].life <= life
  <2>1. CASE k \in DOMAIN x  BY <1>2, <1>4, <1>n, <2>1
  <2>2. CASE k \notin DOMAIN x
    <3>1. k = Len(y)  BY <1>2, <1>n, <2>2
    <3> QED  BY <1>2, <1>n, <3>1
  <2> QED  BY <2>1, <2>2
<1>13. CacheInv'
  <2>1. ghost'.exec = y /\ used'.crashes = life /\ up' /\ cache' = d
    BY <1>1, <1>y, <1>u, <1>d
  <2>2. Cardinality(new) <= Capacity => \A e \in new : Cached(d, e)  BY <1>11
  <2>3. Len(d) <= Capacity /\ \A j, k \in DOMAIN d : d[j].id = d[k].id => j = k
    BY <1>5 DEF Distinct
  <2> QED  BY <2>1, <1>6, <2>2, <2>3, <1>12 DEF CacheInv, Own, new
<1> QED  BY <1>5, <1>13, <1>d

(* A crash, and the next life. *)
LEMMA CacheCrash ==
    ASSUME Types, CacheInv, Crash
    PROVE  CacheInv' /\ cache' \in Seq(Item)
<1>1. cache' = <<>> /\ ~up' /\ ghost' = ghost /\ used' = [used EXCEPT !.crashes = @ + 1]
  BY DEF Crash, Use
<1>2. used.crashes \in Nat /\ used'.crashes = used.crashes + 1  BY <1>1 DEF Types
<1>3. ASSUME NEW k \in DOMAIN ghost.exec PROVE ghost.exec[k].life \in Nat /\ ghost.exec[k].life <= used.crashes
  <2>1. ghost.exec \in Seq(Run)  BY DEF Types, Ghosts
  <2>2. k \in 1..Len(ghost.exec)  BY <2>1
  <2> QED  BY <2>1, <2>2, RunFields DEF CacheInv
<1>4. \A k \in DOMAIN ghost'.exec : ghost'.exec[k].life # used'.crashes /\ ghost'.exec[k].life <= used'.crashes
  BY <1>1, <1>2, <1>3
<1>5. cache' \in Seq(Item) /\ DOMAIN cache' = {} /\ Len(cache') = 0  BY <1>1
<1>6. Len(cache') <= Capacity  BY <1>5, SubmitAssumption
<1> QED  BY <1>1, <1>4, <1>5, <1>6 DEF CacheInv

(* A restarted process has an empty cache. *)
LEMMA CacheRestart ==
    ASSUME Types, ThreadInv, CacheInv, Restart
    PROVE  CacheInv'
<1>1. /\ ~up /\ up' /\ cache' = cache /\ ghost'.exec = ghost.exec /\ used' = used
  BY DEF Restart, Types, Ghosts
<1>2. cache = <<>>  BY <1>1 DEF ThreadInv
<1>3. {m \in DOMAIN ghost'.exec : ghost'.exec[m].life = used'.crashes} = {}  BY <1>1 DEF CacheInv
<1>4. DOMAIN cache' = {} /\ Len(cache') = 0  BY <1>1, <1>2
<1>5. Len(cache') <= Capacity  BY <1>4, SubmitAssumption
<1>6. \A k \in DOMAIN ghost'.exec : ghost'.exec[k].life <= used'.crashes  BY <1>1 DEF CacheInv
<1> QED  BY <1>1, <1>3, <1>4, <1>5, <1>6 DEF CacheInv

-----------------------------------------------------------------------------
(* The inductive invariant, action by action. *)
IInv == Types /\ ThreadInv /\ LogInv /\ RunInv /\ RanInv /\ CacheInv /\ AnswerInv

(* Or a write of the log's files failed and nobody saw. *)
Fields == {"exec", "misplaced", "failed", "lost", "dropped"}
WriteLost == DOMAIN ghost = Fields /\ ghost.lost

Pendings(p) == p \in [DOMAIN p -> Threads] /\ DOMAIN p \subseteq Nat
Loops == [by : Owner, kind : {"apply", "commit"}, at : Nat, upto : Nat]
Useds == [submits : Nat, crashes : Nat, failures : Nat]

(* The start of the process. *)
LEMMA InitHolds ==
    ASSUME Init
    PROVE  IInv
<1>1. \A t \in Threads : thread[t] = Idle  BY DEF Init
<1>2. /\ log = EmptyLog /\ log_lock = Null /\ loop = NoLoop /\ up = TRUE
      /\ commit = 0 /\ applied = 0 /\ meta = [commit |-> 0, applied |-> 0]
      /\ match = <<>> /\ pending = <<>> /\ cache = <<>>
      /\ used = [submits |-> 0, crashes |-> 0, failures |-> 0]
      /\ ghost = [exec |-> <<>>, misplaced |-> {}, failed |-> {}, lost |-> FALSE, dropped |-> FALSE]
      /\ confirm \in BOOLEAN /\ thread = [t \in Threads |-> Idle]
  BY SubmitAssumption DEF Init
<1>l. log \in Log
  <2> DEFINE a == <<>>
             b == <<>>
             c == <<>>
  <2>1. a \in Seq(Entry) /\ b \in Seq(Record) /\ c \in Seq(Nat)  OBVIOUS
  <2>2. log = [entries |-> a, base |-> 1, wal |-> b, index |-> c, rewound |-> TRUE]  BY <1>2 DEF EmptyLog
  <2> HIDE DEF a, b, c
  <2> QED  BY <2>1, <2>2 DEF Log
<1>e. log.entries = <<>> /\ log.wal = <<>> /\ log.index = <<>> /\ log.rewound = TRUE
  BY <1>2 DEF EmptyLog
<1>x. ghost.exec = <<>> /\ ghost.misplaced = {} /\ ghost.failed = {} /\ ~ghost.dropped /\ meta.applied = 0  BY <1>2
<1>n. NoLoop = [by |-> Null, kind |-> "apply", at |-> 0, upto |-> 0] /\ loop.by = Null  BY <1>2 DEF NoLoop
<1>3. Types
  <2>1. loop \in Loops  BY <1>2, <1>n DEF Loops, Owner
  <2>2. thread \in [Threads -> Thread]  BY <1>2, IdleThread
  <2>3. ghost \in Ghosts
    <3> DEFINE a == <<>>
    <3>1. a \in Seq(Run) /\ ghost = [exec |-> a, misplaced |-> {}, failed |-> {}, lost |-> FALSE, dropped |-> FALSE]  BY <1>2
    <3> HIDE DEF a
    <3> QED  BY <3>1 DEF Ghosts
  <2>4. match \in [DOMAIN match -> Nat] /\ DOMAIN match \subseteq Followers  BY <1>2
  <2>5. pending \in [DOMAIN pending -> Threads] /\ DOMAIN pending \subseteq Nat  BY <1>2
  <2>6. cache \in Seq([id : Id, result : Result])  BY <1>2
  <2>7. commit \in Nat /\ applied \in Nat /\ meta \in [commit : Nat, applied : Nat] /\ used \in Useds
        /\ log_lock \in Threads \cup {Null} /\ up \in BOOLEAN /\ confirm \in BOOLEAN
    BY <1>2 DEF Useds
  <2> QED  BY <1>l, <2>1, <2>2, <2>3, <2>4, <2>5, <2>6, <2>7 DEF Types, Loops, Useds
<1>4. ThreadInv
  <2>1. Sorted(Idle) /\ Idle.pc # "index"  BY DEF Sorted, Idle, Writing
  <2> QED  BY <1>1, <1>2, <2>1, SubmitAssumption DEF ThreadInv
<1>5. LogInv
  <2>1. FileInv  BY <1>e DEF FileInv
  <2>2. MemoryInv  BY <1>e, <1>x DEF MemoryInv, Unreadable, GivesUp
  <2>3. TailInv  BY <1>2, <1>e DEF TailInv, ftell
  <2> QED  BY <2>1, <2>2, <2>3 DEF LogInv
<1>6. RunInv
  <2>1. Reached = 0 /\ ~ThisLife  BY <1>2, <1>n, <1>x DEF Reached, ThisLife
  <2>2. IndexesInv  BY <1>2, <1>n, <1>x, <1>e DEF IndexesInv, LastIndex
  <2>3. OrderInv
    <3>1. Len(ghost.exec) = 0  BY <1>x
    <3>2. 1..0 = {} /\ 1..(0 - 1) = {}  OBVIOUS
    <3> QED  BY <1>2, <1>x, <2>1, <3>1, <3>2 DEF OrderInv
  <2> QED  BY <2>2, <2>3 DEF RunInv
<1>7. CacheInv
  <2>1. DOMAIN cache = {} /\ Len(cache) = 0 /\ DOMAIN ghost.exec = {}  BY <1>2, <1>x
  <2> QED  BY <1>2, <2>1, SubmitAssumption DEF CacheInv
<1>8. AnswerInv
  <2>1. Answered(Idle)  BY DEF Answered, Idle, OwnReplies, Awaiting
  <2>2. DOMAIN pending = {}  BY <1>2
  <2> QED  BY <1>1, <2>1, <2>2 DEF AnswerInv, PendingInv
<1>9. RanInv
  <2>1. DOMAIN ghost.exec = {}  BY <1>x
  <2> QED  BY <2>1 DEF RanInv
<1> QED  BY <1>3, <1>4, <1>5, <1>6, <1>7, <1>8, <1>9 DEF IInv

(* A thread by itself. *)
LEMMA Quiet ==
    ASSUME IInv, NEW t \in Threads, Alone(t), UNCHANGED <<loop, commit, applied, meta, match>>,
           cache' = cache \/ Rearranged(cache, cache'), PendingInv', Pendings(pending'), used' \in Useds
    PROVE  IInv'
<1>1. /\ thread' \in [Threads -> Thread] /\ ThreadInv' /\ LogInv'
      /\ \A s \in Threads : Answered(thread[s])'
  BY AloneStep DEF IInv
<1>2. UNCHANGED <<log, log_lock, up, ghost, confirm>> /\ used'.crashes = used.crashes  BY DEF Alone
<1>3. AnswerInv'  BY <1>1 DEF AnswerInv
<1>4. RunInv'  BY <1>2, RunFrame DEF IInv
<1>5. CacheInv' /\ cache' \in Seq(Item)
  <2>1. CASE cache' = cache
    <3>1. cache \in Seq(Item)  BY DEF IInv, Types, Item
    <3> QED  BY <1>2, <2>1, <3>1, CacheFrame DEF IInv
  <2>2. CASE Rearranged(cache, cache')  BY <1>2, <2>2, CacheRearranged DEF IInv
  <2> QED  BY <2>1, <2>2
<1>6. Types'
  BY <1>1, <1>2, <1>5 DEF IInv, Types, Item, Pendings, Useds
<1>7. RanInv'  BY <1>2, RanKept DEF IInv
<1> QED  BY <1>1, <1>3, <1>4, <1>5, <1>6, <1>7 DEF IInv

(* pending_requests_ when a thread moves that is not in it. *)
LEMMA QuietPending ==
    ASSUME IInv, NEW t \in Threads, Alone(t), UNCHANGED pending, thread[t].pc \notin {"commit", "wait"}
    PROVE  PendingInv' /\ Pendings(pending')
<1>1. PendingInv'  BY PendingFrame DEF IInv
<1>2. Pendings(pending')  BY DEF IInv, Types, Pendings
<1> QED  BY <1>1, <1>2

(* Every get rearranges the cache. *)
LEMMA CacheTouched ==
    ASSUME IInv
    PROVE  /\ \A id \in Id : Rearranged(cache, Touch(cache, id))
           /\ \A ids \in Seq(Id) : Rearranged(cache, TouchAll(cache, ids))
<1>1. cache \in Seq(Item) /\ Distinct(cache)  BY DEF IInv, Types, Item, CacheInv, Distinct
<1> QED  BY <1>1, TouchResult, TouchAllResult

(* The counters that bound events stay counters. *)
LEMMA UsedMore ==
    ASSUME Types
    PROVE  used \in Useds /\ \A what \in {"submits", "crashes", "failures"} : Use(what) => used' \in Useds
<1>1. used \in Useds  BY DEF Types, Useds
<1>2. Use("submits") => used' \in Useds  BY <1>1 DEF Useds, Use
<1>3. Use("crashes") => used' \in Useds  BY <1>1 DEF Useds, Use
<1>4. Use("failures") => used' \in Useds  BY <1>1 DEF Useds, Use
<1> QED  BY <1>1, <1>2, <1>3, <1>4

LEMMA SubmitHolds ==
    ASSUME IInv, NEW t \in Threads, NEW c \in Commands, Submit(t, c)
    PROVE  IInv'
<1>1. Alone(t)  BY SubmitAlone DEF IInv
<1>2. /\ thread[t].pc = "idle" /\ UNCHANGED <<loop, commit, applied, meta, match, pending>>
      /\ cache' = Touch(cache, c.id) /\ Use("submits")
  BY DEF Submit
<1>3. c.id \in Id  BY RequestTypes
<1>4. Rearranged(cache, cache')  BY <1>2, <1>3, CacheTouched
<1>5. PendingInv' /\ Pendings(pending')  BY <1>1, <1>2, QuietPending
<1>6. used' \in Useds  BY <1>2, UsedMore DEF IInv
<1> QED  BY <1>1, <1>2, <1>4, <1>5, <1>6, Quiet

LEMMA SubmitBatchHolds ==
    ASSUME IInv, NEW t \in Threads, NEW b \in Batches, SubmitBatch(t, b)
    PROVE  IInv'
<1>1. Alone(t)  BY SubmitBatchAlone DEF IInv
<1>2. /\ thread[t].pc = "idle" /\ UNCHANGED <<loop, commit, applied, meta, match, pending, cache>>
      /\ Use("submits")
  BY DEF SubmitBatch
<1>5. PendingInv' /\ Pendings(pending')  BY <1>1, <1>2, QuietPending
<1>6. used' \in Useds  BY <1>2, UsedMore DEF IInv
<1> QED  BY <1>1, <1>2, <1>5, <1>6, Quiet

LEMMA ScanHolds ==
    ASSUME IInv, NEW t \in Threads, Scan(t)
    PROVE  IInv'
<1>1. Alone(t)  BY ScanAlone DEF IInv
<1> DEFINE w == thread[t]
<1>2. /\ w.pc = "scan" /\ UNCHANGED <<loop, commit, applied, meta, match, pending, used>>
      /\ cache' = IF w.todo = <<>> THEN cache ELSE Touch(cache, Head(w.todo).id)
  BY DEF Scan
<1>3. w.todo # <<>> => Head(w.todo).id \in Id
  <2>1. w.todo \in Seq(Requests)  BY DEF IInv, Types, Thread
  <2>2. w.todo # <<>> => Head(w.todo) \in Requests  BY <2>1
  <2> QED  BY <2>2, RequestTypes
<1>4. cache' = cache \/ Rearranged(cache, cache')  BY <1>2, <1>3, CacheTouched
<1>5. PendingInv' /\ Pendings(pending')  BY <1>1, <1>2, QuietPending
<1>6. used' \in Useds  BY <1>2, UsedMore DEF IInv
<1> QED  BY <1>1, <1>2, <1>4, <1>5, <1>6, Quiet

LEMMA BatchReadHolds ==
    ASSUME IInv, NEW t \in Threads, BatchRead(t)
    PROVE  IInv'
<1>1. Alone(t)  BY BatchReadAlone DEF IInv
<1>2. /\ thread[t].pc = "read" /\ UNCHANGED <<loop, commit, applied, meta, match, pending, cache, used>>
  BY DEF BatchRead
<1>5. PendingInv' /\ Pendings(pending')  BY <1>1, <1>2, QuietPending
<1>6. used' \in Useds  BY <1>2, UsedMore DEF IInv
<1> QED  BY <1>1, <1>2, <1>5, <1>6, Quiet

LEMMA ReplyHolds ==
    ASSUME IInv, NEW t \in Threads, Reply(t)
    PROVE  IInv'
<1>1. Alone(t)  BY ReplyAlone DEF IInv
<1>2. /\ thread[t].pc = "done" /\ UNCHANGED <<loop, commit, applied, meta, match, pending, cache, used>>
  BY DEF Reply
<1>5. PendingInv' /\ Pendings(pending')  BY <1>1, <1>2, QuietPending
<1>6. used' \in Useds  BY <1>2, UsedMore DEF IInv
<1> QED  BY <1>1, <1>2, <1>5, <1>6, Quiet

LEMMA RegisterHolds ==
    ASSUME IInv, NEW t \in Threads, Register(t)
    PROVE  IInv'
<1>1. Alone(t)  BY RegisterAlone DEF IInv
<1>2. UNCHANGED <<loop, commit, applied, meta, match, cache, used>>
  BY DEF Register
<1>5. PendingInv' /\ Pendings(pending')  BY PendingRegister DEF IInv, Pendings
<1>6. used' \in Useds  BY <1>2, UsedMore DEF IInv
<1> QED  BY <1>1, <1>2, <1>5, <1>6, Quiet

LEMMA NotifiedHolds ==
    ASSUME IInv, NEW t \in Threads, Notified(t)
    PROVE  IInv'
<1>1. Alone(t)  BY NotifiedAlone DEF IInv
<1>2. /\ UNCHANGED <<loop, commit, applied, meta, match, pending, used>>
      /\ cache' = cache \/ cache' = TouchAll(cache, Ids(thread[t].group))
  BY DEF Notified
<1>3. Ids(thread[t].group) \in Seq(Id)
  <2>1. thread[t].group \in Seq(Requests)  BY DEF IInv, Types, Thread
  <2> QED  BY <2>1, RequestTypes
<1>4. cache' = cache \/ Rearranged(cache, cache')  BY <1>2, <1>3, CacheTouched
<1>5. PendingInv' /\ Pendings(pending')
  <2>1. PendingInv'  BY <1>1, PendingNotified DEF IInv
  <2> QED  BY <1>2, <2>1 DEF IInv, Types, Pendings
<1>6. used' \in Useds  BY <1>2, UsedMore DEF IInv
<1> QED  BY <1>1, <1>2, <1>4, <1>5, <1>6, Quiet

LEMMA TimeoutHolds ==
    ASSUME IInv, NEW t \in Threads, Timeout(t)
    PROVE  IInv'
<1>1. Alone(t)  BY TimeoutAlone DEF IInv
<1>2. /\ UNCHANGED <<loop, commit, applied, meta, match, used>>
      /\ cache' = cache \/ cache' = TouchAll(cache, Ids(thread[t].group))
  BY DEF Timeout
<1>3. Ids(thread[t].group) \in Seq(Id)
  <2>1. thread[t].group \in Seq(Requests)  BY DEF IInv, Types, Thread
  <2> QED  BY <2>1, RequestTypes
<1>4. cache' = cache \/ Rearranged(cache, cache')  BY <1>2, <1>3, CacheTouched
<1>5. PendingInv' /\ Pendings(pending')  BY <1>1, PendingTimeout DEF IInv, Pendings
<1>6. used' \in Useds  BY <1>2, UsedMore DEF IInv
<1> QED  BY <1>1, <1>2, <1>4, <1>5, <1>6, Quiet

LEMMA CollectCommittedHolds ==
    ASSUME IInv, NEW t \in Threads, CollectCommitted(t)
    PROVE  IInv'
<1>1. Alone(t)  BY CollectCommittedAlone DEF IInv
<1>2. /\ thread[t].pc = "harvest" /\ UNCHANGED <<loop, commit, applied, meta, match, pending, used>>
      /\ cache' = TouchAll(cache, Ids(thread[t].group))
  BY DEF CollectCommitted
<1>3. Ids(thread[t].group) \in Seq(Id)
  <2>1. thread[t].group \in Seq(Requests)  BY DEF IInv, Types, Thread
  <2> QED  BY <2>1, RequestTypes
<1>4. Rearranged(cache, cache')  BY <1>2, <1>3, CacheTouched
<1>5. PendingInv' /\ Pendings(pending')  BY <1>1, <1>2, QuietPending
<1>6. used' \in Useds  BY <1>2, UsedMore DEF IInv
<1> QED  BY <1>1, <1>2, <1>4, <1>5, <1>6, Quiet

LEMMA CommitHolds ==
    ASSUME IInv, NEW t \in Threads, Commit(t)
    PROVE  IInv'
<1>1. Alone(t)  BY CommitAlone DEF IInv
<1>2. /\ thread' \in [Threads -> Thread] /\ ThreadInv' /\ LogInv'
      /\ \A s \in Threads : Answered(thread[s])'
  BY <1>1, AloneStep DEF IInv
<1>3. UNCHANGED <<log, log_lock, up, ghost, confirm, applied, match, pending, cache, used>>
  BY DEF Commit
<1>4. RunInv' /\ loop' \in Loops /\ commit' \in Nat /\ meta' \in [commit : Nat, applied : Nat]
  BY RunCommit DEF IInv, Loops
<1>5. AnswerInv'  BY <1>2, PendingCommit DEF IInv, AnswerInv
<1>6. CacheInv'  BY <1>3, CacheFrame DEF IInv
<1>7. Types'  BY <1>2, <1>3, <1>4 DEF IInv, Types, Loops
<1>8. RanInv'  BY <1>3, RanKept DEF IInv
<1> QED  BY <1>2, <1>4, <1>5, <1>6, <1>7, <1>8 DEF IInv

LEMMA AppendWalHolds ==
    ASSUME IInv, NEW t \in Threads, AppendWal(t)
    PROVE  IInv'
<1>e. PICK es : es = NewEntries(t)  OBVIOUS
<1>o. PICK o : o = FileEnd(log)  OBVIOUS
<1>1. thread' \in [Threads -> Thread] /\ ThreadInv' /\ AnswerInv'  BY AnswerAppendWal DEF IInv
<1>2. LogInv' /\ log' \in Log /\ Kept(log.wal, log'.wal) /\ log'.index = log.index
  <2>1. PICK wal : wal = log.wal  OBVIOUS
  <2>2. PICK new : new = log'.wal  OBVIOUS
  <2> QED  BY <1>e, <1>o, <2>1, <2>2, LogAppendWal DEF IInv
<1>3. /\ UNCHANGED <<loop, commit, applied, meta, match, pending, cache, confirm, up, used>>
      /\ log_lock' = t
      /\ ghost' = [ghost EXCEPT !.misplaced = IF ftell(log) = FileEnd(log) THEN @
            ELSE @ \cup {es[k].index : k \in DOMAIN es}]
  BY <1>e DEF AppendWal
<1>4. /\ es \in Seq(Entry) /\ Len(es) \in Nat \ {0}
      /\ \A k \in 1..Len(es) : es[k].index = Len(log.entries) + k
      /\ log.entries \in Seq(Entry)
  <2>1. log.entries \in Seq(Entry)  BY DEF IInv, Types, Log
  <2> QED  BY <1>e, <1>o, <2>1, AppendWalFacts DEF IInv
<1>5. /\ ghost'.exec = ghost.exec
      /\ ghost' \in Ghosts
  <2>1. ghost \in Ghosts  BY DEF IInv, Types
  <2>2. {es[k].index : k \in DOMAIN es} \in SUBSET Nat
    <3>1. ASSUME NEW k \in DOMAIN es PROVE es[k].index \in Nat
      <4>1. k \in 1..Len(es) /\ k \in Nat /\ Len(log.entries) \in Nat  BY <1>4
      <4> QED  BY <1>4, <4>1
    <3> QED  BY <3>1
  <2> DEFINE more == IF ftell(log) = FileEnd(log) THEN ghost.misplaced
                     ELSE ghost.misplaced \cup {es[k].index : k \in DOMAIN es}
  <2>3. more \in SUBSET Nat  BY <2>1, <2>2 DEF Ghosts
  <2>4. ghost' = [ghost EXCEPT !.misplaced = more]  BY <1>3
  <2> HIDE DEF more
  <2> QED  BY <2>1, <2>3, <2>4 DEF Ghosts
<1>6. log'.entries = log.entries
  <2>1. log' = [entries |-> log.entries, base |-> log.base, index |-> log.index, rewound |-> FALSE,
                wal |-> log.wal \o [i \in 1..Len(es) |-> [at |-> Offsets(o, es)[i], entry |-> es[i]]]]
    BY <1>e, <1>o, AppendWalLog DEF IInv
  <2> QED  BY <2>1
<1>7. RunInv'
  <2>1. log \in Log  BY DEF IInv, Types
  <2>2. LastIndex(log') = LastIndex(log) /\ LastIndex(log) \in Nat  BY <1>2, <1>6, <2>1, LastIndexIs
  <2>3. LastIndex(log) <= LastIndex(log')  BY <2>2
  <2> QED  BY <1>2, <1>3, <1>5, <2>3, RunLonger DEF IInv
<1>8. CacheInv'  BY <1>3, <1>5, CacheFrame DEF IInv
<1>9. Types'  BY <1>1, <1>2, <1>3, <1>5 DEF IInv, Types
<1>10. RanInv'
  <2>1. Kept(log.index, log'.index)  BY <1>2 DEF Kept
  <2>2. ghost.misplaced \subseteq ghost'.misplaced /\ ghost'.dropped = ghost.dropped
    BY <1>3 DEF IInv, Types, Ghosts
  <2> QED  BY <1>2, <1>5, <2>1, <2>2, RanFrame DEF IInv
<1> QED  BY <1>1, <1>2, <1>7, <1>8, <1>9, <1>10 DEF IInv

LEMMA AppendFailsHolds ==
    ASSUME IInv, NEW t \in Threads, AppendFails(t)
    PROVE  IInv'
<1>1. /\ thread' \in [Threads -> Thread] /\ ThreadInv' /\ AnswerInv'
      /\ ghost'.exec = ghost.exec /\ ghost'.misplaced = ghost.misplaced
      /\ ghost' \in Ghosts /\ ghost'.dropped = ghost.dropped
  BY AnswerAppendFails DEF IInv
<1>2. /\ UNCHANGED <<log, log_lock, loop, commit, applied, meta, match, pending, cache, confirm, up>>
      /\ log_lock = Null /\ Use("failures") /\ used'.crashes = used.crashes
  BY DEF AppendFails, Use, IInv, Types
<1>3. LogInv'  BY <1>1, <1>2, LogFrame DEF IInv
<1>4. RunInv'
  <2>1. log' \in Log /\ log \in Log  BY <1>2 DEF IInv, Types
  <2>2. LastIndex(log) <= LastIndex(log')  BY <1>2, <2>1, LastIndexIs
  <2> QED  BY <1>1, <1>2, <2>1, <2>2, RunLonger DEF IInv
<1>5. CacheInv'  BY <1>1, <1>2, CacheFrame DEF IInv
<1>6. used' \in Useds  BY <1>2, UsedMore DEF IInv
<1>7. Types'  BY <1>1, <1>2, <1>6 DEF IInv, Types, Useds
<1>8. RanInv'  BY <1>1, <1>2, RanKept DEF IInv
<1> QED  BY <1>1, <1>3, <1>4, <1>5, <1>7, <1>8 DEF IInv

LEMMA AppendIndexHolds ==
    ASSUME IInv, NEW t \in Threads, AppendIndex(t)
    PROVE  IInv'
<1>e. PICK es : es = NewEntries(t)  OBVIOUS
<1>f. PICK f : f = Offsets(thread[t].index, es)  OBVIOUS
<1>1. thread' \in [Threads -> Thread] /\ ThreadInv' /\ AnswerInv'  BY AnswerAppendIndex DEF IInv
<1>2. LogInv' /\ log' \in Log /\ LastIndex(log) <= LastIndex(log')
      /\ Kept(log.index, log'.index) /\ log'.wal = log.wal
  BY <1>e, <1>f, LogAppendIndex DEF IInv
<1>3. /\ UNCHANGED <<loop, commit, applied, meta, match, pending, cache, confirm, up, used, ghost>>
      /\ log_lock' = Null
  BY DEF AppendIndex
<1>4. RunInv'  BY <1>2, <1>3, RunLonger DEF IInv
<1>5. CacheInv'  BY <1>3, CacheFrame DEF IInv
<1>6. Types'  BY <1>1, <1>2, <1>3 DEF IInv, Types
<1>7. RanInv'
  <2>1. Kept(log.wal, log'.wal)  BY <1>2 DEF Kept
  <2> QED  BY <1>2, <1>3, <2>1, RanFrame DEF IInv
<1> QED  BY <1>1, <1>2, <1>4, <1>5, <1>6, <1>7 DEF IInv

(* A write that fails unnoticed, and every step after one. *)
LEMMA LostHolds ==
    ASSUME IInv, NEW t \in Threads, AppendWalLost(t) \/ AppendIndexLost(t)
    PROVE  WriteLost'
<1>1. ghost' = [ghost EXCEPT !.lost = TRUE]  BY DEF AppendWalLost, AppendIndexLost
<1>2. ghost \in Ghosts  BY DEF IInv, Types
<1> QED  BY <1>1, <1>2 DEF WriteLost, Fields, Ghosts

LEMMA LostStays ==
    ASSUME WriteLost, [Next]_vars
    PROVE  WriteLost'
<1> DEFINE Some == \E name \in Fields : \E x :
                      (name = "lost" => x = TRUE) /\ ghost' = [ghost EXCEPT ![name] = x]
<1>1. ASSUME ghost' = ghost \/ Some PROVE WriteLost'
  <2>1. CASE ghost' = ghost  BY <2>1 DEF WriteLost
  <2>2. CASE Some
    <3>1. PICK name \in Fields : \E x :
                   (name = "lost" => x = TRUE) /\ ghost' = [ghost EXCEPT ![name] = x]
      BY <2>2
    <3>2. PICK x : (name = "lost" => x = TRUE) /\ ghost' = [ghost EXCEPT ![name] = x]
      BY <3>1
    <3> QED  BY <3>2 DEF WriteLost, Fields
  <2> QED  BY <1>1, <2>1, <2>2
<1>2. ASSUME NEW t \in Threads, AppendWal(t) PROVE WriteLost'
  BY <1>1, <1>2 DEF AppendWal, Fields
<1>3. ASSUME NEW t \in Threads, AppendFails(t) PROVE WriteLost'
  BY <1>1, <1>3 DEF AppendFails, Fields
<1>4. ASSUME NEW t \in Threads, AppendWalLost(t) \/ AppendIndexLost(t) PROVE WriteLost'
  BY <1>1, <1>4 DEF AppendWalLost, AppendIndexLost, Fields
<1>5. ASSUME ApplyOne PROVE WriteLost'  BY <1>1, <1>5 DEF ApplyOne, Fields
<1>6. ASSUME Restart PROVE WriteLost'  BY <1>1, <1>6 DEF Restart, Fields
<1>7. ASSUME ApplyDone \/ Crash \/ UNCHANGED vars PROVE WriteLost'
  BY <1>1, <1>7 DEF ApplyDone, Crash, vars
<1>8. ASSUME NEW f \in Followers, Join(f) \/ Ack(f) PROVE WriteLost'
  BY <1>1, <1>8 DEF Join, Ack
<1>9. ASSUME NEW t \in Threads, NEW c \in Commands, Submit(t, c) PROVE WriteLost'
  BY <1>1, <1>9 DEF Submit
<1>10. ASSUME NEW t \in Threads, NEW b \in Batches, SubmitBatch(t, b) PROVE WriteLost'
  BY <1>1, <1>10 DEF SubmitBatch
<1>11. ASSUME NEW t \in Threads, Scan(t) \/ BatchRead(t) \/ Reply(t) \/ AppendIndex(t) \/ Register(t)
       PROVE  WriteLost'
  BY <1>1, <1>11 DEF Scan, BatchRead, Reply, AppendIndex, Register
<1>12. ASSUME NEW t \in Threads, Commit(t) \/ Notified(t) \/ Timeout(t) \/ CollectCommitted(t)
       PROVE  WriteLost'
  BY <1>1, <1>12 DEF Commit, Notified, Timeout, CollectCommitted
<1> QED  BY <1>2, <1>3, <1>4, <1>5, <1>6, <1>7, <1>8, <1>9, <1>10, <1>11, <1>12 DEF Next

(* The loops. *)
LEMMA ApplyOneHolds ==
    ASSUME IInv, ApplyOne
    PROVE  IInv'
<1>1. /\ thread' \in [Threads -> Thread] /\ ThreadInv' /\ AnswerInv'
      /\ pending' \in [DOMAIN pending' -> Threads] /\ DOMAIN pending' \subseteq Nat
      /\ ghost' \in Ghosts
      /\ ghost'.misplaced = ghost.misplaced /\ ghost'.dropped = ghost.dropped
  BY AnswerApplies DEF IInv
<1>2. /\ UNCHANGED <<log, log_lock, commit, meta, match, confirm, up, used>>
      /\ log_lock = Null
  BY DEF ApplyOne
<1>3. LogInv'  BY <1>1, <1>2, LogFrame DEF IInv
<1>4. RunInv' /\ loop' \in Loops /\ applied' \in Nat
  <2>1. PICK x : x = ghost.exec  OBVIOUS
  <2>2. PICK y : y = ghost'.exec  OBVIOUS
  <2> QED  BY <2>1, <2>2, RunApplies DEF IInv, Loops
<1>5. CacheInv' /\ cache' \in Seq(Item)  BY CacheApplies DEF IInv
<1>6. Types'  BY <1>1, <1>2, <1>4, <1>5 DEF IInv, Types, Loops, Item
<1>7. RanInv'  BY RanApplies DEF IInv
<1> QED  BY <1>1, <1>3, <1>4, <1>5, <1>6, <1>7 DEF IInv

(* Steps that change no thread. *)
LEMMA ThreadsSame ==
    ASSUME IInv, UNCHANGED <<log, log_lock, thread, pending, cache, confirm, up, used, ghost>>,
           up
    PROVE  ThreadInv' /\ LogInv' /\ RanInv' /\ CacheInv' /\ AnswerInv'
<1>1. ThreadInv'  BY DEF IInv, ThreadInv
<1>2. LogInv'  BY LogFrame DEF IInv
<1>3. CacheInv'  BY CacheFrame DEF IInv
<1>4. PendingInv'  BY DEF IInv, AnswerInv, PendingInv
<1>5. \A s \in Threads : Answered(thread[s])'
  BY DEF IInv, AnswerInv, Answered, OwnReplies, Own
<1>6. RanInv'  BY RanKept DEF IInv
<1> QED  BY <1>1, <1>2, <1>3, <1>4, <1>5, <1>6 DEF AnswerInv

LEMMA ApplyDoneHolds ==
    ASSUME IInv, ApplyDone
    PROVE  IInv'
<1>1. /\ up /\ UNCHANGED <<log, log_lock, commit, match, pending, cache, thread, confirm, up, used, ghost>>
  BY DEF ApplyDone
<1>2. ThreadInv' /\ LogInv' /\ RanInv' /\ CacheInv' /\ AnswerInv'  BY <1>1, ThreadsSame
<1>3. RunInv' /\ loop' \in Loops /\ applied' \in Nat /\ meta' \in [commit : Nat, applied : Nat]
  BY RunDone DEF IInv, Loops
<1>4. Types'  BY <1>1, <1>3 DEF IInv, Types, Loops
<1> QED  BY <1>2, <1>3, <1>4 DEF IInv

LEMMA JoinHolds ==
    ASSUME IInv, NEW f \in Followers, Join(f)
    PROVE  IInv'
<1>1. /\ up /\ UNCHANGED <<log, log_lock, loop, commit, applied, meta, pending, cache, thread,
                           confirm, up, used, ghost>>
  BY DEF Join, Serving
<1>2. ThreadInv' /\ LogInv' /\ RanInv' /\ CacheInv' /\ AnswerInv'  BY <1>1, ThreadsSame
<1>3. RunInv' /\ match' \in [DOMAIN match' -> Nat] /\ DOMAIN match' \subseteq Followers
  BY RunJoin DEF IInv
<1>4. Types'  BY <1>1, <1>3 DEF IInv, Types
<1> QED  BY <1>2, <1>3, <1>4 DEF IInv

LEMMA AckHolds ==
    ASSUME IInv, NEW f \in Followers, Ack(f)
    PROVE  IInv'
<1>1. /\ up /\ UNCHANGED <<log, log_lock, applied, pending, cache, thread, confirm, up, used, ghost>>
  BY DEF Ack, Serving
<1>2. ThreadInv' /\ LogInv' /\ RanInv' /\ CacheInv' /\ AnswerInv'  BY <1>1, ThreadsSame
<1>3. /\ RunInv' /\ match' \in [DOMAIN match' -> Nat] /\ DOMAIN match' \subseteq Followers
      /\ loop' \in Loops /\ commit' \in Nat /\ meta' \in [commit : Nat, applied : Nat]
  BY RunAck DEF IInv, Loops
<1>4. Types'  BY <1>1, <1>3 DEF IInv, Types, Loops
<1> QED  BY <1>2, <1>3, <1>4 DEF IInv

(* A crash and a restart. *)
LEMMA IdleSorted == Sorted(Idle) /\ Idle.pc = "idle" /\ Answered(Idle)
<1>1. Sorted(Idle) /\ Idle.pc = "idle"  BY DEF Sorted, Idle, Writing
<1>2. Answered(Idle)  BY DEF Answered, Idle, OwnReplies, Awaiting
<1> QED  BY <1>1, <1>2

LEMMA CrashHolds ==
    ASSUME IInv, Crash
    PROVE  IInv'
<1>1. /\ ~up' /\ log_lock' = Null /\ loop' = NoLoop /\ match' = <<>> /\ pending' = <<>> /\ cache' = <<>>
      /\ thread' = [t \in Threads |-> Idle] /\ commit' = 0 /\ applied' = 0 /\ up' = FALSE
      /\ Use("crashes") /\ UNCHANGED <<meta, confirm, ghost>>
      /\ log' = [log EXCEPT !.entries = <<>>, !.base = 1]
  BY DEF Crash
<1>2. LogInv' /\ log' \in Log /\ log'.wal = log.wal /\ log'.index = log.index  BY LogCrash DEF IInv
<1>3. RunInv'  BY RunCrash DEF IInv
<1>4. CacheInv' /\ cache' \in Seq(Item)  BY CacheCrash DEF IInv
<1>5. \A t \in Threads : thread'[t] = Idle  BY <1>1
<1>6. log'.entries = <<>>  BY <1>1 DEF IInv, Types, Log
<1>7. ThreadInv'  BY <1>1, <1>5, <1>6, IdleSorted, SubmitAssumption DEF ThreadInv
<1>8. AnswerInv'
  <2>1. PendingInv'  BY <1>1 DEF PendingInv
  <2>2. ASSUME NEW t \in Threads PROVE Answered(thread[t])'
    <3>1. thread'[t] = Idle  BY <1>5
    <3> QED  BY <3>1 DEF Answered, Idle, OwnReplies, Awaiting
  <2> QED  BY <2>1, <2>2 DEF AnswerInv
<1>9. used' \in Useds  BY <1>1, UsedMore DEF IInv
<1>10. Types'
  <2>1. loop' \in Loops  BY <1>1 DEF Loops, NoLoop, Owner
  <2>2. thread' \in [Threads -> Thread]  BY <1>1, IdleThread
  <2>3. match' \in [DOMAIN match' -> Nat] /\ DOMAIN match' \subseteq Followers  BY <1>1
  <2>4. pending' \in [DOMAIN pending' -> Threads] /\ DOMAIN pending' \subseteq Nat  BY <1>1
  <2> QED  BY <1>1, <1>2, <1>4, <1>9, <2>1, <2>2, <2>3, <2>4 DEF IInv, Types, Loops, Useds, Item
<1>11. RanInv'  BY <1>1, <1>2, RanKept DEF IInv
<1> QED  BY <1>2, <1>3, <1>4, <1>7, <1>8, <1>10, <1>11 DEF IInv

LEMMA RestartHolds ==
    ASSUME IInv, Restart
    PROVE  IInv'
<1>1. /\ ~up /\ up' /\ up' = TRUE
      /\ UNCHANGED <<log_lock, meta, match, pending, cache, thread, confirm, used>>
      /\ ghost'.exec = ghost.exec /\ ghost'.misplaced = ghost.misplaced
      /\ (ghost.dropped => ghost'.dropped) /\ ghost' \in Ghosts
  BY DEF Restart, IInv, Types, Ghosts, GivesUp
<1>2. LogInv' /\ log' \in Log /\ log'.wal = log.wal /\ log'.index = log.index  BY LogRestart DEF IInv
<1>3. RunInv' /\ loop' \in Loops /\ applied' \in Nat /\ commit' \in Nat
  BY <1>2, RunRestart DEF IInv, Loops
<1>4. CacheInv'  BY CacheRestart DEF IInv
<1>5. \A t \in Threads : thread'[t] = Idle  BY <1>1 DEF IInv, ThreadInv
<1>6. ThreadInv'  BY <1>1 DEF IInv, ThreadInv
<1>7. AnswerInv'
  <2>0. pending = <<>>  BY <1>1 DEF IInv, ThreadInv
  <2>1. PendingInv'  BY <1>1, <2>0 DEF PendingInv
  <2>2. ASSUME NEW t \in Threads PROVE Answered(thread[t])'
    <3>1. thread'[t] = Idle  BY <1>5
    <3> QED  BY <3>1 DEF Answered, Idle, OwnReplies, Awaiting
  <2> QED  BY <2>1, <2>2 DEF AnswerInv
<1>8. Types'  BY <1>1, <1>2, <1>3 DEF IInv, Types, Loops
<1>9. RanInv'  BY <1>1, <1>2, RanKept DEF IInv
<1> QED  BY <1>2, <1>3, <1>4, <1>6, <1>7, <1>8, <1>9 DEF IInv

-----------------------------------------------------------------------------
(* The theorems. *)
LEMMA StutterHolds ==
    ASSUME IInv, UNCHANGED vars
    PROVE  IInv'
<1>1. UNCHANGED <<log, log_lock, loop, commit, applied, meta, match, pending, cache,
                  thread, confirm, up, used, ghost>>
  BY DEF vars
<1>2. Types'  BY <1>1 DEF IInv, Types
<1>3. ThreadInv'  BY <1>1 DEF IInv, ThreadInv
<1>4. LogInv'  BY <1>1, LogFrame DEF IInv
<1>5. RunInv'  BY <1>1, RunFrame DEF IInv
<1>6. CacheInv'  BY <1>1, CacheFrame DEF IInv
<1>7. PendingInv'  BY <1>1 DEF IInv, AnswerInv, PendingInv
<1>8. \A s \in Threads : Answered(thread[s])'
  BY <1>1 DEF IInv, AnswerInv, Answered, OwnReplies, Own
<1>9. RanInv'  BY <1>1, RanKept DEF IInv
<1> QED  BY <1>2, <1>3, <1>4, <1>5, <1>6, <1>7, <1>8, <1>9 DEF IInv, AnswerInv

(* All actions together. *)
LEMMA StepHolds ==
    ASSUME IInv, [Next]_vars
    PROVE  IInv' \/ WriteLost'
<1>1. ASSUME NEW t \in Threads, NEW c \in Commands, Submit(t, c) PROVE IInv'  BY <1>1, SubmitHolds
<1>2. ASSUME NEW t \in Threads, NEW b \in Batches, SubmitBatch(t, b) PROVE IInv'  BY <1>2, SubmitBatchHolds
<1>3. ASSUME NEW t \in Threads, Scan(t) \/ BatchRead(t) \/ Reply(t) PROVE IInv'
  BY <1>3, ScanHolds, BatchReadHolds, ReplyHolds
<1>4. ASSUME NEW t \in Threads, AppendWal(t) \/ AppendFails(t) \/ AppendIndex(t) \/ Register(t) PROVE IInv'
  BY <1>4, AppendWalHolds, AppendFailsHolds, AppendIndexHolds, RegisterHolds
<1>5. ASSUME NEW t \in Threads, Commit(t) \/ Notified(t) \/ Timeout(t) \/ CollectCommitted(t) PROVE IInv'
  BY <1>5, CommitHolds, NotifiedHolds, TimeoutHolds, CollectCommittedHolds
<1>6. ASSUME ApplyOne \/ ApplyDone \/ Crash \/ Restart PROVE IInv'
  BY <1>6, ApplyOneHolds, ApplyDoneHolds, CrashHolds, RestartHolds
<1>7. ASSUME NEW f \in Followers, Join(f) \/ Ack(f) PROVE IInv'  BY <1>7, JoinHolds, AckHolds
<1>8. ASSUME UNCHANGED vars PROVE IInv'  BY <1>8, StutterHolds
<1>9. ASSUME NEW t \in Threads, AppendWalLost(t) \/ AppendIndexLost(t) PROVE WriteLost'
  BY <1>9, LostHolds
<1> QED  BY <1>1, <1>2, <1>3, <1>4, <1>5, <1>6, <1>7, <1>8, <1>9 DEF Next

(* The invariant that carries all the others, in every state of every run, as *)
(* long as no write of the log's files failed with the call going on.         *)
THEOREM InvariantAlways == Spec => [](IInv \/ WriteLost)
<1>1. Init => IInv \/ WriteLost  BY InitHolds
<1>2. (IInv \/ WriteLost) /\ [Next]_vars => (IInv \/ WriteLost)'
  <2>1. IInv /\ [Next]_vars => IInv' \/ WriteLost'  BY StepHolds
  <2>2. WriteLost /\ [Next]_vars => WriteLost'  BY LostStays
  <2> QED  BY <2>1, <2>2
<1> QED  BY <1>1, <1>2, PTL DEF Spec

(* The types of all variables; the loop and the log mutex have owners in the  *)
(* middle of something; commit_index_ never passes the log (submit_command,   *)
(* try_commit_entries, the constructor's cap), as long as no write failed     *)
(* unnoticed (raft_log_array.cpp, append and fflush).                         *)
THEOREM TypeCorrect == Spec => [](~ghost.lost => TypeOK)
<1>0. WriteLost => ghost.lost  BY DEF WriteLost
<1>1. IInv => TypeOK
  <2> SUFFICES ASSUME IInv PROVE TypeOK  OBVIOUS
  <2>1. Types /\ ThreadInv /\ CacheInv /\ IndexesInv  BY DEF IInv, RunInv
  <2>2. {commit, applied, meta.commit, meta.applied} \subseteq Nat  BY <2>1 DEF Types
  <2>3. log_lock \in Threads \cup {Null} /\ (log_lock # Null => thread[log_lock].pc = "index")
    BY <2>1 DEF Types, ThreadInv
  <2>4. loop.by \in Threads \cup {Null, "ctor", "ack"}  BY <2>1 DEF Types, Owner
  <2>5. DOMAIN pending \subseteq Nat /\ Range(pending) \subseteq Threads  BY <2>1 DEF Types, Range
  <2>6. Len(cache) <= Capacity /\ \A k \in DOMAIN cache : cache[k].result \in Result
    <3>1. cache \in Seq(Item)  BY <2>1 DEF Types, Item
    <3>2. ASSUME NEW k \in DOMAIN cache PROVE cache[k].result \in Result
      <4>1. cache[k] \in Item  BY <3>1
      <4> QED  BY <4>1 DEF Item
    <3> QED  BY <2>1, <3>2 DEF CacheInv
  <2>7. commit <= LastIndex(log) /\ confirm \in BOOLEAN /\ up \in BOOLEAN  BY <2>1 DEF IndexesInv, Types
  <2> QED  BY <2>2, <2>3, <2>4, <2>5, <2>6, <2>7 DEF TypeOK
<1>2. IInv \/ WriteLost => (~ghost.lost => TypeOK)  BY <1>0, <1>1
<1> QED  BY <1>2, InvariantAlways, PTL

(* A client is answered with the result of its own command, unless it waited  *)
(* for the index of a write that failed (notify_request_applied, LRUCache),   *)
(* as long as no write failed unnoticed.                                      *)
THEOREM AnswerIsOwnAlways == Spec => [](~ghost.lost => AnswerIsOwn)
<1>0. WriteLost => ghost.lost  BY DEF WriteLost
<1>1. IInv => AnswerIsOwn
  <2> SUFFICES ASSUME IInv, NEW t \in Threads, NEW id \in DOMAIN thread[t].reply,
                      thread[t].reply[id].what = "ok", thread[t].index \notin ghost.failed
               PROVE  thread[t].reply[id].id = id /\ ghost.exec[thread[t].reply[id].n].id = id
    BY DEF AnswerIsOwn
  <2>1. OwnReplies(thread[t].reply)  BY DEF IInv, AnswerInv, Answered
  <2> QED  BY <2>1 DEF OwnReplies, Own
<1>2. IInv \/ WriteLost => (~ghost.lost => AnswerIsOwn)  BY <1>0, <1>1
<1> QED  BY <1>2, InvariantAlways, PTL

(* The commands run in log order and after a crash from no further on than    *)
(* the next position; until a restart gives up the log, every entry that      *)
(* .raft_meta calls applied and the log has where the index file says was run *)
(* as that entry (apply_committed_entries_nolock, commit_entries, the         *)
(* constructor), as long as no write failed unnoticed.                        *)
THEOREM RunsInOrderAlways == Spec => [](~ghost.lost => RunsInOrder)
<1>0. WriteLost => ghost.lost  BY DEF WriteLost
<1>1. IInv => RunsInOrder
  <2> SUFFICES ASSUME IInv PROVE RunsInOrder  OBVIOUS
  <2>1. OrderInv /\ IndexesInv /\ Types  BY DEF IInv, RunInv
  <2>2. meta.applied \in Nat /\ applied \in Nat /\ loop.at \in Nat  BY <2>1 DEF Types
  <2>3. meta.applied <= Reached /\ Reached \in Nat
    <3>1. CASE ~up  BY <2>2, <3>1 DEF Reached
    <3>2. CASE up /\ loop.by = Null
      <4>1. Reached = applied /\ meta.applied <= applied  BY <2>1, <3>2 DEF Reached, IndexesInv
      <4> QED  BY <2>2, <4>1
    <3>3. CASE up /\ loop.by # Null
      <4>1. Reached = loop.at /\ meta.applied <= applied /\ applied <= loop.at
        BY <2>1, <3>3 DEF Reached, IndexesInv
      <4> QED  BY <2>2, <4>1
    <3> QED  BY <3>1, <3>2, <3>3
  <2>4. \A i \in 1..meta.applied : i \in 1..Reached  BY <2>2, <2>3
  <2>5. ASSUME ~ghost.dropped, NEW i \in 1..meta.applied
        PROVE  \E k \in DOMAIN ghost.exec :
                  /\ ghost.exec[k].at = i
                  /\ InLog(log, i) /\ i \notin ghost.misplaced => get(log, i).id = ghost.exec[k].id
    <3>1. PICK k \in DOMAIN ghost.exec : ghost.exec[k].at = i  BY <2>1, <2>4 DEF OrderInv
    <3>2. ASSUME InLog(log, i), i \notin ghost.misplaced PROVE get(log, i).id = ghost.exec[k].id
      <4>1. i \in DOMAIN log.entries /\ get(log, i) = log.entries[i]
        <5>1. log \in Log /\ i \in Int  BY <2>1 DEF Types
        <5>2. log.base = 1  BY <5>1 DEF Log
        <5>3. get(log, i) = log.entries[i]  BY <5>1, <5>2 DEF get
        <5> QED  BY <3>2, <5>1, <5>3, LastIndexIs
      <4>2. up
        <5>1. ~up => log.entries = <<>>  BY DEF IInv, ThreadInv
        <5> QED  BY <4>1, <5>1
      <4>3. PICK m \in DOMAIN log.wal : log.wal[m] = [at |-> log.index[i], entry |-> log.entries[i]]
        BY <2>5, <3>2, <4>1, <4>2 DEF IInv, LogInv, MemoryInv
      <4>4. PICK j \in DOMAIN log.wal : log.wal[j].at = log.index[i] /\ log.wal[j].entry.id = ghost.exec[k].id
        BY <2>5, <3>1, <3>2 DEF IInv, RanInv, Filed
      <4>5. log.wal[m].at = log.wal[j].at /\ log.wal[m].entry = log.entries[i]  BY <4>3, <4>4
      <4>6. j = m
        <5>1. log.wal \in Seq(Record)  BY <2>1 DEF Types, Log
        <5>2. j \in Int /\ m \in Int /\ log.wal[j].at \in Nat
          <6>1. j \in 1..Len(log.wal) /\ m \in 1..Len(log.wal) /\ log.wal[j] \in Record  BY <5>1
          <6> QED  BY <6>1 DEF Record
        <5>3. ~(j < m) /\ ~(m < j)  BY <4>5, <5>2 DEF IInv, LogInv, FileInv
        <5> QED  BY <5>2, <5>3
      <4> QED  BY <4>1, <4>4, <4>5, <4>6
    <3> QED  BY <3>1, <3>2
  <2>6. \A k \in 1..(Len(ghost.exec) - 1) :
          LET a == ghost.exec[k]
              b == ghost.exec[k + 1]
          IN  IF a.life = b.life THEN b.at = a.at + 1 ELSE b.at <= a.at + 1
    BY <2>1 DEF OrderInv
  <2> QED  BY <2>5, <2>6 DEF RunsInOrder
<1>2. IInv \/ WriteLost => (~ghost.lost => RunsInOrder)  BY <1>0, <1>1
<1> QED  BY <1>2, InvariantAlways, PTL

(* What a restart would find is the log in memory, wherever an append stands, *)
(* but for the entries whose offset was taken from a stream that had been     *)
(* rewound (RaftLogArray's constructor, append, batch_append).                *)
LEMMA RecoveryFinds ==
    ASSUME IInv
    PROVE  RecoveryFindsLog
<1> SUFFICES ASSUME up, ~(Unreadable /\ ghost.misplaced # {}), NEW found, found = recover(log).entries
             PROVE  /\ Len(found) = Len(log.entries)
                    /\ \A i \in DOMAIN log.entries \ ghost.misplaced : found[i] = log.entries[i]
  BY DEF RecoveryFindsLog, Unreadable
<1>1. /\ Types /\ FileInv /\ MemoryInv  BY DEF IInv, LogInv
<1>2. ~Unreadable /\ ~ghost.dropped  BY <1>1 DEF MemoryInv
<1> DEFINE old == log.index
           read == [k \in DOMAIN old |-> read_entry_from_wal(log, old[k])]
<1>3. /\ old \in Seq(Nat) /\ log \in Log /\ log.entries \in Seq(Entry)  BY <1>1 DEF Types, Log
<1>4. found = read
  <2>1. \A k \in DOMAIN old : Readable(log, old[k])  BY <1>2 DEF Unreadable, GivesUp
  <2> DEFINE es == IF \A k \in DOMAIN old : Readable(log, old[k]) THEN read ELSE <<>>
             base == IF es = <<>> THEN 1 ELSE es[1].index
  <2>2. recover(log) = [log EXCEPT !.entries = es, !.base = base, !.rewound = TRUE]
    BY DEF recover
  <2>3. es = read
    <3> HIDE DEF read
    <3> QED  BY <2>1
  <2> HIDE DEF es, base, read
  <2>4. recover(log).entries = es  BY <1>3, <2>2 DEF Log
  <2> QED  BY <2>3, <2>4
<1>5. /\ Len(old) = Len(log.entries)
      /\ \A i \in DOMAIN log.entries \ ghost.misplaced :
            \E k \in DOMAIN log.wal : log.wal[k] = [at |-> old[i], entry |-> log.entries[i]]
  BY <1>1, <1>2 DEF MemoryInv
<1>6. Len(found) = Len(log.entries) /\ DOMAIN log.entries = DOMAIN old
  <2>1. DOMAIN read = 1..Len(old) /\ Len(old) \in Nat  BY <1>3
  <2>2. DOMAIN found = 1..Len(old) /\ found = [k \in 1..Len(old) |-> read[k]]  BY <1>3, <1>4
  <2> HIDE DEF read, old
  <2>3. Len(found) = Len(old)  BY <2>1, <2>2
  <2> QED  BY <1>3, <1>5, <2>3 DEF old
<1>7. ASSUME NEW i \in DOMAIN log.entries \ ghost.misplaced PROVE found[i] = log.entries[i]
  <2>1. PICK k \in DOMAIN log.wal : log.wal[k] = [at |-> old[i], entry |-> log.entries[i]]  BY <1>5
  <2>2. log.wal[k].at = old[i] /\ log.wal[k].entry = log.entries[i]  BY <2>1
  <2>3. PICK q : q = old[i]  OBVIOUS
  <2>4. PICK j : j = CHOOSE m \in RecordAt(log, q) : TRUE  OBVIOUS
  <2>5. j \in DOMAIN log.wal /\ log.wal[j].at = q
    <3>1. RecordAt(log, q) = {m \in DOMAIN log.wal : log.wal[m].at = q}  BY <1>3, ReadableIs
    <3>2. k \in RecordAt(log, q)  BY <2>2, <2>3, <3>1
    <3>3. j \in RecordAt(log, q)  BY <2>4, <3>2
    <3> QED  BY <3>1, <3>3
  <2>6. j = k
    <3>1. log.wal \in Seq(Record)  BY <1>3 DEF Log
    <3>2. j \in Int /\ k \in Int /\ log.wal[j].at \in Nat
      <4>1. j \in 1..Len(log.wal) /\ k \in 1..Len(log.wal) /\ log.wal[j] \in Record  BY <2>5, <3>1
      <4> QED  BY <4>1 DEF Record
    <3>3. ~(j < k) /\ ~(k < j)  BY <1>1, <2>2, <2>3, <2>5, <3>2 DEF FileInv
    <3> QED  BY <3>2, <3>3
  <2>7. found[i] = read_entry_from_wal(log, q)  BY <1>4, <1>6, <2>3
  <2> QED  BY <2>2, <2>4, <2>6, <2>7 DEF read_entry_from_wal
<1> QED  BY <1>6, <1>7

(* Between any two file writes a restart finds the log of the process at      *)
(* every position that was not misplaced, as long as no write failed          *)
(* unnoticed (write_to_wal, store, recover).                                  *)
THEOREM RecoveryFindsLogAlways == Spec => []RecoveryFindsLog
<1>1. IInv => RecoveryFindsLog  BY RecoveryFinds
<1>2. WriteLost => RecoveryFindsLog  BY DEF WriteLost, RecoveryFindsLog
<1>3. IInv \/ WriteLost => RecoveryFindsLog  BY <1>1, <1>2
<1> QED  BY <1>3, InvariantAlways, PTL

(* A retry finds the latest run of its request, and none is forgotten while   *)
(* no more requests ran than the cache has room for (LRUCache::put), as long  *)
(* as no write failed unnoticed.                                              *)
THEOREM RetryFindsLatestAlways == Spec => [](~ghost.lost => RetryFindsLatest)
<1>0. WriteLost => ghost.lost  BY DEF WriteLost
<1>1. IInv => RetryFindsLatest
  <2> SUFFICES ASSUME IInv, up PROVE RetryFindsLatest  BY DEF RetryFindsLatest
  <2> DEFINE runs == {k \in DOMAIN ghost.exec : ghost.exec[k].life = used.crashes}
             ids == {ghost.exec[k].id : k \in runs}
             latest(id) == Max({k \in runs : ghost.exec[k].id = id})
  <2>1. CacheInv /\ ghost.exec \in Seq(Run)  BY DEF IInv, Types, Ghosts
  <2>2. Cardinality(ids) <= Capacity => \A id \in ids : Cached(cache, id)  BY <2>1 DEF CacheInv
  <2>3. ASSUME NEW k \in DOMAIN cache PROVE cache[k].result.n = latest(cache[k].id)
    <3>n. PICK n : n = cache[k].result.n  OBVIOUS
    <3>i. PICK id : id = cache[k].id  OBVIOUS
    <3>s. PICK S : S = {m \in runs : ghost.exec[m].id = id}  OBVIOUS
    <3>1. /\ n \in DOMAIN ghost.exec /\ ghost.exec[n].id = id /\ ghost.exec[n].life = used.crashes
          /\ \A m \in DOMAIN ghost.exec : m > n => ghost.exec[m].id # id
      BY <2>1, <3>n, <3>i DEF CacheInv, Own
    <3>2. n \in S  BY <3>1, <3>s
    <3>3. DOMAIN ghost.exec \subseteq Nat /\ S \subseteq DOMAIN ghost.exec  BY <2>1, <3>s
    <3>4. ASSUME NEW m \in S PROVE m <= n
      <4>1. m \in DOMAIN ghost.exec /\ ghost.exec[m].id = id  BY <3>s
      <4>2. ~(m > n)  BY <3>1, <4>1
      <4> QED  BY <3>1, <3>3, <4>1, <4>2
    <3>5. S \in SUBSET Nat /\ S # {} /\ n \in Nat  BY <3>1, <3>2, <3>3
    <3>6. Max(S) \in S /\ \A y \in S : y <= Max(S)  BY <3>4, <3>5, MaxIs
    <3>7. Max(S) = n
      <4> DEFINE x == Max(S)
      <4>1. x \in S /\ n <= x  BY <3>2, <3>6
      <4> HIDE DEF x
      <4>2. x <= n /\ x \in Nat  BY <3>4, <3>5, <4>1
      <4>3. x = n  BY <3>5, <4>1, <4>2
      <4> QED  BY <4>3 DEF x
    <3>8. latest(id) = Max(S)  BY <3>s
    <3> HIDE DEF latest
    <3> QED  BY <3>7, <3>8, <3>n, <3>i
  <2> HIDE DEF latest
  <2> QED  BY <2>2, <2>3 DEF RetryFindsLatest, latest
<1>2. IInv \/ WriteLost => (~ghost.lost => RetryFindsLatest)  BY <1>0, <1>1
<1> QED  BY <1>2, InvariantAlways, PTL

=============================================================================
