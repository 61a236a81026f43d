----------------------------- MODULE Processors -----------------------------
(***************************************************************************)
(* The value processors of the storage engine (processors.cpp) and the     *)
(* memtable entries they work on (memtable.cpp, skip_list.h), as pure      *)
(* functions.                                                              *)
(*                                                                         *)
(* An entry has a type, a value, a deletion mark and the parity of its     *)
(* node's sequence lock.  A value is a sequence of items: the string, the  *)
(* list items and set members <<v>>, the <<field, value>> of a hash and the*)
(* <<member, score>> of a sorted set, all numbers.  Sets and hashes are    *)
(* kept in the order of their members, sorted sets in the order of their   *)
(* skip list.  Every handler has the same shape: change the entry in place *)
(* if the memtable has the key (handle_value), otherwise start from the    *)
(* entry found in the older tables and put the result (write_memtable).    *)
(***************************************************************************)
EXTENDS Integers, Sequences

CONSTANT Keys

Types == {"str", "list", "set", "hash", "zset"}
EValue == [typ : Types \cup {"none"}, val : Seq(Seq(Nat)), dead : BOOLEAN, odd : BOOLEAN]

NoEntry == [typ |-> "none", val |-> <<>>, dead |-> FALSE, odd |-> FALSE]
Fresh(typ, val) == [typ |-> typ, val |-> val, dead |-> FALSE, odd |-> FALSE]

\* A default-constructed EValue: an empty string, not deleted.
DefaultEValue == Fresh("str", <<>>)

Present(e) == e.typ # "none"
Alive(e) == Present(e) /\ ~e.dead
EmptyTable == [k \in Keys |-> NoEntry]

\* SkipListNode::get_value.  When the sequence is odd, "continue" goes to the
\* loop condition, which then compares the sequence with itself: the reader
\* leaves with the default value instead of waiting.
get_value(e) == IF e.odd THEN DefaultEValue ELSE e

\* memory_usage, in entries and items.
Weight(e) == IF Present(e) THEN 1 + Len(e.val) ELSE 0

-----------------------------------------------------------------------------
(* What each write does to a value of its own type. *)

ListOps == {"l_push", "r_push", "l_pop", "r_pop", "l_pop_n", "r_pop_n"}
SetOps == {"s_add", "s_rem"}
HashOps == {"h_set", "h_del"}
ZSetOps == {"z_add", "z_rem", "z_incr_by", "z_rem_by_rank"}

\* The operations that create the key if it is missing, and the others.
Grow == {"l_push", "r_push", "s_add", "h_set", "z_add"}
Shrink == (ListOps \cup SetOps \cup HashOps \cup ZSetOps) \ Grow
OpNames == {"set", "remove"} \cup Grow \cup Shrink

TypeOf(op) ==
    CASE op \in ListOps -> "list"
      [] op \in SetOps  -> "set"
      [] op \in HashOps -> "hash"
      [] op \in ZSetOps -> "zset"

Less(s, a) == SelectSeq(s, LAMBDA x : x[1] < a[1])
More(s, a) == SelectSeq(s, LAMBDA x : x[1] > a[1])

l_push(s, a) == <<a>> \o s
r_push(s, a) == Append(s, a)
l_pop(s) == IF s = <<>> THEN s ELSE Tail(s)
r_pop(s) == IF s = <<>> THEN s ELSE SubSeq(s, 1, Len(s) - 1)
l_pop_n(s, a) == SubSeq(s, a[1] + 1, Len(s))
r_pop_n(s, a) == SubSeq(s, 1, Len(s) - a[1])
s_add(s, a) == Less(s, a) \o <<a>> \o More(s, a)
s_rem(s, a) == Less(s, a) \o More(s, a)

\* A hash holds one value per field.
h_set(s, a) == Less(s, a) \o <<a>> \o More(s, a)
h_del(s, a) == Less(s, a) \o More(s, a)

\* The skip list of a sorted set, ordered by score, then member (ZSetKey); the
\* hash map beside it holds the same pairs.
Precedes(x, y) == x[2] < y[2] \/ (x[2] = y[2] /\ x[1] < y[1])
skiplist_insert(s, x) ==
    SelectSeq(s, LAMBDA y : Precedes(y, x)) \o <<x>> \o SelectSeq(s, LAMBDA y : Precedes(x, y))

zrem(s, m) == SelectSeq(s, LAMBDA x : x[1] # m)
zadd(s, a) == skiplist_insert(zrem(s, a[1]), a)
zincrby(s, a) ==
    LET old == SelectSeq(s, LAMBDA x : x[1] = a[1])
    IN  IF old = <<>> THEN s ELSE skiplist_insert(zrem(s, a[1]), <<a[1], old[1][2] + a[2]>>)
zrem_range_by_rank(s, start, end) == SubSeq(s, 1, start) \o SubSeq(s, end + 2, Len(s))

\* z_rem_by_rank counts negative ranks from the end and clamps the range.
FromEnd(r, size) == IF r < 0 THEN r + size ELSE r
RankStart(s, a) == LET r == FromEnd(a[1], Len(s)) IN IF r < 0 THEN 0 ELSE r
RankEnd(s, a) == LET r == FromEnd(a[2], Len(s)) IN IF r >= Len(s) THEN Len(s) - 1 ELSE r
EmptyRange(s, a) == RankStart(s, a) > RankEnd(s, a)

z_add(s, a) == zadd(s, a)
z_rem(s, a) == zrem(s, a[1])
z_incr_by(s, a) == zincrby(s, a)
z_rem_by_rank(s, a) ==
    IF EmptyRange(s, a) THEN s ELSE zrem_range_by_rank(s, RankStart(s, a), RankEnd(s, a))

NewValue(op, s, a) ==
    CASE op = "l_push" -> l_push(s, a)
      [] op = "r_push" -> r_push(s, a)
      [] op = "l_pop"  -> l_pop(s)
      [] op = "r_pop"  -> r_pop(s)
      [] op = "l_pop_n" -> l_pop_n(s, a)
      [] op = "r_pop_n" -> r_pop_n(s, a)
      [] op = "s_add"  -> s_add(s, a)
      [] op = "s_rem"  -> s_rem(s, a)
      [] op = "h_set"  -> h_set(s, a)
      [] op = "h_del"  -> h_del(s, a)
      [] op = "z_add"  -> z_add(s, a)
      [] op = "z_rem"  -> z_rem(s, a)
      [] op = "z_incr_by" -> z_incr_by(s, a)
      [] op = "z_rem_by_rank" -> z_rem_by_rank(s, a)

\* handle_value on an entry of the memtable.  A handler that throws leaves the
\* sequence lock of the node taken: its parity flips.  On a deleted entry
\* z_incr_by throws, the other Shrink operations return.
handle_value(op, e, v) ==
    IF op \in Shrink \ {"z_incr_by"} /\ e.dead THEN e
    ELSE IF e.typ # TypeOf(op) \/ (op = "z_incr_by" /\ e.dead) THEN [e EXCEPT !.odd = ~@]
    ELSE [e EXCEPT !.val = NewValue(op, IF e.dead THEN <<>> ELSE @, v), !.dead = FALSE]

\* The two cases in which an operation does not write its older entry back.
NothingToPut(op, s, a) ==
    \/ op \in {"l_pop", "r_pop"} /\ s = <<>>
    \/ op = "z_rem_by_rank" /\ EmptyRange(s, a)

\* Mutant of from_old: a push to a list that is no longer in the memtable starts
\* a new one.
from_old_fresh(op, old, v) ==
    IF op \in Grow THEN Fresh(TypeOf(op), NewValue(op, <<>>, v))
    ELSE IF ~Alive(old) \/ old.typ # TypeOf(op) \/ NothingToPut(op, old.val, v) THEN NoEntry
    ELSE [old EXCEPT !.val = NewValue(op, @, v)]

\* The key is not in the memtable: the entry to put, starting from the entry
\* "old" of the older tables; NoEntry when nothing is put.
from_old(op, old, v) ==
    IF op \in Grow
    THEN IF ~Alive(old) THEN Fresh(TypeOf(op), NewValue(op, <<>>, v))
         ELSE IF old.typ # TypeOf(op) THEN NoEntry
         ELSE [old EXCEPT !.val = NewValue(op, @, v)]
    ELSE IF ~Alive(old) \/ old.typ # TypeOf(op) \/ NothingToPut(op, old.val, v) THEN NoEntry
         ELSE [old EXCEPT !.val = NewValue(op, @, v)]

\* SkipList::insert over entry e: an existing node keeps its sequence.
insert(e, new) == IF Present(e) THEN [new EXCEPT !.odd = e.odd] ELSE new

\* MemTable::remove.
tombstone(e) ==
    IF Present(e) THEN [e EXCEPT !.dead = TRUE] ELSE [DefaultEValue EXCEPT !.dead = TRUE]

-----------------------------------------------------------------------------
(* What the commands promise their users: the contents of a key are a type   *)
(* and a value, and an operation against another type changes nothing.       *)

Missing == [typ |-> "none", val |-> <<>>]
Contents(e) == IF Alive(e) THEN [typ |-> e.typ, val |-> e.val] ELSE Missing

Do(op, c, v) ==
    IF op = "set" THEN [typ |-> "str", val |-> <<v>>]
    ELSE IF op = "remove" THEN Missing
    ELSE IF c = Missing
         THEN IF op \in Grow THEN [typ |-> TypeOf(op), val |-> NewValue(op, <<>>, v)] ELSE c
    ELSE IF c.typ # TypeOf(op) THEN c
    ELSE [c EXCEPT !.val = NewValue(op, @, v)]

=============================================================================
