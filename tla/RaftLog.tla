------------------------------ MODULE RaftLog ------------------------------
(***************************************************************************)
(* RaftLogArray (raft_log_array.cpp): the entries in memory, the file that *)
(* holds them (wal_file_) and the file of their offsets (index_file_).     *)
(*                                                                         *)
(* A log is a record: entries, base (base_index_), wal (the records of     *)
(* wal_file_ with the offsets they lie at), index (index_file_) and        *)
(* rewound (the position of the stream is 0: the file was opened "ab+",    *)
(* and reading puts the position back; a write goes to the end all the     *)
(* same and leaves the position there).  What fflush wrote survives a      *)
(* crash of the process.  Nothing looks at the result of fflush: when it   *)
(* fails, what it did not write is dropped from the stream's buffer and    *)
(* the call goes on.  A piece of a record stands in wal with index 0.      *)
(***************************************************************************)
EXTENDS Integers, SequencesExt

CONSTANT LogThreshold     \* log_size_threshold

ASSUME LogAssumption == LogThreshold \in Nat \ {0}

EmptyLog == [entries |-> <<>>, base |-> 1, wal |-> <<>>, index |-> <<>>, rewound |-> TRUE]

LastIndex(l) == IF l.entries = <<>> THEN 0 ELSE l.base + Len(l.entries) - 1
InLog(l, i) == i >= l.base /\ i < l.base + Len(l.entries)
get(l, i) == l.entries[i - l.base + 1]

FileEnd(l) == IF l.wal = <<>> THEN 0 ELSE Last(l.wal).at + Last(l.wal).entry.len
ftell(l) == IF l.rewound THEN 0 ELSE FileEnd(l)

\* The offsets of es when the first lies at offset.
Offsets(offset, es) ==
    LET place[i \in 1..Len(es)] == IF i = 1 THEN offset ELSE place[i - 1] + es[i - 1].len
    IN  place

\* The indexes batch_append and append give to new entries.
Numbered(l, es) == [i \in 1..Len(es) |-> [es[i] EXCEPT !.index = l.base + Len(l.entries) + i - 1]]

\* write_entry_to_wal and write_batch_to_wal: the bytes go to the end of the file.
write_to_wal(l, es) ==
    LET place == Offsets(FileEnd(l), es)
    IN  [l EXCEPT !.wal = @ \o [i \in 1..Len(es) |-> [at |-> place[i], entry |-> es[i]]],
                  !.rewound = FALSE]

\* The same when fflush fails: n whole records reach the file and the first
\* bytes of the next.  A write that writes nothing leaves the position.
write_in_part(l, es, n, bytes) ==
    LET whole == write_to_wal(l, SubSeq(es, 1, n))
        piece == [at |-> FileEnd(whole), entry |-> [es[n + 1] EXCEPT !.index = 0, !.len = bytes]]
    IN  [whole EXCEPT !.wal = IF bytes = 0 THEN @ ELSE Append(@, piece),
                      !.rewound = l.rewound /\ n = 0 /\ bytes = 0]

\* The rest of append and batch_append, with the offsets ftell gave: memory
\* and index file.
\* Mutant: only the first offset of a batch is written.
storeFirst(l, es, offsets) == [l EXCEPT !.entries = @ \o es, !.index = Append(@, offsets[1])]

store(l, es, offsets) == [l EXCEPT !.entries = @ \o es, !.index = @ \o offsets]

\* The same when only n offsets reach the index file: append only logs a warning,
\* and a failing fflush is not seen.
store_in_part(l, es, offsets, n) ==
    [l EXCEPT !.entries = @ \o es, !.index = @ \o SubSeq(offsets, 1, n)]

\* Over the threshold they call truncate_before, which locks mutex_ again and
\* throws: nothing is truncated.
Throws(l) == Len(l.entries) > LogThreshold

\* read_entry_from_wal: where no whole record starts the checksum does not match.
RecordAt(l, offset) == {k \in DOMAIN l.wal : l.wal[k].at = offset /\ l.wal[k].entry.index # 0}
Readable(l, offset) == RecordAt(l, offset) # {}
read_entry_from_wal(l, offset) == l.wal[CHOOSE k \in RecordAt(l, offset) : TRUE].entry

\* The constructor: what the index file names, or nothing when one entry
\* cannot be read.  The files stay as they are.
recover(l) ==
    LET loaded == \A k \in DOMAIN l.index : Readable(l, l.index[k])
        es == IF loaded THEN [k \in DOMAIN l.index |-> read_entry_from_wal(l, l.index[k])] ELSE <<>>
    IN  [l EXCEPT !.entries = es,
                  !.base = IF es = <<>> THEN 1 ELSE es[1].index,
                  !.rewound = TRUE]
=============================================================================
