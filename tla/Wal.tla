-------------------------------- MODULE Wal --------------------------------
(***************************************************************************)
(* The write-ahead log's path to the disk: write_record, sync and          *)
(* open_wal_file of wal.cpp, called by writers and by the background flush *)
(* thread of the storage engine.                                           *)
(*                                                                         *)
(* A record goes from the stdio buffer (written) to the kernel (flushed:   *)
(* it survives the death of the process) to the disk (durable: it survives *)
(* a power failure).  sync() hands the buffer to the kernel and clears     *)
(* modified_ with the mutex held, and calls fdatasync on a duplicated      *)
(* descriptor after releasing it.  The result of fflush is not looked at:  *)
(* after a failed one sync goes on and may answer true.                    *)
(***************************************************************************)
EXTENDS Naturals, FiniteSets

CONSTANTS
    Writers,         \* threads that append
    Strategies,      \* strategies wal_flush_strategy_ may be configured with
    Failures,        \* whether fwrite, fflush, dup and fdatasync may fail
    MaxRecords,      \* bound: records per file
    MaxFiles         \* bound: files

ASSUME WalAssumption ==
    /\ Strategies \subseteq {"background", "immediate", "os"} /\ Failures \in BOOLEAN
    /\ MaxRecords \in Nat /\ MaxFiles \in Nat \ {0}
    /\ "background" \notin Writers

Files == 1 .. MaxFiles
Threads == Writers \cup {"background"}

VARIABLES
    strategy,        \* wal_flush_strategy_, fixed by the configuration
    file,            \* the file wal_file_ refers to
    modified,        \* modified_
    written,         \* records given to fwrite, per file
    flushed,         \* of those, records the kernel has
    durable,         \* of those, records on disk
    acked,           \* records whose append_log has returned true, per file
    broken,          \* files with the error flag of stdio set (ferror)
    unsynced,        \* history: files closed with modified_ set, or whose dup or fdatasync failed
    th               \* the threads: position, file of the dup'ed descriptor, file and
                     \* number of the record being appended, reason of the sync

vars == <<strategy, file, modified, written, flushed, durable, acked, broken, unsynced, th>>

sync_on_write == strategy = "immediate"

Idle == [pc |-> "idle", fd |-> 1, in |-> 1, rec |-> 0, why |-> "none"]

Init ==
    /\ strategy \in Strategies /\ broken = {} /\ unsynced = {}
    /\ file = 1 /\ modified = FALSE
    /\ written = [f \in Files |-> 0] /\ flushed = [f \in Files |-> 0]
    /\ durable = [f \in Files |-> 0] /\ acked = [f \in Files |-> 0]
    /\ th = [t \in Threads |-> Idle]

Larger(a, b) == IF a > b THEN a ELSE b

\* sync() or write_record returns to its caller: an appending writer has its
\* answer, a writer opening a new file goes on.
Return(t, ok) ==
    /\ th' = [th EXCEPT ![t] = IF @.why = "open" THEN [@ EXCEPT !.pc = "open"] ELSE Idle]
    /\ acked' = IF th[t].why = "append" /\ ok
                THEN [acked EXCEPT ![th[t].in] = Larger(@, th[t].rec)] ELSE acked

\* write_record, with the mutex.
Append(t) ==
    /\ t \in Writers /\ th[t].pc = "idle" /\ written[file] < MaxRecords /\ file \notin broken
    /\ written' = [written EXCEPT ![file] = @ + 1]
    /\ modified' = TRUE
    /\ IF sync_on_write
       THEN /\ th' = [th EXCEPT ![t] = [Idle EXCEPT !.pc = "sync", !.in = file,
                                        !.rec = written[file] + 1, !.why = "append"]]
            /\ acked' = acked
       ELSE /\ th' = th
            /\ acked' = [acked EXCEPT ![file] = written[file] + 1]
    /\ UNCHANGED <<strategy, file, flushed, durable, broken, unsynced>>

\* write_record answers false: fwrite failed, or the error flag of the stream is
\* set since an earlier failure (nothing clears it).  What such a call leaves in
\* the file is not counted.
AppendFails(t) ==
    /\ t \in Writers /\ th[t].pc = "idle" /\ Failures
    /\ broken' = broken \cup {file}
    /\ UNCHANGED <<strategy, file, modified, written, flushed, durable, acked, unsynced, th>>

\* The calls of sync by the background thread and by open_wal_file.
CallSync(t) ==
    /\ th[t].pc = "idle"
    /\ \/ t = "background" /\ th' = [th EXCEPT ![t] = [Idle EXCEPT !.pc = "sync", !.why = "round"]]
       \/ t \in Writers /\ file < MaxFiles
          /\ th' = [th EXCEPT ![t] = [Idle EXCEPT !.pc = "sync", !.why = "open"]]
    /\ UNCHANGED <<strategy, file, modified, written, flushed, durable, acked, broken, unsynced>>

\* fflush, by itself or in fclose: the kernel gets the whole buffer, or the call
\* fails part of the way and sets the error flag.
Fflush ==
    \/ flushed' = [flushed EXCEPT ![file] = written[file]] /\ broken' = broken
    \/ /\ Failures /\ broken' = broken \cup {file}
       /\ \E n \in flushed[file] .. written[file] : flushed' = [flushed EXCEPT ![file] = n]

\* Mutant of SyncLocked: modified_ is cleared before the buffer is flushed.
SyncLockedNoFlush(t) ==
    /\ th[t].pc = "sync"
    /\ IF ~modified THEN Return(t, TRUE) /\ UNCHANGED <<modified, flushed, broken, unsynced>>
       ELSE /\ modified' = FALSE /\ UNCHANGED <<flushed, broken, unsynced>>
            /\ th' = [th EXCEPT ![t].pc = "disk", ![t].fd = file] /\ acked' = acked
    /\ UNCHANGED <<strategy, file, written, durable>>

\* sync, the part with the mutex: modified_ is cleared whatever fflush did, and
\* before dup, whose failure ends the call.
SyncLocked(t) ==
    /\ th[t].pc = "sync"
    /\ IF ~modified THEN Return(t, TRUE) /\ UNCHANGED <<modified, flushed, broken, unsynced>>
       ELSE /\ Fflush /\ modified' = FALSE
            /\ \/ /\ th' = [th EXCEPT ![t].pc = "disk", ![t].fd = file]
                  /\ UNCHANGED <<acked, unsynced>>
               \/ Failures /\ Return(t, FALSE) /\ unsynced' = unsynced \cup {file}
    /\ UNCHANGED <<strategy, file, written, durable>>

\* Mutant of SyncDisk: the file that is open now is synced, not the duplicate.
SyncDiskOpenFile(t) ==
    /\ th[t].pc = "disk"
    /\ \/ durable' = [durable EXCEPT ![file] = flushed[file]] /\ Return(t, TRUE)
          /\ unsynced' = unsynced
       \/ Failures /\ durable' = durable /\ Return(t, FALSE)
          /\ unsynced' = unsynced \cup {th[t].fd}
    /\ UNCHANGED <<strategy, file, modified, written, flushed, broken>>

\* sync, after the mutex: fdatasync on the duplicate.
SyncDisk(t) ==
    /\ th[t].pc = "disk"
    /\ \/ durable' = [durable EXCEPT ![th[t].fd] = flushed[th[t].fd]] /\ Return(t, TRUE)
          /\ unsynced' = unsynced
       \/ Failures /\ durable' = durable /\ Return(t, FALSE)
          /\ unsynced' = unsynced \cup {th[t].fd}
    /\ UNCHANGED <<strategy, file, modified, written, flushed, broken>>

\* open_wal_file: fclose hands what is left in the buffer to the kernel.
Open(t) ==
    /\ th[t].pc = "open" /\ file < MaxFiles
    /\ Fflush
    /\ unsynced' = IF modified THEN unsynced \cup {file} ELSE unsynced
    /\ file' = file + 1 /\ modified' = FALSE
    /\ th' = [th EXCEPT ![t] = Idle]
    /\ UNCHANGED <<strategy, written, durable, acked>>

Step(t) == SyncLocked(t) \/ SyncDisk(t) \/ Open(t)

Next == \E t \in Threads : Append(t) \/ AppendFails(t) \/ CallSync(t) \/ Step(t)

\* With the background strategy its thread starts a round every
\* wal_flush_interval_; with the others only when there is a table to flush.  A
\* call in progress runs to its end.
Spec ==
    /\ Init /\ [][Next]_vars
    /\ \A t \in Threads : WF_vars(Step(t))
    /\ WF_vars(strategy = "background" /\ CallSync("background"))

-----------------------------------------------------------------------------
(* Properties *)

\* Types, and a record is never further down the path than further up.
TypeOK ==
    /\ strategy \in {"background", "immediate", "os"}
    /\ broken \subseteq Files /\ unsynced \subseteq Files
    /\ file \in Files /\ modified \in BOOLEAN
    /\ written \in [Files -> 0 .. MaxRecords] /\ flushed \in [Files -> 0 .. MaxRecords]
    /\ durable \in [Files -> 0 .. MaxRecords] /\ acked \in [Files -> 0 .. MaxRecords]
    /\ th \in [Threads -> [pc : {"idle", "sync", "disk", "open"}, fd : Files, in : Files,
                           rec : 0 .. MaxRecords, why : {"none", "append", "round", "open"}]]
    /\ \A f \in Files : durable[f] <= flushed[f] /\ flushed[f] <= written[f]

\* sync (wal.cpp:267-319), IMMEDIATE_ON_WRITE: a record that was acknowledged
\* has left the process, whichever thread's sync() took it along; the death of
\* the process does not lose it.  Files whose fflush or fwrite failed are outside:
\* sync ignores that fflush failed (line 279), and writers whose record was in the
\* buffer are answered true.
AckedSurvivesProcess ==
    sync_on_write => \A f \in Files : f \in broken \/ acked[f] <= flushed[f]

\* background_flush_task, sync and open_wal_file: with the background and the
\* immediate strategy every record written reaches the disk, whatever files are
\* opened meanwhile.  Only these keep it from there: a failed fflush, dup or
\* fdatasync (sync has already cleared modified_, nobody tries again) and a record
\* appended between the sync() and the fclose of open_wal_file.
EventuallyOnDisk ==
    \A f \in Files, n \in 1 .. MaxRecords :
        written[f] >= n ~> \/ durable[f] >= n
                          \/ f \in broken \cup unsynced \/ strategy = "os"

(* The inductive invariant behind AckedSurvivesProcess: when modified_ is clear  *)
(* and no call failed the kernel has all of the open file, and always all of the *)
(* closed ones.                                                                  *)
PathInv ==
    /\ \A f \in Files : f < file => f \in broken \/ flushed[f] = written[f]
    /\ \A f \in Files : f > file => written[f] = 0
    /\ ~modified => file \in broken \/ flushed[file] = written[file]
    /\ \A t \in Threads : th[t].why = "append" =>
          /\ th[t].in <= file /\ th[t].rec <= written[th[t].in]
          /\ th[t].pc = "disk" => th[t].in \in broken \/ th[t].rec <= flushed[th[t].in]

=============================================================================
