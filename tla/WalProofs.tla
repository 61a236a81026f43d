----------------------------- MODULE WalProofs -----------------------------
(***************************************************************************)
(* Proofs about the log's path to the disk, for any number of writers,     *)
(* records and files: types, and that with IMMEDIATE_ON_WRITE the death of *)
(* the process loses no acknowledged record unless a flush failed.         *)
(***************************************************************************)
EXTENDS Wal, TLAPS

Inv == TypeOK /\ PathInv /\ AckedSurvivesProcess

ThreadState ==
    [pc : {"idle", "sync", "disk", "open"}, fd : Files, in : Files,
     rec : 0 .. MaxRecords, why : {"none", "append", "round", "open"}]

(* The log starts empty. *)
LEMMA InvInit == Init => Inv
  <1> SUFFICES ASSUME Init PROVE Inv
    OBVIOUS
  <1> USE WalAssumption DEF Init, Files, Idle
  <1>1. TypeOK
    <2>1. 1 \in Files /\ 0 \in 0 .. MaxRecords
      OBVIOUS
    <2>2. th \in [Threads -> ThreadState]
      BY <2>1 DEF ThreadState
    <2>3. /\ written \in [Files -> 0 .. MaxRecords] /\ flushed \in [Files -> 0 .. MaxRecords]
          /\ durable \in [Files -> 0 .. MaxRecords] /\ acked \in [Files -> 0 .. MaxRecords]
          /\ \A f \in Files : durable[f] <= flushed[f] /\ flushed[f] <= written[f]
      BY <2>1
    <2>4. modified \in BOOLEAN /\ file \in Files
      BY <2>1
    <2>5. /\ strategy \in {"background", "immediate", "os"}
          /\ broken \subseteq Files /\ unsynced \subseteq Files
      OBVIOUS
    <2> HIDE DEF Init, Files
    <2> QED
      BY <2>2, <2>3, <2>4, <2>5 DEF TypeOK, ThreadState
  <1>2. PathInv
    BY DEF PathInv
  <1>3. AckedSurvivesProcess
    BY DEF AckedSurvivesProcess
  <1> QED
    BY <1>1, <1>2, <1>3 DEF Inv

(* The types every other lemma starts from. *)
LEMMA Types ==
    ASSUME TypeOK
    PROVE  /\ Files \subseteq Nat /\ 1 \in Files /\ file \in Files
           /\ th \in [Threads -> ThreadState] /\ Idle \in ThreadState
           /\ written \in [Files -> 0 .. MaxRecords] /\ flushed \in [Files -> 0 .. MaxRecords]
           /\ durable \in [Files -> 0 .. MaxRecords] /\ acked \in [Files -> 0 .. MaxRecords]
           /\ \A f \in Files : durable[f] <= flushed[f] /\ flushed[f] <= written[f]
  <1>1. Files \subseteq Nat /\ 1 \in Files
    BY WalAssumption DEF Files
  <1>2. Idle \in ThreadState
    BY <1>1, WalAssumption DEF ThreadState, Idle
  <1> QED
    BY <1>1, <1>2 DEF TypeOK, ThreadState

(* What any sequence of fflush and failures does to buffer and error flags. *)
Pushed ==
    /\ flushed' \in [Files -> 0 .. MaxRecords]
    /\ broken \subseteq broken' /\ broken' \subseteq Files
    /\ \A f \in Files : flushed[f] <= flushed'[f] /\ flushed'[f] <= written[f]

LEMMA FflushPushes ==
    ASSUME TypeOK, Fflush
    PROVE  Pushed /\ (file \in broken' \/ flushed'[file] = written[file])
  <1> USE WalAssumption
  <1>a. /\ Files \subseteq Nat /\ file \in Files
        /\ written \in [Files -> 0 .. MaxRecords] /\ flushed \in [Files -> 0 .. MaxRecords]
        /\ \A f \in Files : flushed[f] <= written[f]
    BY Types
  <1>1. PICK n \in flushed[file] .. written[file] :
          /\ flushed' = [flushed EXCEPT ![file] = n]
          /\ broken' = broken \cup {file} \/ (broken' = broken /\ n = written[file])
    <2>1. written[file] \in flushed[file] .. written[file]
      BY <1>a
    <2> QED
      BY <2>1 DEF Fflush
  <1>2. n \in 0 .. MaxRecords /\ flushed[file] <= n /\ n <= written[file]
    BY <1>a
  <1>3. /\ flushed' \in [Files -> 0 .. MaxRecords] /\ flushed'[file] = n
        /\ \A f \in Files : f # file => flushed'[f] = flushed[f]
    BY <1>1, <1>2, <1>a
  <1>4. \A f \in Files : flushed[f] <= flushed'[f] /\ flushed'[f] <= written[f]
    <2>1. \A f \in Files : flushed[f] \in Nat
      BY <1>a
    <2> QED
      BY <2>1, <1>2, <1>3, <1>a
  <1>5. broken \subseteq broken' /\ broken' \subseteq Files
    BY <1>1, <1>a DEF TypeOK
  <1> QED
    BY <1>1, <1>3, <1>4, <1>5 DEF Pushed

(* What PathInv says of a thread that appends stays so while buffers are emptied. *)
LEMMA PushKeepsAppender ==
    ASSUME Inv, Pushed, NEW u \in Threads, th[u].why = "append"
    PROVE  /\ th[u].in <= file /\ th[u].rec <= written[th[u].in]
           /\ th[u].pc = "disk" => th[u].in \in broken' \/ th[u].rec <= flushed'[th[u].in]
  <1>1. /\ th[u].in <= file /\ th[u].rec <= written[th[u].in]
        /\ th[u].pc = "disk" => th[u].in \in broken \/ th[u].rec <= flushed[th[u].in]
    BY DEF Inv, PathInv
  <1>2. th[u].in \in Files /\ th[u].rec \in Nat
    BY Types, WalAssumption DEF Inv, ThreadState
  <1>3. /\ flushed[th[u].in] \in Nat /\ flushed'[th[u].in] \in Nat
        /\ flushed[th[u].in] <= flushed'[th[u].in]
    BY <1>2, Types, WalAssumption DEF Inv, Pushed
  <1> QED
    BY <1>1, <1>2, <1>3 DEF Pushed

(* So does what PathInv says of the files, and AckedSurvivesProcess. *)
LEMMA PushKeepsFiles ==
    ASSUME Inv, Pushed
    PROVE  /\ \A f \in Files : f < file => f \in broken' \/ flushed'[f] = written[f]
           /\ \A f \in Files : (f \in broken \/ acked[f] <= flushed[f])
                                => f \in broken' \/ acked[f] <= flushed'[f]
           /\ ~modified => file \in broken' \/ flushed'[file] = written[file]
  <1>1. /\ \A f \in Files : flushed[f] \in Nat /\ flushed'[f] \in Nat /\ written[f] \in Nat /\ acked[f] \in Nat
        /\ file \in Files
    BY Types, WalAssumption DEF Inv, Pushed
  <1> QED
    BY <1>1 DEF Inv, PathInv, Pushed

(* A thread that returns from sync or write_record with nothing of it pending:  *)
(* its record, if acknowledged, is in the kernel or a flush failed.             *)
LEMMA ReturnInv ==
    ASSUME Inv, NEW t \in Threads, NEW ok \in BOOLEAN, Return(t, ok), Pushed,
           th[t].why = "append" /\ ok => th[t].in \in broken' \/ th[t].rec <= flushed'[th[t].in],
           UNCHANGED <<strategy, file, written>>, modified' \in BOOLEAN,
           ~modified' => ~modified \/ file \in broken' \/ flushed'[file] = written[file],
           durable' \in [Files -> 0 .. MaxRecords],
           \A f \in Files : durable'[f] <= flushed'[f],
           unsynced' \subseteq Files
    PROVE  Inv'
  <1> USE WalAssumption DEF Inv, Return
  <1>a. TypeOK
    OBVIOUS
  <1>0. /\ th \in [Threads -> ThreadState] /\ file \in Files /\ Files \subseteq Nat /\ 1 \in Files
        /\ written \in [Files -> 0 .. MaxRecords] /\ acked \in [Files -> 0 .. MaxRecords]
        /\ Idle \in ThreadState
    BY <1>a, Types
  <1>b. /\ flushed' \in [Files -> 0 .. MaxRecords] /\ broken' \subseteq Files
        /\ \A f \in Files : flushed'[f] <= written[f]
    BY DEF Pushed
  <1>1. /\ th[t] \in ThreadState
        /\ \A u \in Threads : u # t => th'[u] = th[u]
        /\ th'[t] = IF th[t].why = "open" THEN [th[t] EXCEPT !.pc = "open"] ELSE Idle
    BY <1>0
  <1>2. th'[t] \in ThreadState /\ th'[t].why # "append"
    BY <1>0, <1>1 DEF ThreadState, Idle
  <1>3. th' \in [Threads -> ThreadState]
    BY <1>0, <1>1, <1>2
  <1>4. /\ acked' \in [Files -> 0 .. MaxRecords]
        /\ sync_on_write => \A f \in Files : f \in broken' \/ acked'[f] <= flushed'[f]
    <2>0. sync_on_write => \A f \in Files : f \in broken' \/ acked[f] <= flushed'[f]
      BY PushKeepsFiles DEF AckedSurvivesProcess
    <2>1. CASE th[t].why = "append" /\ ok
      <3>1. th[t].in \in Files /\ th[t].rec \in 0 .. MaxRecords
        BY <1>1 DEF ThreadState
      <3>2. Larger(acked[th[t].in], th[t].rec) \in {acked[th[t].in], th[t].rec}
        BY DEF Larger
      <3>3. /\ acked' = [acked EXCEPT ![th[t].in] = Larger(acked[th[t].in], th[t].rec)]
            /\ Larger(acked[th[t].in], th[t].rec) \in 0 .. MaxRecords
        BY <1>0, <2>1, <3>1, <3>2
      <3> QED
        BY <1>0, <2>0, <2>1, <3>1, <3>2, <3>3
    <2>2. CASE ~(th[t].why = "append" /\ ok)
      BY <1>0, <2>0, <2>2
    <2> QED
      BY <2>1, <2>2
  <1>5. TypeOK'
    BY <1>0, <1>b, <1>3, <1>4 DEF TypeOK, ThreadState
  <1>6. PathInv'
    <2>1. \A u \in Threads : th'[u].why = "append" =>
            /\ th'[u].in <= file /\ th'[u].rec <= written[th'[u].in]
            /\ th'[u].pc = "disk" => th'[u].in \in broken' \/ th'[u].rec <= flushed'[th'[u].in]
      BY <1>1, <1>2, PushKeepsAppender
    <2>2. /\ \A f \in Files : f < file => f \in broken' \/ flushed'[f] = written[f]
          /\ ~modified' => file \in broken' \/ flushed'[file] = written[file]
      BY PushKeepsFiles
    <2> QED
      BY <2>1, <2>2 DEF PathInv
  <1>7. AckedSurvivesProcess'
    BY <1>4 DEF AckedSurvivesProcess, sync_on_write
  <1> QED
    BY <1>5, <1>6, <1>7

(* write_record: the new record is not acknowledged before a sync, or the log is *)
(* not in IMMEDIATE_ON_WRITE.                                                    *)
LEMMA AppendInv == ASSUME Inv, NEW t \in Threads, Append(t) PROVE Inv'
  <1> USE WalAssumption DEF Inv, Append
  <1>0. TypeOK
    OBVIOUS
  <1>a. /\ Files \subseteq Nat /\ file \in Files /\ th \in [Threads -> ThreadState]
        /\ Idle \in ThreadState /\ written \in [Files -> 0 .. MaxRecords]
        /\ flushed \in [Files -> 0 .. MaxRecords] /\ durable \in [Files -> 0 .. MaxRecords]
        /\ acked \in [Files -> 0 .. MaxRecords]
        /\ \A f \in Files : durable[f] <= flushed[f] /\ flushed[f] <= written[f]
    BY <1>0, Types
  <1>1. written[file] + 1 \in 0 .. MaxRecords
    BY <1>a
  <1>2. /\ written' \in [Files -> 0 .. MaxRecords]
        /\ \A f \in Files : f # file => written'[f] = written[f]
        /\ written'[file] = written[file] + 1
    BY <1>1, <1>a
  <1>3. th' \in [Threads -> ThreadState]
    <2>1. [Idle EXCEPT !.pc = "sync", !.in = file, !.rec = written[file] + 1, !.why = "append"]
             \in ThreadState
      BY <1>1, <1>a DEF ThreadState
    <2> QED
      BY <2>1, <1>a
  <1>4. acked' \in [Files -> 0 .. MaxRecords] /\ (sync_on_write => acked' = acked)
    BY <1>1, <1>a
  <1>5. TypeOK'
    BY <1>2, <1>3, <1>4, <1>a DEF TypeOK, ThreadState
  <1>6. \A f \in Files : written[f] <= written'[f]
    BY <1>2, <1>a
  <1>7. \A u \in Threads : th'[u].why = "append" =>
          /\ th'[u].in <= file /\ th'[u].rec <= written'[th'[u].in]
          /\ th'[u].pc = "disk" => th'[u].in \in broken \/ th'[u].rec <= flushed[th'[u].in]
    <2> SUFFICES ASSUME NEW u \in Threads, th'[u].why = "append"
                 PROVE  /\ th'[u].in <= file /\ th'[u].rec <= written'[th'[u].in]
                        /\ th'[u].pc = "disk" =>
                             th'[u].in \in broken \/ th'[u].rec <= flushed[th'[u].in]
      OBVIOUS
    <2>1. CASE th'[u] = th[u]
      <3>1. /\ th[u].in \in Files /\ th[u].rec \in Nat /\ th[u].in <= file
            /\ th[u].rec <= written[th[u].in]
            /\ th[u].pc = "disk" => th[u].in \in broken \/ th[u].rec <= flushed[th[u].in]
        BY <2>1, <1>a DEF ThreadState, PathInv
      <3>2. written[th[u].in] \in Nat /\ written'[th[u].in] \in Nat
        BY <3>1, <1>2, <1>a
      <3> QED
        BY <2>1, <3>1, <3>2, <1>6
    <2>2. CASE th'[u] # th[u]
      <3>1. th'[u] = [Idle EXCEPT !.pc = "sync", !.in = file, !.rec = written[file] + 1,
                                  !.why = "append"]
        BY <2>2, <1>a
      <3>2. th'[u].in = file /\ th'[u].rec = written[file] + 1 /\ th'[u].pc = "sync"
        BY <3>1 DEF Idle
      <3> QED
        BY <3>2, <1>1, <1>2, <1>a
    <2> QED
      BY <2>1, <2>2
  <1>8. PathInv'
    BY <1>2, <1>7, <1>a DEF PathInv
  <1>9. AckedSurvivesProcess'
    BY <1>4 DEF AckedSurvivesProcess, sync_on_write
  <1> QED
    BY <1>5, <1>8, <1>9

(* A refused append only sets the error flag. *)
LEMMA AppendFailsInv == ASSUME Inv, NEW t \in Threads, AppendFails(t) PROVE Inv'
  <1> USE DEF Inv, AppendFails
  <1>1. TypeOK'
    BY DEF TypeOK
  <1>2. PathInv'
    BY DEF PathInv
  <1>3. AckedSurvivesProcess'
    BY DEF AckedSurvivesProcess, sync_on_write
  <1> QED
    BY <1>1, <1>2, <1>3

(* A call of sync changes only the caller. *)
LEMMA CallSyncInv == ASSUME Inv, NEW t \in Threads, CallSync(t) PROVE Inv'
  <1> USE WalAssumption DEF Inv
  <1>0. TypeOK
    OBVIOUS
  <1>a. 1 \in Files /\ th \in [Threads -> ThreadState] /\ Idle \in ThreadState
    BY <1>0, Types
  <1>1. /\ \A u \in Threads : u # t => th'[u] = th[u]
        /\ th' \in [Threads -> ThreadState] /\ th'[t].why # "append"
    <2>1. PICK w \in {"round", "open"} : th' = [th EXCEPT ![t] = [Idle EXCEPT !.pc = "sync", !.why = w]]
      BY DEF CallSync
    <2>2. /\ [Idle EXCEPT !.pc = "sync", !.why = w] \in ThreadState
          /\ [Idle EXCEPT !.pc = "sync", !.why = w].why = w
      BY <1>a DEF ThreadState, Idle
    <2> QED
      BY <2>1, <2>2, <1>a
  <1>2. UNCHANGED <<strategy, file, modified, written, flushed, durable, acked, broken, unsynced>>
    BY DEF CallSync
  <1>3. TypeOK'
    BY <1>1, <1>2 DEF TypeOK, ThreadState
  <1>4. PathInv'
    BY <1>1, <1>2 DEF PathInv
  <1>5. AckedSurvivesProcess'
    BY <1>2 DEF AckedSurvivesProcess, sync_on_write
  <1> QED
    BY <1>3, <1>4, <1>5

(* sync under the mutex: a clear modified_ means that the kernel already has    *)
(* the caller's record; otherwise the buffer goes to the kernel now, or fails.  *)
LEMMA SyncLockedInv == ASSUME Inv, NEW t \in Threads, SyncLocked(t) PROVE Inv'
  <1> USE WalAssumption DEF Inv
  <1>0. TypeOK
    OBVIOUS
  <1>a. /\ Files \subseteq Nat /\ file \in Files /\ th \in [Threads -> ThreadState]
        /\ written \in [Files -> 0 .. MaxRecords] /\ flushed \in [Files -> 0 .. MaxRecords]
        /\ durable \in [Files -> 0 .. MaxRecords] /\ acked \in [Files -> 0 .. MaxRecords]
        /\ \A f \in Files : durable[f] <= flushed[f] /\ flushed[f] <= written[f]
    BY <1>0, Types
  <1>b. \A u \in Threads : th[u].in \in Files /\ th[u].rec \in 0 .. MaxRecords /\ th[u] \in ThreadState
    BY <1>a DEF ThreadState
  \* A record whose file is complete for the kernel is there itself.
  <1>c. ASSUME Pushed, file \in broken' \/ flushed'[file] = written[file], th[t].why = "append"
        PROVE  th[t].in \in broken' \/ th[t].rec <= flushed'[th[t].in]
    <2>1. th[t].in <= file /\ th[t].rec <= written[th[t].in]
      BY <1>c DEF PathInv
    <2>2. CASE th[t].in = file
      BY <1>c, <2>1, <2>2
    <2>3. CASE th[t].in < file
      BY <1>b, <1>c, <2>1, <2>3, PushKeepsFiles
    <2>4. th[t].in \in Nat /\ file \in Nat
      BY <1>a, <1>b
    <2> QED
      BY <2>1, <2>2, <2>3, <2>4
  <1>1. CASE ~modified
    <2>1. /\ Return(t, TRUE)
          /\ UNCHANGED <<strategy, file, modified, written, flushed, broken, durable, unsynced>>
      BY <1>1 DEF SyncLocked
    <2>2. Pushed
      BY <2>1, <1>a, <1>0 DEF Pushed, TypeOK
    <2>3. file \in broken' \/ flushed'[file] = written[file]
      BY <1>1, <2>1 DEF PathInv
    <2>4. th[t].why = "append" => th[t].in \in broken' \/ th[t].rec <= flushed'[th[t].in]
      BY <2>2, <2>3, <1>c
    <2>5. unsynced' \subseteq Files /\ modified' \in BOOLEAN
      BY <2>1 DEF TypeOK
    <2> QED
      BY <2>1, <2>2, <2>4, <2>5, <1>1, <1>a, ReturnInv
  <1>2. CASE modified
    <2>1. /\ Fflush /\ ~modified' /\ modified' \in BOOLEAN
          /\ UNCHANGED <<strategy, file, written, durable>> /\ th[t].pc = "sync"
      BY <1>2 DEF SyncLocked
    <2>2. Pushed /\ (file \in broken' \/ flushed'[file] = written[file])
      BY <2>1, <1>0, FflushPushes
    <2>3. \A f \in Files : durable'[f] <= flushed'[f]
      <3>1. \A f \in Files : durable[f] \in Nat /\ flushed[f] \in Nat /\ flushed'[f] \in Nat
        BY <1>a, <2>2 DEF Pushed
      <3> QED
        BY <3>1, <2>1, <2>2, <1>a DEF Pushed
    <2>4. CASE Return(t, FALSE) /\ unsynced' = unsynced \cup {file}
      <3>1. unsynced' \subseteq Files /\ durable' \in [Files -> 0 .. MaxRecords]
        BY <2>1, <2>4, <1>a DEF TypeOK
      <3> QED
        BY <2>1, <2>2, <2>3, <2>4, <3>1, ReturnInv
    <2>5. CASE /\ th' = [th EXCEPT ![t].pc = "disk", ![t].fd = file]
               /\ UNCHANGED <<acked, unsynced>>
      <3>1. /\ \A u \in Threads : u # t => th'[u] = th[u]
            /\ th'[t] = [th[t] EXCEPT !.pc = "disk", !.fd = file]
        BY <2>5, <1>a
      <3>2. th'[t] \in ThreadState
        BY <3>1, <1>b, <1>a DEF ThreadState
      <3>3. /\ th'[t].in = th[t].in /\ th'[t].rec = th[t].rec /\ th'[t].why = th[t].why
        BY <3>1, <1>b DEF ThreadState
      <3>4. th' \in [Threads -> ThreadState]
        BY <2>5, <3>1, <3>2, <1>a
      <3>5. TypeOK'
        BY <2>1, <2>2, <2>3, <2>5, <3>4, <1>a DEF TypeOK, ThreadState, Pushed
      <3>6. ASSUME NEW u \in Threads, th'[u].why = "append"
            PROVE  /\ th'[u].in <= file /\ th'[u].rec <= written[th'[u].in]
                   /\ th'[u].pc = "disk" =>
                        th'[u].in \in broken' \/ th'[u].rec <= flushed'[th'[u].in]
        <4>1. CASE u # t
          BY <3>1, <3>6, <4>1, <2>2, PushKeepsAppender
        <4>2. CASE u = t
          <5>1. th[t].why = "append"
            BY <3>3, <3>6, <4>2
          <5>2. th[t].in <= file /\ th[t].rec <= written[th[t].in]
            BY <5>1 DEF PathInv
          <5> QED
            BY <3>3, <4>2, <5>1, <5>2, <2>2, <1>c
        <4> QED
          BY <4>1, <4>2
      <3>7. PathInv'
        BY <2>1, <2>2, <3>6, PushKeepsFiles DEF PathInv
      <3>8. AckedSurvivesProcess'
        BY <2>1, <2>2, <2>5, PushKeepsFiles DEF AckedSurvivesProcess, sync_on_write
      <3> QED
        BY <3>5, <3>7, <3>8
    <2> QED
      BY <2>4, <2>5, <1>2 DEF SyncLocked
  <1> QED
    BY <1>1, <1>2, <1>0 DEF TypeOK

(* fdatasync, or its failure: only a record the kernel has is acknowledged. *)
LEMMA SyncDiskInv == ASSUME Inv, NEW t \in Threads, SyncDisk(t) PROVE Inv'
  <1> USE WalAssumption DEF Inv
  <1>0. TypeOK
    OBVIOUS
  <1>a. /\ Files \subseteq Nat /\ th \in [Threads -> ThreadState]
        /\ flushed \in [Files -> 0 .. MaxRecords] /\ durable \in [Files -> 0 .. MaxRecords]
        /\ \A f \in Files : durable[f] <= flushed[f] /\ flushed[f] <= written[f]
    BY <1>0, Types
  <1>1. UNCHANGED <<strategy, file, modified, written, flushed, broken>>
    BY DEF SyncDisk
  <1>2. Pushed
    BY <1>1, <1>a, <1>0 DEF Pushed, TypeOK
  <1>3. th[t].why = "append" => th[t].in \in broken' \/ th[t].rec <= flushed'[th[t].in]
    BY <1>1 DEF SyncDisk, PathInv
  <1>4. PICK ok \in BOOLEAN :
          /\ Return(t, ok)
          /\ durable' = durable \/ durable' = [durable EXCEPT ![th[t].fd] = flushed[th[t].fd]]
          /\ unsynced' = unsynced \/ unsynced' = unsynced \cup {th[t].fd}
    BY DEF SyncDisk
  <1>5. /\ durable' \in [Files -> 0 .. MaxRecords]
        /\ \A f \in Files : durable'[f] <= flushed'[f]
        /\ unsynced' \subseteq Files
    <2>1. th[t].fd \in Files
      BY <1>a DEF ThreadState
    <2>2. unsynced' \subseteq Files
      BY <1>4, <2>1 DEF TypeOK
    <2> QED
      BY <1>1, <1>4, <2>1, <2>2, <1>a
  <1>6. modified' \in BOOLEAN /\ (~modified' => ~modified)
    BY <1>1 DEF TypeOK
  <1> QED
    BY <1>1, <1>2, <1>3, <1>4, <1>5, <1>6, ReturnInv

(* fclose empties the buffer of the file that is closed, or fails. *)
LEMMA OpenInv == ASSUME Inv, NEW t \in Threads, Open(t) PROVE Inv'
  <1> USE WalAssumption DEF Inv, Open
  <1>0. TypeOK
    OBVIOUS
  <1>a. /\ Files \subseteq Nat /\ file \in Files /\ th \in [Threads -> ThreadState]
        /\ Idle \in ThreadState
        /\ written \in [Files -> 0 .. MaxRecords] /\ flushed \in [Files -> 0 .. MaxRecords]
        /\ durable \in [Files -> 0 .. MaxRecords] /\ acked \in [Files -> 0 .. MaxRecords]
        /\ \A f \in Files : durable[f] <= flushed[f] /\ flushed[f] <= written[f]
    BY <1>0, Types
  <1>1. Pushed /\ (file \in broken' \/ flushed'[file] = written[file])
    BY <1>0, FflushPushes
  <1>c. file + 1 \in Files
    BY <1>a DEF Files
  <1>3. file + 1 \in Files /\ file' = file + 1 /\ ~modified' /\ modified' \in BOOLEAN
    BY <1>c
  <1>4. /\ th' \in [Threads -> ThreadState] /\ th'[t] = Idle
        /\ \A u \in Threads : u # t => th'[u] = th[u]
    BY <1>a
  <1>5. TypeOK'
    <2>1. \A f \in Files : durable[f] <= flushed'[f]
      <3>1. \A f \in Files : durable[f] \in Nat /\ flushed[f] \in Nat /\ flushed'[f] \in Nat
        BY <1>a, <1>1 DEF Pushed
      <3> QED
        BY <3>1, <1>1, <1>a DEF Pushed
    <2>2. unsynced' \subseteq Files
      BY <1>a DEF TypeOK
    <2>3. /\ UNCHANGED <<strategy, written, durable, acked>>
          /\ flushed' \in [Files -> 0 .. MaxRecords] /\ broken' \subseteq Files
          /\ \A f \in Files : flushed'[f] <= written[f]
      BY <1>1 DEF Pushed
    <2> QED
      BY <2>1, <2>2, <2>3, <1>3, <1>4, <1>a DEF TypeOK, ThreadState
  <1>6. PathInv'
    <2>1. \A f \in Files : f < file + 1 => f \in broken' \/ flushed'[f] = written[f]
      BY <1>1, <1>a, PushKeepsFiles
    <2>2. written[file + 1] = 0 /\ \A f \in Files : f > file + 1 => written[f] = 0
      BY <1>3, <1>a DEF PathInv
    <2>3. flushed'[file + 1] = written[file + 1]
      BY <2>2, <1>1, <1>3, <1>a DEF Pushed
    <2>4. ASSUME NEW u \in Threads, th'[u].why = "append"
          PROVE  /\ th'[u].in <= file + 1 /\ th'[u].rec <= written[th'[u].in]
                 /\ th'[u].pc = "disk" =>
                      th'[u].in \in broken' \/ th'[u].rec <= flushed'[th'[u].in]
      <3>1. u # t /\ th'[u] = th[u]
        BY <1>4, <2>4 DEF Idle
      <3>2. th[u].in \in Nat /\ file \in Nat
        BY <1>a DEF ThreadState
      <3> QED
        BY <3>1, <3>2, <2>4, <1>1, PushKeepsAppender
    <2> QED
      BY <2>1, <2>2, <2>3, <2>4, <1>3 DEF PathInv
  <1>7. AckedSurvivesProcess'
    BY <1>1, PushKeepsFiles DEF AckedSurvivesProcess, sync_on_write
  <1> QED
    BY <1>5, <1>6, <1>7

(* Every step of a thread preserves the invariant. *)
LEMMA InvNext == Inv /\ [Next]_vars => Inv'
  <1> SUFFICES ASSUME Inv, [Next]_vars PROVE Inv'
    OBVIOUS
  <1>1. CASE UNCHANGED vars
    BY <1>1 DEF Inv, vars, TypeOK, PathInv, AckedSurvivesProcess, sync_on_write
  <1>2. ASSUME NEW t \in Threads, Append(t) \/ AppendFails(t) \/ CallSync(t) \/ Step(t) PROVE Inv'
    BY <1>2, AppendInv, AppendFailsInv, CallSyncInv, SyncLockedInv, SyncDiskInv, OpenInv DEF Step
  <1> QED
    BY <1>1, <1>2 DEF Next

(* Types, and no record is on disk before the kernel has it, nor in the kernel  *)
(* before it was written.                                                       *)
THEOREM WalTypeCorrect == Spec => []TypeOK
  <1>1. Inv => TypeOK
    BY DEF Inv
  <1> QED
    BY InvInit, InvNext, <1>1, PTL DEF Spec

(* With IMMEDIATE_ON_WRITE an acknowledged record has left the process, however *)
(* many writers share one sync and whatever files are opened meanwhile, and     *)
(* whatever dup and fdatasync answer, unless an fwrite or fflush of its file    *)
(* failed.                                                                      *)
THEOREM AckedAlwaysSurvives == Spec => []AckedSurvivesProcess
  <1>1. Inv => AckedSurvivesProcess
    BY DEF Inv
  <1> QED
    BY InvInit, InvNext, <1>1, PTL DEF Spec

=============================================================================
