----------------------------- MODULE RaftSubmit -----------------------------
(***************************************************************************)
(* How a leader serves clients: submit_command and submit_batch_command    *)
(* (raft.cpp), the log they append to (RaftLog), the commit and apply      *)
(* loops, the requests that wait for their index (pending_requests_) and   *)
(* the cache of results (LRUCache).  Several threads of the server's pool  *)
(* submit at once, the process may crash between any two steps, and        *)
(* clients repeat request ids.  The node stays leader in one term: what    *)
(* changes leader and term is in module Raft.                              *)
(***************************************************************************)
EXTENDS RaftLog, FiniteSetsExt, Functions

CONSTANTS
    Threads,         \* threads of the server's pool
    Followers,       \* addresses of followers
    Commands,        \* single commands: [id, read, len]
    Batches,         \* batches: sequences of commands
    Modes,           \* values of need_majority_confirm_ considered
    Capacity,        \* result_cache_capacity
    Null,
    MaxSubmits,      \* bound: requests
    MaxCrashes,      \* bound: crashes
    MaxFailures      \* bound: writes to wal_file_ and index_file_ that fail

Requests == Commands \cup UNION {Range(b) : b \in Batches}
Id == {c.id : c \in Requests}

\* The record of a write has a header, so it has a length.
ASSUME SubmitAssumption ==
    /\ Capacity \in Nat \ {0} /\ Modes \subseteq BOOLEAN
    /\ {MaxSubmits, MaxCrashes, MaxFailures} \subseteq Nat
    /\ Null \notin Threads \cup {"ctor", "ack"} /\ Threads \cap {"ctor", "ack"} = {}
    /\ IsFiniteSet(Followers)
    /\ Requests \subseteq [id : Id, read : BOOLEAN, len : Nat]
    /\ \A c \in Requests : c.read \/ c.len > 0
    /\ Batches \subseteq Seq(Requests)

VARIABLES
    log,         \* log_array_
    log_lock,    \* who holds RaftLogArray::mutex_ across a write
    loop,        \* the commit or apply loop that holds RaftNode::mutex_
    commit,      \* commit_index_
    applied,     \* last_applied_
    meta,        \* the two as .raft_meta holds them
    match,       \* match_index_
    pending,     \* pending_requests_: index -> thread
    cache,       \* result_cache_, most recently used first
    thread,      \* what each thread is doing
    confirm,     \* need_majority_confirm_
    up,          \* the process runs
    used,        \* how much of each bound is used
    ghost        \* exec: what ran on the storage engine; misplaced: positions
                 \* whose recorded offset is not theirs; failed: indexes whose
                 \* write failed; lost: a write of the log's files failed and
                 \* the call went on; dropped: a restart gave up the log
vars == <<log, log_lock, loop, commit, applied, meta, match, pending, cache,
          thread, confirm, up, used, ghost>>

Idle == [pc |-> "idle", batch |-> FALSE, todo |-> <<>>, group |-> <<>>, read |-> FALSE,
         next |-> <<>>, index |-> 0, promise |-> Null, reply |-> <<>>]
NoLoop == [by |-> Null, kind |-> "apply", at |-> 0, upto |-> 0]

Init ==
    /\ log = EmptyLog /\ log_lock = Null /\ loop = NoLoop
    /\ commit = 0 /\ applied = 0 /\ meta = [commit |-> 0, applied |-> 0]
    /\ match = <<>> /\ pending = <<>> /\ cache = <<>>
    /\ thread = [t \in Threads |-> Idle]
    /\ confirm \in Modes /\ up = TRUE
    /\ used = [submits |-> 0, crashes |-> 0, failures |-> 0]
    /\ ghost = [exec |-> <<>>, misplaced |-> {}, failed |-> {}, lost |-> FALSE, dropped |-> FALSE]

With(f, k, v) == [j \in DOMAIN f \cup {k} |-> IF j = k THEN v ELSE f[j]]
Without(f, k) == Restrict(f, DOMAIN f \ {k})
Set(t, w) == thread' = [thread EXCEPT ![t] = w]
Use(what) == used' = [used EXCEPT ![what] = @ + 1]

-----------------------------------------------------------------------------
(* LRUCache (lru_cache.h): a list of [id, result], most recently used first *)

Cached(c, id) == \E k \in DOMAIN c : c[k].id = id
Position(c, id) == CHOOSE k \in DOMAIN c : c[k].id = id
Lookup(c, id) == c[Position(c, id)].result

\* The list without the node of id, which is there.
Others(c, id) == RemoveAt(c, Position(c, id))

\* LRUCache::get of an id that is there moves it to the front.
Touch(c, id) == IF Cached(c, id) THEN <<[id |-> id, result |-> Lookup(c, id)]>> \o Others(c, id) ELSE c

\* LRUCache::put.
\* Mutant: an update at capacity evicts another entry.
PutEvicting(c, id, result) ==
    LET kept == IF Len(c) >= Capacity THEN Front(c) ELSE c
    IN  <<[id |-> id, result |-> result]>> \o IF Cached(kept, id) THEN Others(kept, id) ELSE kept

Put(c, id, result) ==
    LET kept == IF Cached(c, id) THEN Others(c, id) ELSE IF Len(c) >= Capacity THEN Front(c) ELSE c
    IN  <<[id |-> id, result |-> result]>> \o kept

\* The gets of a thread that collects the results of ids, in order.
TouchAll(c, ids) ==
    LET after[k \in 0..Len(ids)] == IF k = 0 THEN c ELSE Touch(after[k - 1], ids[k])
    IN  after[Len(ids)]

Error(what) == [id |-> Null, n |-> 0, what |-> what]
Ids(cmds) == [k \in DOMAIN cmds |-> cmds[k].id]

\* The replies to the commands in cmds from the cache, or an error.
Harvest(w, cmds, otherwise) ==
    [id \in DOMAIN w.reply \cup {cmds[k].id : k \in DOMAIN cmds} |->
        IF id \notin {cmds[k].id : k \in DOMAIN cmds} THEN w.reply[id]
        ELSE IF Cached(cache, id) THEN Lookup(cache, id) ELSE Error(otherwise)]

-----------------------------------------------------------------------------
(* A thread takes a request *)

Serving == up /\ loop.by # "ctor"

\* submit_command up to the append: a cached result answers at once, a read
\* runs on the storage engine.
Submit(t, c) ==
    /\ Serving /\ thread[t].pc = "idle" /\ used.submits < MaxSubmits
    /\ LET hit == Cached(cache, c.id)
           w == [Idle EXCEPT !.pc = "done", !.group = <<c>>]
       IN  Set(t, IF hit THEN [w EXCEPT !.reply = With(<<>>, c.id, Lookup(cache, c.id))]
                  ELSE IF c.read THEN [w EXCEPT !.reply = With(<<>>, c.id, [id |-> c.id, n |-> 0, what |-> "read"])]
                  ELSE [w EXCEPT !.pc = "write"])
    /\ cache' = Touch(cache, c.id)
    /\ Use("submits")
    /\ UNCHANGED <<log, log_lock, loop, commit, applied, meta, match, pending, confirm, up, ghost>>

\* submit_batch_command presets every reply to a timeout.
SubmitBatch(t, b) ==
    /\ Serving /\ thread[t].pc = "idle" /\ used.submits < MaxSubmits
    /\ Set(t, [Idle EXCEPT !.pc = "scan", !.batch = TRUE, !.todo = b,
                           !.reply = [id \in Range(Ids(b)) |-> Error("timeout")]])
    /\ Use("submits")
    /\ UNCHANGED <<log, log_lock, loop, commit, applied, meta, match, pending, cache, confirm, up, ghost>>

\* One command of a batch: a cached result answers it, else it joins the current
\* group when it is of the group's kind; otherwise, and at the end of the batch,
\* the group runs first and the command, already looked up, begins the next one.
Scan(t) ==
    /\ Serving /\ thread[t].pc = "scan"
    /\ LET w == thread[t]
           c == Head(w.todo)
           run == IF w.group = <<>> THEN "done" ELSE IF w.read THEN "read" ELSE "write"
       IN  /\ Set(t, IF w.todo = <<>> THEN [w EXCEPT !.pc = run]
                     ELSE IF Cached(cache, c.id)
                     THEN [w EXCEPT !.todo = Tail(@), !.reply = With(@, c.id, Lookup(cache, c.id))]
                     ELSE IF w.group = <<>> \/ w.read = c.read
                     THEN [w EXCEPT !.todo = Tail(@), !.group = Append(@, c), !.read = c.read]
                     ELSE [w EXCEPT !.pc = run, !.todo = Tail(@), !.next = <<c>>])
           /\ cache' = IF w.todo = <<>> THEN cache ELSE Touch(cache, c.id)
    /\ UNCHANGED <<log, log_lock, loop, commit, applied, meta, match, pending, confirm, up, used, ghost>>

\* The batch goes on after a group.
Resume(w) ==
    [w EXCEPT !.pc = "scan", !.group = w.next, !.read = w.next # <<>> /\ ~@, !.next = <<>>,
              !.index = 0, !.promise = Null]

\* execute_batch_read_command: the reads run in order until the deadline.
BatchRead(t) ==
    /\ Serving /\ thread[t].pc = "read"
    /\ \E n \in 0..Len(thread[t].group) :
        LET w == thread[t]
            position(id) == CHOOSE k \in DOMAIN w.group : w.group[k].id = id
        IN  Set(t, [Resume(w) EXCEPT
                !.reply = [id \in DOMAIN @ |->
                    IF id \notin Range(Ids(w.group)) THEN @[id]
                    ELSE IF position(id) <= n THEN [id |-> id, n |-> 0, what |-> "read"]
                    ELSE Error("timeout")]])
    /\ UNCHANGED <<log, log_lock, loop, commit, applied, meta, match, pending, cache, confirm, up, used, ghost>>

\* The caller sends the replies.
Reply(t) ==
    /\ up /\ thread[t].pc = "done"
    /\ Set(t, Idle)
    /\ UNCHANGED <<log, log_lock, loop, commit, applied, meta, match, pending, cache, confirm, up, used, ghost>>

-----------------------------------------------------------------------------
(* Appending: RaftLogArray::append and batch_append under their mutex *)

NewEntries(t) ==
    Numbered(log, [k \in DOMAIN thread[t].group |->
        [index |-> 0, id |-> thread[t].group[k].id, len |-> thread[t].group[k].len]])

\* The write to wal_file_; the offset comes from ftell.
AppendWal(t) ==
    /\ Serving /\ thread[t].pc = "write" /\ log_lock = Null
    /\ log' = write_to_wal(log, NewEntries(t))
    /\ log_lock' = t
    /\ Set(t, [thread[t] EXCEPT !.pc = "index", !.index = ftell(log)])
    /\ ghost' = [ghost EXCEPT !.misplaced = IF ftell(log) = FileEnd(log) THEN @
            ELSE @ \cup {NewEntries(t)[k].index : k \in DOMAIN NewEntries(t)}]
    /\ UNCHANGED <<loop, commit, applied, meta, match, pending, cache, confirm, up, used>>

\* fflush of wal_file_ fails and nobody looks: the offsets are recorded all the same.
AppendWalLost(t) ==
    /\ Serving /\ thread[t].pc = "write" /\ log_lock = Null
    /\ used.failures < MaxFailures
    /\ \E n \in 0..(Len(NewEntries(t)) - 1) : \E bytes \in 0..(NewEntries(t)[n + 1].len - 1) :
        log' = write_in_part(log, NewEntries(t), n, bytes)
    /\ log_lock' = t
    /\ Set(t, [thread[t] EXCEPT !.pc = "index", !.index = ftell(log)])
    /\ ghost' = [ghost EXCEPT !.lost = TRUE]
    /\ Use("failures")
    /\ UNCHANGED <<loop, commit, applied, meta, match, pending, cache, confirm, up>>

\* What follows the append: the thread waits for its last index, or commits.
Following == IF confirm THEN "register" ELSE "commit"

\* The replies of a group of a batch that was not appended.
Failed(w) ==
    [Resume(w) EXCEPT !.reply = [id \in DOMAIN @ |-> IF id \in Range(Ids(w.group))
                                                    THEN Error("failed") ELSE @[id]]]

\* A failed write: append answers -1, which is true, and batch_append false.
AppendFails(t) ==
    /\ Serving /\ thread[t].pc = "write" /\ log_lock = Null
    /\ used.failures < MaxFailures
    /\ LET w == thread[t]
       IN  IF w.batch
           THEN Set(t, Failed(w)) /\ UNCHANGED ghost
           ELSE /\ Set(t, [w EXCEPT !.pc = Following, !.index = log.base + Len(log.entries)])
                /\ ghost' = [ghost EXCEPT !.failed = @ \cup {log.base + Len(log.entries)}]
    /\ Use("failures")
    /\ UNCHANGED <<log, log_lock, loop, commit, applied, meta, match, pending, cache, confirm, up>>

\* Over the threshold the call throws and the caller answers the whole request
\* with an error.
Appended(w, l) ==
    IF Throws(l)
    THEN [w EXCEPT !.pc = "done", !.reply = [id \in Range(Ids(w.group)) |-> Error("deadlock")]]
    ELSE [w EXCEPT !.pc = Following, !.index = LastIndex(l)]

\* Memory and index file.
AppendIndex(t) ==
    /\ Serving /\ thread[t].pc = "index"
    /\ LET es == NewEntries(t)
       IN  log' = store(log, es, Offsets(thread[t].index, es))
    /\ Set(t, Appended(thread[t], log'))
    /\ log_lock' = Null
    /\ UNCHANGED <<loop, commit, applied, meta, match, pending, cache, confirm, up, used, ghost>>

\* A failed write to index_file_.  Where it is seen, append goes on with a warning
\* and batch_append answers false with its records in wal_file_.
AppendIndexLost(t) ==
    /\ Serving /\ thread[t].pc = "index"
    /\ used.failures < MaxFailures
    /\ LET es == NewEntries(t)
       IN  \E n \in 0..(Len(es) - 1) :
            LET l == store_in_part(log, es, Offsets(thread[t].index, es), n)
            IN  \/ log' = l /\ Set(t, Appended(thread[t], l))
                \/ /\ thread[t].batch
                   /\ log' = [l EXCEPT !.entries = log.entries] /\ Set(t, Failed(thread[t]))
    /\ log_lock' = Null
    /\ ghost' = [ghost EXCEPT !.lost = TRUE]
    /\ Use("failures")
    /\ UNCHANGED <<loop, commit, applied, meta, match, pending, cache, confirm, up>>

\* The thread waits for the application of its last index.
\* Mutant: the thread waits for whatever index is last by now.
RegisterLast(t) ==
    /\ Serving /\ thread[t].pc = "register" /\ log_lock = Null
    /\ pending' = With(pending, LastIndex(log), t)
    /\ Set(t, [thread[t] EXCEPT !.pc = "commit"])
    /\ UNCHANGED <<log, log_lock, loop, commit, applied, meta, match, cache, confirm, up, used, ghost>>

Register(t) ==
    /\ Serving /\ thread[t].pc = "register"
    /\ pending' = With(pending, thread[t].index, t)
    /\ Set(t, [thread[t] EXCEPT !.pc = "commit"])
    /\ UNCHANGED <<log, log_lock, loop, commit, applied, meta, match, cache, confirm, up, used, ghost>>

-----------------------------------------------------------------------------
(* Committing and applying, under RaftNode::mutex_ *)

\* The middle of the match indexes m of the followers and the last index.
MajorityIndex(m) ==
    LET last == LastIndex(log)
        holders(v) == Cardinality({f \in DOMAIN m : m[f] >= v}) + IF last >= v THEN 1 ELSE 0
    IN  Max({v \in Range(m) \cup {last} : holders(v) > (Cardinality(DOMAIN m) + 1) \div 2})

Loop(by, from, upto) ==
    loop' = IF from < upto THEN [by |-> by, kind |-> "apply", at |-> from, upto |-> upto] ELSE NoLoop

\* try_commit_entries: every entry is of the current term here.
\* Mutant: the saved state already counts the entries about to run as applied.
try_commit_entries_saving(by, m) ==
    LET c == Max({commit, MajorityIndex(m)})
    IN  /\ commit' = c
        /\ meta' = IF c > commit THEN [commit |-> c, applied |-> c] ELSE meta
        /\ IF commit < LastIndex(log) THEN Loop(by, applied, c) ELSE UNCHANGED loop

try_commit_entries(by, m) ==
    LET c == Max({commit, MajorityIndex(m)})
    IN  /\ commit' = c
        /\ meta' = IF c > commit THEN [commit |-> c, applied |-> applied] ELSE meta
        /\ IF commit < LastIndex(log) THEN Loop(by, applied, c) ELSE UNCHANGED loop

\* commit_entries: all there is in the log.  Nothing is saved before the end.
\* Mutant: the last entry is left to the next write.
commit_entries_late(by) ==
    LET last == LastIndex(log)
    IN  /\ IF commit + 1 < last
           THEN commit' = last /\ loop' = [by |-> by, kind |-> "commit", at |-> applied, upto |-> last]
           ELSE UNCHANGED <<commit, loop>>
        /\ UNCHANGED meta

commit_entries(by) ==
    LET last == LastIndex(log)
    IN  /\ IF commit < last
           THEN commit' = last /\ loop' = [by |-> by, kind |-> "commit", at |-> applied, upto |-> last]
           ELSE UNCHANGED <<commit, loop>>
        /\ UNCHANGED meta

\* The submitting thread commits: what is left of it waits for the promise
\* or collects the results.
Commit(t) ==
    /\ Serving /\ thread[t].pc = "commit" /\ loop = NoLoop /\ log_lock = Null
    /\ IF confirm THEN try_commit_entries(t, match) ELSE commit_entries(t)
    /\ Set(t, [thread[t] EXCEPT !.pc = IF confirm THEN "wait" ELSE "harvest"])
    /\ UNCHANGED <<log, log_lock, applied, match, pending, cache, confirm, up, used, ghost>>

\* notify_request_applied: fulfil the promise that waits for the index.
notify_request_applied(i, result) ==
    IF i \in DOMAIN pending
    THEN /\ Set(pending[i], [thread[pending[i]] EXCEPT !.promise = result])
         /\ pending' = Without(pending, i)
    ELSE UNCHANGED <<thread, pending>>

\* One turn of apply_committed_entries_nolock or commit_entries.  Only the
\* former stores last_applied_ as it goes and notifies.
ApplyOne ==
    /\ up /\ loop.at < loop.upto /\ log_lock = Null
    /\ LET i == loop.at + 1
           found == InLog(log, i)
           id == get(log, i).id
           result == IF found THEN [id |-> id, n |-> Len(ghost.exec) + 1, what |-> "ok"]
                     ELSE Error("log read error")
       IN  /\ loop' = [loop EXCEPT !.at = i]
           /\ IF found
              THEN /\ ghost' = [ghost EXCEPT !.exec = Append(@, [at |-> i, id |-> id, life |-> used.crashes])]
                   /\ cache' = Put(cache, id, result)
              ELSE UNCHANGED <<ghost, cache>>
           /\ IF loop.kind = "apply"
              THEN applied' = i /\ notify_request_applied(i, result)
              ELSE UNCHANGED <<applied, thread, pending>>
    /\ UNCHANGED <<log, log_lock, commit, meta, match, confirm, up, used>>

\* The end of the loop saves the state.
ApplyDone ==
    /\ up /\ loop.by # Null /\ loop.at >= loop.upto
    /\ applied' = loop.upto
    /\ meta' = [commit |-> commit, applied |-> loop.upto]
    /\ loop' = NoLoop
    /\ UNCHANGED <<log, log_lock, commit, match, pending, cache, thread, confirm, up, used, ghost>>

-----------------------------------------------------------------------------
(* Waiting for the result *)

\* After the results of a group of a batch the thread goes on with the batch.
Collected(t, reply) ==
    LET w == thread[t]
    IN  Set(t, IF w.batch
               THEN [Resume(w) EXCEPT !.reply = reply]
               ELSE [w EXCEPT !.pc = "done", !.reply = reply])

\* The promise was fulfilled: a single command answers with what it holds, a
\* batch collects its results from the cache.
Notified(t) ==
    /\ up /\ thread[t].pc = "wait" /\ loop.by # t /\ thread[t].promise # Null
    /\ LET w == thread[t]
       IN  IF w.batch
           THEN Collected(t, Harvest(w, w.group, "failed")) /\ cache' = TouchAll(cache, Ids(w.group))
           ELSE Collected(t, With(<<>>, w.group[1].id, w.promise)) /\ UNCHANGED cache
    /\ UNCHANGED <<log, log_lock, loop, commit, applied, meta, match, pending, confirm, up, used, ghost>>

\* The wait ends first.  The promise may be fulfilled after the wait ended and
\* before the request is erased, so a fulfilled promise does not disable this.
Timeout(t) ==
    /\ up /\ thread[t].pc = "wait" /\ loop.by # t
    /\ pending' = Without(pending, thread[t].index)
    /\ LET w == thread[t]
       IN  IF w.batch
           THEN Collected(t, Harvest(w, w.group, "timeout")) /\ cache' = TouchAll(cache, Ids(w.group))
           ELSE Collected(t, With(<<>>, w.group[1].id, Error("timeout"))) /\ UNCHANGED cache
    /\ UNCHANGED <<log, log_lock, loop, commit, applied, meta, match, confirm, up, used, ghost>>

\* Without need_majority_confirm_ the results are in the cache after the commit.
CollectCommitted(t) ==
    /\ up /\ thread[t].pc = "harvest" /\ loop.by # t
    /\ Collected(t, Harvest(thread[t], thread[t].group, "failed"))
    /\ cache' = TouchAll(cache, Ids(thread[t].group))
    /\ UNCHANGED <<log, log_lock, loop, commit, applied, meta, match, pending, confirm, up, used, ghost>>

-----------------------------------------------------------------------------
(* Followers, crashes and restarts *)

\* handle_join_cluster: the follower enters match_index_, which nothing reads
\* without need_majority_confirm_.
Join(f) ==
    /\ Serving /\ confirm /\ loop = NoLoop /\ f \notin DOMAIN match
    /\ match' = With(match, f, 0)
    /\ UNCHANGED <<log, log_lock, loop, commit, applied, meta, pending, cache, thread, confirm, up, used, ghost>>

\* handle_append_entries_response: the follower holds the log up to some index.
Ack(f) ==
    /\ Serving /\ confirm /\ loop = NoLoop /\ log_lock = Null /\ f \in DOMAIN match
    /\ \E i \in match[f]..LastIndex(log) :
        /\ match' = [match EXCEPT ![f] = i]
        /\ try_commit_entries("ack", match')
    /\ UNCHANGED <<log, log_lock, applied, pending, cache, thread, confirm, up, used, ghost>>

\* The process dies between any two steps; what was flushed stays.
Crash ==
    /\ up /\ used.crashes < MaxCrashes
    /\ up' = FALSE
    /\ log_lock' = Null /\ loop' = NoLoop /\ match' = <<>> /\ pending' = <<>> /\ cache' = <<>>
    /\ thread' = [t \in Threads |-> Idle]
    /\ log' = [log EXCEPT !.entries = <<>>, !.base = 1]
    /\ commit' = 0 /\ applied' = 0
    /\ Use("crashes")
    /\ UNCHANGED <<meta, confirm, ghost>>

\* A record that cannot be read costs the whole log.
GivesUp(l) == \E k \in DOMAIN l.index : ~Readable(l, l.index[k])

\* The constructor: recover the log, load .raft_meta, cap commit_index_ at the
\* last index (last_applied_ is not capped) and apply what is committed.
\* Mutant: commit_index_ is not capped.
RestartUncapped ==
    /\ ~up /\ up' = TRUE
    /\ log' = recover(log) /\ ghost' = [ghost EXCEPT !.dropped = @ \/ GivesUp(log)]
    /\ applied' = meta.applied
    /\ commit' = meta.commit
    /\ Loop("ctor", meta.applied, commit')
    /\ UNCHANGED <<log_lock, meta, match, pending, cache, thread, confirm, used>>

Restart ==
    /\ ~up /\ up' = TRUE
    /\ log' = recover(log) /\ ghost' = [ghost EXCEPT !.dropped = @ \/ GivesUp(log)]
    /\ applied' = meta.applied
    /\ commit' = Min({meta.commit, LastIndex(log')})
    /\ Loop("ctor", meta.applied, commit')
    /\ UNCHANGED <<log_lock, meta, match, pending, cache, thread, confirm, used>>

-----------------------------------------------------------------------------
Next ==
    \/ \E t \in Threads :
        \/ \E c \in Commands : Submit(t, c)
        \/ \E b \in Batches : SubmitBatch(t, b)
        \/ Scan(t) \/ BatchRead(t) \/ Reply(t)
        \/ AppendWal(t) \/ AppendWalLost(t) \/ AppendFails(t)
        \/ AppendIndex(t) \/ AppendIndexLost(t) \/ Register(t)
        \/ Commit(t) \/ Notified(t) \/ Timeout(t) \/ CollectCommitted(t)
    \/ ApplyOne \/ ApplyDone
    \/ \E f \in Followers : Join(f) \/ Ack(f)
    \/ Crash \/ Restart

\* The processor runs some thread that can run (a request under way, the loop, a
\* process started again after a crash), and a connected follower answers heartbeats.
Progress ==
    \/ \E t \in Threads :
        \/ Scan(t) \/ BatchRead(t) \/ Reply(t) \/ AppendWal(t) \/ AppendIndex(t)
        \/ Register(t) \/ Commit(t) \/ Timeout(t) \/ CollectCommitted(t)
    \/ ApplyOne \/ ApplyDone \/ Restart

Fairness == WF_vars(Progress) /\ \A f \in Followers : WF_vars(Ack(f))

Spec == Init /\ [][Next]_vars
FairSpec == Spec /\ Fairness

-----------------------------------------------------------------------------
(* Properties *)

Outcomes == {"ok", "read", "timeout", "failed", "deadlock", "log read error"}
Result == [id : {Null} \cup Id, n : Nat, what : Outcomes]

\* Type invariant: the indexes are ordered as far as the code keeps them
\* (last_applied_ may pass commit_index_ after a log was lost), and a loop or a
\* held log mutex has an owner that is in the middle of something.
TypeOK ==
    /\ {commit, applied, meta.commit, meta.applied} \subseteq Nat
    /\ confirm \in BOOLEAN /\ up \in BOOLEAN
    /\ log_lock \in Threads \cup {Null}
    /\ log_lock # Null => thread[log_lock].pc = "index"
    /\ loop.by \in Threads \cup {Null, "ctor", "ack"}
    /\ DOMAIN pending \subseteq Nat /\ Range(pending) \subseteq Threads
    /\ Len(cache) <= Capacity
    /\ \A k \in DOMAIN cache : cache[k].result \in Result
    /\ commit <= LastIndex(log)

\* A client is answered with the result of its own command: what a promise or
\* the cache yields for a request id is a run of a command with that id
\* (submit_command, notify_request_applied).  The exception: append answers
\* true for a write that failed, and the thread then waits for an index that
\* the next request takes.
AnswerIsOwn ==
    \A t \in Threads : \A id \in DOMAIN thread[t].reply :
        LET r == thread[t].reply[id]
        IN  r.what = "ok" => \/ r.id = id /\ ghost.exec[r.n].id = id
                             \/ thread[t].index \in ghost.failed

\* The commands run on the storage engine in log order: within one life of the
\* process the position after the last, after a crash never further than that,
\* and whatever .raft_meta calls applied was run as the entry the log has there
\* (apply_committed_entries_nolock, commit_entries, the constructor).  The
\* exceptions: a write of the log's files failed unnoticed, or a restart gave up
\* the log, after which last_applied_ stays and what is written at the positions
\* up to it is never run; a misplaced entry is read as another one.
RunsInOrder ==
    /\ \A k \in 1..(Len(ghost.exec) - 1) :
        LET a == ghost.exec[k]
            b == ghost.exec[k + 1]
        IN  IF a.life = b.life THEN b.at = a.at + 1 ELSE b.at <= a.at + 1 \/ ghost.lost
    /\ ghost.lost \/ ghost.dropped \/
        \A i \in 1..meta.applied : \E k \in DOMAIN ghost.exec :
            /\ ghost.exec[k].at = i
            /\ InLog(log, i) /\ i \notin ghost.misplaced => get(log, i).id = ghost.exec[k].id

\* What a restart would recover now is the log in memory, wherever the process
\* stands in an append, as long as no write failed with the call going on
\* (raft_log_array.cpp, append, fflush), at every position except those written
\* first after a restart: their recorded offset is 0 (ftell on a file opened
\* "ab+").  One of those that cannot be read costs the whole log.
RecoveryFindsLog ==
    LET found == recover(log).entries
    IN  up /\ ~ghost.lost =>
            \/ GivesUp(log) /\ ghost.misplaced # {}
            \/ /\ Len(found) = Len(log.entries)
               /\ \A i \in DOMAIN log.entries \ ghost.misplaced : found[i] = log.entries[i]

\* The cache of results answers a retry with the latest run of the request, and
\* forgets none while no more requests ran than it has room for (LRUCache::put).
RetryFindsLatest ==
    LET runs == {k \in DOMAIN ghost.exec : ghost.exec[k].life = used.crashes}
        ids == {ghost.exec[k].id : k \in runs}
        latest(id) == Max({k \in runs : ghost.exec[k].id = id})
    IN  up => /\ \A k \in DOMAIN cache : cache[k].result.n = latest(cache[k].id)
              /\ Cardinality(ids) <= Capacity => \A id \in ids : Cached(cache, id)

\* A write that was appended and not refused runs in this life of the process,
\* whatever its client is told, unless the process dies (submit_command,
\* try_commit_entries, commit_entries).  An entry found by a restart waits for the
\* next write.  The exceptions: an append that failed or threw, and, after a
\* restart that found less than the log there was, an index that last_applied_
\* already counts: the constructor caps commit_index_ only (raft.cpp, 157-167).
AppendedIsApplied ==
    LET ran(i) == \E k \in DOMAIN ghost.exec :
            ghost.exec[k].at = i /\ ghost.exec[k].life = used.crashes
        counted(i) == (ghost.lost \/ ghost.dropped) /\ i <= applied
    IN  \A i \in 1..LogThreshold :
            (\E t \in Threads : /\ thread[t].pc \in {"register", "commit"} /\ thread[t].index = i
                                /\ i \notin ghost.failed /\ ~counted(i))
                ~> (ran(i) \/ ~up)
=============================================================================
