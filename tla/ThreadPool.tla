----------------------------- MODULE ThreadPool -----------------------------
(***************************************************************************)
(* The bounded thread pool (threadpool.cpp): request handlers, vote        *)
(* requests and the application of committed entries run on it.            *)
(*                                                                         *)
(* Submitters push tasks and may wait, with a timeout, for a free slot;    *)
(* workers sleep on queue_not_empty_; one thread shuts the pool down.      *)
(* Every critical section of queue_mutex_ is one step, except the one that *)
(* matters: a worker evaluates its wait predicate and then goes to sleep,  *)
(* holding the mutex in between, while stop_ is set without the mutex.     *)
(***************************************************************************)
EXTENDS Naturals, Sequences, FiniteSets

CONSTANTS
    Workers,        \* worker threads
    Submitters,     \* callers of submit; each submits one task, named after it
    QueueSize,      \* max_queue_size_
    Stops,          \* the ways the pool may be stopped: "graceful", "immediate"
    None            \* no thread, no task

ASSUME PoolAssumption ==
    /\ QueueSize \in Nat
    /\ Stops \subseteq {"graceful", "immediate"}
    /\ None \notin Workers \cup Submitters
    /\ Workers # {}

VARIABLES
    task_queue,     \* task_queue_
    stop,           \* stop_
    owner,          \* the worker between its wait predicate and its sleep
    wpc, task,      \* the workers
    spc,            \* the submitters
    stopper,        \* the thread in shutdown()
    ran,            \* history: the tasks executed, in order
    early           \* history: the tasks queued before stop_ was set

vars == <<task_queue, stop, owner, wpc, task, spc, stopper, ran, early>>

Init ==
    /\ task_queue = <<>> /\ stop = FALSE /\ owner = None
    /\ wpc = [w \in Workers |-> "lock"] /\ task = [w \in Workers |-> None]
    /\ spc = [s \in Submitters |-> "call"]
    /\ stopper = "idle"
    /\ ran = <<>> /\ early = {}

\* notify_one and notify_all on queue_not_empty_ and queue_not_full_: a sleeping
\* thread goes back for the mutex.
NotifyOneWorker ==
    LET asleep == {w \in Workers : wpc[w] = "sleep"}
    IN  \/ asleep = {} /\ wpc' = wpc
        \/ \E w \in asleep : wpc' = [wpc EXCEPT ![w] = "lock"]
NotifyOneSubmitter ==
    LET waiting == {s \in Submitters : spc[s] = "wait"}
    IN  \/ waiting = {} /\ spc' = spc
        \/ \E s \in waiting : spc' = [spc EXCEPT ![s] = "woken"]

-----------------------------------------------------------------------------
(* ThreadPool::submit *)

Reject(s) == spc' = [spc EXCEPT ![s] = "rejected"] /\ UNCHANGED <<task_queue, early>>
Push(s) ==
    /\ task_queue' = Append(task_queue, s)
    /\ early' = IF stop THEN early ELSE early \cup {s}
    /\ spc' = [spc EXCEPT ![s] = "pushed"]
unchangedBySubmit == <<stop, owner, wpc, task, stopper, ran>>

\* The stop flag is read before the mutex is taken.
SubmitCall(s) ==
    /\ spc[s] = "call"
    /\ IF stop THEN Reject(s)
       ELSE spc' = [spc EXCEPT ![s] = "lock"] /\ UNCHANGED <<task_queue, early>>
    /\ UNCHANGED unchangedBySubmit

\* Mutant of SubmitPush: "size > max" for "size >= max".
SubmitPushOffByOne(s) ==
    /\ spc[s] = "lock" /\ owner = None
    /\ IF Len(task_queue) <= QueueSize THEN Push(s)
       ELSE IF stop THEN Reject(s)
       ELSE spc' = [spc EXCEPT ![s] = "wait"] /\ UNCHANGED <<task_queue, early>>
    /\ UNCHANGED unchangedBySubmit

\* With the mutex: push if there is room, otherwise wait_for, whose predicate
\* also lets a stopped pool through.
SubmitPush(s) ==
    /\ spc[s] = "lock" /\ owner = None
    /\ IF Len(task_queue) < QueueSize THEN Push(s)
       ELSE IF stop THEN Reject(s)
       ELSE spc' = [spc EXCEPT ![s] = "wait"] /\ UNCHANGED <<task_queue, early>>
    /\ UNCHANGED unchangedBySubmit

SubmitTimeout(s) ==
    /\ spc[s] = "wait"
    /\ spc' = [spc EXCEPT ![s] = "expired"]
    /\ UNCHANGED <<unchangedBySubmit, task_queue, early>>

\* Awake again, with the mutex.
SubmitWoken(s) ==
    /\ spc[s] \in {"woken", "expired"} /\ owner = None
    /\ IF stop THEN Reject(s)
       ELSE IF Len(task_queue) < QueueSize THEN Push(s)
       ELSE IF spc[s] = "expired" THEN Reject(s)
       ELSE spc' = [spc EXCEPT ![s] = "wait"] /\ UNCHANGED <<task_queue, early>>
    /\ UNCHANGED unchangedBySubmit

\* Mutant of SubmitNotify: nobody is woken.
SubmitNotifyNobody(s) ==
    /\ spc[s] = "pushed"
    /\ spc' = [spc EXCEPT ![s] = "accepted"]
    /\ UNCHANGED <<task_queue, stop, owner, wpc, task, stopper, ran, early>>

\* The mutex is released before the notification.
SubmitNotify(s) ==
    /\ spc[s] = "pushed"
    /\ NotifyOneWorker
    /\ spc' = [spc EXCEPT ![s] = "accepted"]
    /\ UNCHANGED <<task_queue, stop, owner, task, stopper, ran, early>>

Submit(s) ==
    SubmitCall(s) \/ SubmitPush(s) \/ SubmitTimeout(s) \/ SubmitWoken(s) \/ SubmitNotify(s)

-----------------------------------------------------------------------------
(* ThreadPool::worker_thread *)

\* Mutant of WorkerTake: the stop flag alone ends the loop.
WorkerTakeNoDrain(w) ==
    /\ wpc[w] = "lock" /\ owner = None
    /\ \/ /\ task_queue # <<>> /\ ~stop
          /\ task' = [task EXCEPT ![w] = Head(task_queue)]
          /\ task_queue' = Tail(task_queue)
          /\ wpc' = [wpc EXCEPT ![w] = "taken"] /\ owner' = owner
       \/ /\ stop
          /\ wpc' = [wpc EXCEPT ![w] = "exited"] /\ UNCHANGED <<task, task_queue, owner>>
       \/ /\ task_queue = <<>> /\ ~stop
          /\ wpc' = [wpc EXCEPT ![w] = "block"] /\ owner' = w /\ UNCHANGED <<task, task_queue>>
    /\ UNCHANGED <<stop, spc, stopper, ran, early>>

\* The wait predicate, with the mutex.
WorkerTake(w) ==
    /\ wpc[w] = "lock" /\ owner = None
    /\ \/ /\ task_queue # <<>>
          /\ task' = [task EXCEPT ![w] = Head(task_queue)]
          /\ task_queue' = Tail(task_queue)
          /\ wpc' = [wpc EXCEPT ![w] = "taken"] /\ owner' = owner
       \/ /\ task_queue = <<>> /\ stop
          /\ wpc' = [wpc EXCEPT ![w] = "exited"] /\ UNCHANGED <<task, task_queue, owner>>
       \/ /\ task_queue = <<>> /\ ~stop
          /\ wpc' = [wpc EXCEPT ![w] = "block"] /\ owner' = w /\ UNCHANGED <<task, task_queue>>
    /\ UNCHANGED <<stop, spc, stopper, ran, early>>

\* wait() gives the mutex back and sleeps.
WorkerSleep(w) ==
    /\ wpc[w] = "block"
    /\ wpc' = [wpc EXCEPT ![w] = "sleep"] /\ owner' = None
    /\ UNCHANGED <<task_queue, stop, task, spc, stopper, ran, early>>

WorkerNotify(w) ==
    /\ wpc[w] = "taken"
    /\ NotifyOneSubmitter
    /\ wpc' = [wpc EXCEPT ![w] = "run"]
    /\ UNCHANGED <<task_queue, stop, owner, task, stopper, ran, early>>

WorkerRun(w) ==
    /\ wpc[w] = "run"
    /\ ran' = Append(ran, task[w])
    /\ task' = [task EXCEPT ![w] = None]
    /\ wpc' = [wpc EXCEPT ![w] = "lock"]
    /\ UNCHANGED <<task_queue, stop, owner, spc, stopper, early>>

Worker(w) == WorkerTake(w) \/ WorkerSleep(w) \/ WorkerNotify(w) \/ WorkerRun(w)

-----------------------------------------------------------------------------
(* ThreadPool::shutdown *)

ShutdownFlag ==
    /\ stopper = "idle"
    /\ stop' = TRUE
    /\ \/ "immediate" \in Stops /\ stopper' = "discard"
       \/ "graceful" \in Stops /\ stopper' = "notify"
    /\ UNCHANGED <<task_queue, owner, wpc, task, spc, ran, early>>

\* Mutant of ShutdownDiscard: empties the queue without the mutex.
ShutdownDiscardUnlocked ==
    /\ stopper = "discard"
    /\ task_queue' = <<>> /\ stopper' = "notify"
    /\ early' = early \ {task_queue[i] : i \in 1 .. Len(task_queue)}
    /\ UNCHANGED <<stop, owner, wpc, task, spc, ran>>

\* stop_immediately empties the queue, with the mutex.
ShutdownDiscard ==
    /\ stopper = "discard" /\ owner = None
    /\ task_queue' = <<>> /\ stopper' = "notify"
    /\ early' = early \ {task_queue[i] : i \in 1 .. Len(task_queue)}
    /\ UNCHANGED <<stop, owner, wpc, task, spc, ran>>

ShutdownNotify ==
    /\ stopper = "notify"
    /\ wpc' = [w \in Workers |-> IF wpc[w] = "sleep" THEN "lock" ELSE wpc[w]]
    /\ spc' = [s \in Submitters |-> IF spc[s] = "wait" THEN "woken" ELSE spc[s]]
    /\ stopper' = "join"
    /\ UNCHANGED <<task_queue, stop, owner, task, ran, early>>

ShutdownJoin ==
    /\ stopper = "join" /\ \A w \in Workers : wpc[w] = "exited"
    /\ stopper' = "returned"
    /\ UNCHANGED <<task_queue, stop, owner, wpc, task, spc, ran, early>>

Shutdown == ShutdownDiscard \/ ShutdownNotify \/ ShutdownJoin

Next ==
    \/ \E s \in Submitters : Submit(s)
    \/ \E w \in Workers : Worker(w)
    \/ ShutdownFlag \/ Shutdown

\* Every thread that can run does; nobody is obliged to call submit or stop.
Spec ==
    /\ Init /\ [][Next]_vars
    /\ \A w \in Workers : WF_vars(Worker(w))
    /\ \A s \in Submitters : WF_vars(spc[s] # "call" /\ Submit(s))
    /\ WF_vars(Shutdown)

-----------------------------------------------------------------------------
(* Properties *)

\* Types, and the mutex is held exactly by a worker about to sleep.
TypeOK ==
    /\ task_queue \in Seq(Submitters) /\ stop \in BOOLEAN
    /\ wpc \in [Workers -> {"lock", "block", "sleep", "taken", "run", "exited"}]
    /\ task \in [Workers -> Submitters \cup {None}]
    /\ spc \in [Submitters -> {"call", "lock", "wait", "woken", "expired", "pushed",
                               "accepted", "rejected"}]
    /\ stopper \in {"idle", "discard", "notify", "join", "returned"}
    /\ ran \in Seq(Submitters) /\ early \subseteq Submitters
    /\ owner \in Workers \cup {None}
    /\ \A w \in Workers : wpc[w] = "block" <=> owner = w
    /\ stop <=> stopper # "idle"

\* submit (threadpool.cpp:30-80): however many submitters wait and are woken
\* together, the queue never outgrows max_queue_size_.
QueueBounded == Len(task_queue) <= QueueSize

Elems(q) == {q[i] : i \in 1 .. Len(q)}
Distinct(q) == \A i, j \in 1 .. Len(q) : q[i] = q[j] => i = j
Running == {task[w] : w \in Workers} \ {None}

\* shutdown (threadpool.cpp:103-143, threadpool.h:79-82): when stop() returns,
\* every task queued before it was called has been executed; workers leave only
\* once the queue is empty, and no task is lost or run twice on the way.
StopDrains ==
    /\ stopper = "returned" => early \subseteq Elems(ran)
    /\ Distinct(ran)

\* submit returning true (threadpool.h:61): an accepted task is executed, unless
\* the pool is stopped: no wake-up is lost between submitters and workers.
AcceptedTaskRuns == \A s \in Submitters : spc[s] = "accepted" ~> (s \in Elems(ran) \/ stop)

\* shutdown (threadpool.cpp:114-131): stop_immediately takes the mutex between
\* raising the flag and the broadcast, so no worker sleeps through it.
ImmediateStopReturns == stopper = "discard" ~> stopper = "returned"

\* shutdown (threadpool.h:79-88): a stop returns once the running tasks are over.
ShutdownReturns == stop ~> stopper = "returned"

(* The inductive invariant behind StopDrains: a pushed task is in exactly one   *)
(* place, and no early task is left in the queue once a worker has exited.      *)
Places == Elems(task_queue) \cup Running \cup Elems(ran)

TaskInv ==
    /\ \A w \in Workers : task[w] # None <=> wpc[w] \in {"taken", "run"}
    /\ \A w, v \in Workers : task[w] = task[v] /\ task[w] # None => w = v
    /\ Distinct(task_queue) /\ Distinct(ran)
    /\ Elems(task_queue) \cap Elems(ran) = {}
    /\ \A w \in Workers : task[w] \notin Elems(task_queue) \cup Elems(ran)
    /\ \A s \in Places : spc[s] \in {"pushed", "accepted"}
    /\ early \subseteq Places
    /\ \A w \in Workers : wpc[w] = "exited" => stop /\ Elems(task_queue) \cap early = {}
    /\ stopper = "returned" => \A w \in Workers : wpc[w] = "exited"

=============================================================================
