-------------------------- MODULE ThreadPoolProofs --------------------------
(***************************************************************************)
(* Proofs about the thread pool, for any number of workers and submitters  *)
(* and any queue size: types, the bound of the queue, and that a stop      *)
(* drains what was queued before it.                                       *)
(***************************************************************************)
EXTENDS ThreadPool, SequenceTheorems, TLAPS

(* Appending adds one element; a new one keeps the elements distinct. *)
LEMMA AppendElems ==
    ASSUME NEW S, NEW q \in Seq(S), NEW x \in S
    PROVE  /\ Append(q, x) \in Seq(S) /\ Len(Append(q, x)) = Len(q) + 1
           /\ Elems(Append(q, x)) = Elems(q) \cup {x}
           /\ Distinct(q) /\ x \notin Elems(q) => Distinct(Append(q, x))
  BY DEF Elems, Distinct

(* Taking the head off leaves the other elements. *)
LEMMA TailElems ==
    ASSUME NEW S, NEW q \in Seq(S), q # <<>>
    PROVE  /\ Head(q) \in S /\ Tail(q) \in Seq(S) /\ Len(Tail(q)) = Len(q) - 1
           /\ Elems(q) = Elems(Tail(q)) \cup {Head(q)}
           /\ Distinct(q) => Distinct(Tail(q)) /\ Head(q) \notin Elems(Tail(q))
  <1>1. /\ Head(q) \in S /\ Tail(q) \in Seq(S) /\ Len(Tail(q)) = Len(q) - 1
        /\ Len(q) \in Nat /\ Len(q) > 0 /\ Head(q) = q[1]
        /\ \A i \in 1 .. Len(q) - 1 : Tail(q)[i] = q[i + 1]
    OBVIOUS
  <1>2. Elems(q) = Elems(Tail(q)) \cup {Head(q)}
    <2>1. ASSUME NEW x \in Elems(q) PROVE x \in Elems(Tail(q)) \cup {Head(q)}
      <3>1. PICK i \in 1 .. Len(q) : x = q[i]
        BY DEF Elems
      <3>2. CASE i = 1
        BY <1>1, <3>1, <3>2
      <3>3. CASE i # 1
        <4>1. i - 1 \in 1 .. Len(Tail(q)) /\ Tail(q)[i - 1] = x
          BY <1>1, <3>1, <3>3
        <4> QED
          BY <4>1 DEF Elems
      <3> QED
        BY <3>2, <3>3
    <2>2. ASSUME NEW x \in Elems(Tail(q)) PROVE x \in Elems(q)
      <3>1. PICK i \in 1 .. Len(Tail(q)) : x = Tail(q)[i]
        BY DEF Elems
      <3>2. i + 1 \in 1 .. Len(q) /\ q[i + 1] = x
        BY <1>1, <3>1
      <3> QED
        BY <3>2 DEF Elems
    <2>3. Head(q) \in Elems(q)
      BY <1>1 DEF Elems
    <2> QED
      BY <2>1, <2>2, <2>3
  <1>3. Distinct(q) => Distinct(Tail(q)) /\ Head(q) \notin Elems(Tail(q))
    BY <1>1 DEF Distinct, Elems
  <1> QED
    BY <1>1, <1>2, <1>3

Inv == TypeOK /\ QueueBounded /\ TaskInv

(* The pool starts with an empty queue and all workers going for the mutex. *)
LEMMA InvInit == Init => Inv
  <1> SUFFICES ASSUME Init PROVE Inv
    OBVIOUS
  <1> USE PoolAssumption DEF Init
  <1>1. <<>> \in Seq(Submitters) /\ Len(<<>>) = 0 /\ Elems(<<>>) = {} /\ Distinct(<<>>)
    BY DEF Elems, Distinct
  <1>2. TypeOK
    BY <1>1 DEF TypeOK
  <1>3. QueueBounded
    BY <1>1 DEF QueueBounded
  <1>4. Running = {}
    BY DEF Running
  <1>5. TaskInv
    BY <1>1, <1>4 DEF TaskInv, Places
  <1> QED
    BY <1>2, <1>3, <1>5 DEF Inv

(* A push, with the mutex and a free slot, by a submitter whose task is nowhere. *)
LEMMA PushInv ==
    ASSUME Inv, NEW s \in Submitters, spc[s] \in {"lock", "woken", "expired"},
           Len(task_queue) < QueueSize, Push(s), UNCHANGED unchangedBySubmit
    PROVE  Inv'
  <1> USE PoolAssumption DEF Inv, Push, unchangedBySubmit
  <1>1. s \notin Places
    BY DEF TaskInv
  <1>2. /\ task_queue' \in Seq(Submitters) /\ Len(task_queue') = Len(task_queue) + 1
        /\ Elems(task_queue') = Elems(task_queue) \cup {s}
        /\ Distinct(task_queue')
    BY <1>1, AppendElems DEF TypeOK, TaskInv, Places
  <1>3. TypeOK'
    BY <1>2 DEF TypeOK
  <1>4. QueueBounded'
    BY <1>2, LenProperties DEF QueueBounded, TypeOK
  <1>5. Running' = Running /\ Elems(ran)' = Elems(ran) /\ Places' = Places \cup {s}
    BY <1>2 DEF Running, Places, Elems
  <1>6. \A w \in Workers : task[w] # s
    BY <1>1 DEF Places, Running
  <1>7. spc' = [spc EXCEPT ![s] = "pushed"] /\ spc \in [Submitters -> {"call", "lock", "wait", "woken", "expired", "pushed", "accepted", "rejected"}]
    BY DEF TypeOK
  <1>8. Places \subseteq Submitters
    BY DEF Places, Running, Elems, TypeOK
  <1>9. (\A t \in Places : spc[t] \in {"pushed", "accepted"})'
    BY <1>5, <1>7, <1>8 DEF TaskInv
  <1>10. (\A w \in Workers : wpc[w] = "exited" => stop /\ Elems(task_queue) \cap early = {})'
    BY <1>1, <1>2 DEF TaskInv, Places
  <1>11. (early \subseteq Places)'
    BY <1>5 DEF TaskInv
  <1>12. /\ (Elems(task_queue) \cap Elems(ran) = {})'
         /\ (\A w \in Workers : task[w] \notin Elems(task_queue) \cup Elems(ran))'
    BY <1>1, <1>2, <1>5, <1>6 DEF TaskInv, Places
  <1>13. TaskInv'
    BY <1>2, <1>9, <1>10, <1>11, <1>12 DEF TaskInv
  <1> QED
    BY <1>3, <1>4, <1>13

WorkerPC == {"lock", "block", "sleep", "taken", "run", "exited"}
SubmitPC == {"call", "lock", "wait", "woken", "expired", "pushed", "accepted", "rejected"}

(* Steps that only move threads: no pushed task is forgotten, no worker that    *)
(* holds a task, blocks or has exited is moved.                                 *)
LEMMA MoveInv ==
    ASSUME Inv, wpc' \in [Workers -> WorkerPC], spc' \in [Submitters -> SubmitPC],
           \A w \in Workers : wpc'[w] # wpc[w] =>
               wpc[w] \in {"sleep", "taken"} /\ wpc'[w] = (IF wpc[w] = "sleep" THEN "lock" ELSE "run"),
           \A s \in Submitters : spc[s] \in {"pushed", "accepted"} =>
               spc'[s] \in {"pushed", "accepted"},
           stopper' \in {"idle", "discard", "notify", "join", "returned"},
           stop' \in BOOLEAN, stop => stop', stop' <=> stopper' # "idle",
           stopper' = "returned" => \A w \in Workers : wpc'[w] = "exited",
           UNCHANGED <<task_queue, owner, task, ran, early>>
    PROVE  Inv'
  <1> USE PoolAssumption DEF Inv, WorkerPC, SubmitPC
  <1>1. TypeOK'
    BY DEF TypeOK
  <1>2. QueueBounded'
    BY DEF QueueBounded
  <1>3. Places' = Places /\ Running' = Running
    BY DEF Places, Running, Elems
  <1>4. Places \subseteq Submitters
    BY DEF Places, Running, Elems, TypeOK
  <1>5. (\A w \in Workers : task[w] # None <=> wpc[w] \in {"taken", "run"})'
    BY DEF TaskInv, TypeOK
  <1>6. (\A s \in Places : spc[s] \in {"pushed", "accepted"})'
    BY <1>3, <1>4 DEF TaskInv
  <1>7. (\A w \in Workers : wpc[w] = "exited" => stop /\ Elems(task_queue) \cap early = {})'
    BY DEF TaskInv, Elems
  <1>8. /\ (Distinct(task_queue) /\ Distinct(ran))'
        /\ (Elems(task_queue) \cap Elems(ran) = {})'
        /\ (\A w \in Workers : task[w] \notin Elems(task_queue) \cup Elems(ran))'
        /\ (\A w, v \in Workers : task[w] = task[v] /\ task[w] # None => w = v)'
    <2>1. Distinct(task_queue)' /\ Distinct(ran)'
      BY DEF TaskInv, Distinct
    <2>2. Elems(task_queue)' = Elems(task_queue) /\ Elems(ran)' = Elems(ran) /\ task' = task
      BY DEF Elems
    <2> QED
      BY <2>1, <2>2 DEF TaskInv
  <1>9. TaskInv'
    BY <1>3, <1>5, <1>6, <1>7, <1>8 DEF TaskInv
  <1> QED
    BY <1>1, <1>2, <1>9

(* Every step of a submitter preserves the invariant. *)
LEMMA SubmitInv ==
    ASSUME Inv, NEW s \in Submitters, Submit(s)
    PROVE  Inv'
  <1> USE PoolAssumption
  <1>0. /\ wpc \in [Workers -> WorkerPC] /\ spc \in [Submitters -> SubmitPC]
        /\ stopper \in {"idle", "discard", "notify", "join", "returned"}
        /\ stop \in BOOLEAN /\ (stop <=> stopper # "idle")
        /\ (stopper = "returned" => \A w \in Workers : wpc[w] = "exited")
    BY DEF Inv, TypeOK, TaskInv, WorkerPC, SubmitPC
  <1>1. ASSUME NEW pc \in SubmitPC, spc' = [spc EXCEPT ![s] = pc],
               spc[s] \notin {"pushed", "accepted"} \/ pc = "accepted",
               UNCHANGED <<task_queue, early, unchangedBySubmit>>
        PROVE  Inv'
    <2>1. spc' \in [Submitters -> SubmitPC]
      BY <1>0, <1>1
    <2>2. \A t \in Submitters : spc[t] \in {"pushed", "accepted"} =>
               spc'[t] \in {"pushed", "accepted"}
      BY <1>0, <1>1
    <2> QED
      BY <1>0, <1>1, <2>1, <2>2, MoveInv DEF unchangedBySubmit
  <1>2. CASE SubmitCall(s)
    BY <1>1, <1>2 DEF SubmitCall, Reject, SubmitPC
  <1>3. CASE SubmitPush(s)
    <2>1. CASE Len(task_queue) < QueueSize
      BY <1>3, <2>1, PushInv DEF SubmitPush
    <2>2. CASE ~(Len(task_queue) < QueueSize)
      BY <1>1, <1>3, <2>2 DEF SubmitPush, Reject, SubmitPC
    <2> QED
      BY <2>1, <2>2
  <1>4. CASE SubmitTimeout(s)
    BY <1>1, <1>4 DEF SubmitTimeout, SubmitPC
  <1>5. CASE SubmitWoken(s)
    <2>1. CASE ~stop /\ Len(task_queue) < QueueSize
      BY <1>5, <2>1, PushInv DEF SubmitWoken
    <2>2. CASE ~(~stop /\ Len(task_queue) < QueueSize)
      BY <1>1, <1>5, <2>2 DEF SubmitWoken, Reject, SubmitPC
    <2> QED
      BY <2>1, <2>2
  <1>6. CASE SubmitNotify(s)
    <2>1. /\ wpc' \in [Workers -> WorkerPC]
          /\ \A w \in Workers : wpc'[w] # wpc[w] => wpc[w] = "sleep" /\ wpc'[w] = "lock"
          /\ \A w \in Workers : wpc[w] = "exited" => wpc'[w] = "exited"
      <3>1. CASE wpc' = wpc
        BY <1>0, <3>1
      <3>2. ASSUME NEW w \in Workers, wpc[w] = "sleep", wpc' = [wpc EXCEPT ![w] = "lock"]
            PROVE  <2>1!1 /\ <2>1!2 /\ <2>1!3
        BY <1>0, <3>2 DEF WorkerPC
      <3> QED
        BY <1>6, <3>1, <3>2 DEF SubmitNotify, NotifyOneWorker
    <2>2. /\ spc' \in [Submitters -> SubmitPC]
          /\ \A t \in Submitters : spc[t] \in {"pushed", "accepted"} =>
                 spc'[t] \in {"pushed", "accepted"}
      BY <1>0, <1>6 DEF SubmitNotify, SubmitPC
    <2> QED
      BY <1>0, <1>6, <2>1, <2>2, MoveInv DEF SubmitNotify
  <1> QED
    BY <1>2, <1>3, <1>4, <1>5, <1>6 DEF Submit

(* A worker takes the oldest task: it leaves the queue for that worker. *)
LEMMA TakeInv ==
    ASSUME Inv, NEW w \in Workers, wpc[w] = "lock", task_queue # <<>>,
           task' = [task EXCEPT ![w] = Head(task_queue)], task_queue' = Tail(task_queue),
           wpc' = [wpc EXCEPT ![w] = "taken"],
           UNCHANGED <<stop, owner, spc, stopper, ran, early>>
    PROVE  Inv'
  <1> USE PoolAssumption DEF Inv
  <1> DEFINE h == Head(task_queue)
  <1>1. /\ h \in Submitters /\ task_queue' \in Seq(Submitters)
        /\ Len(task_queue') = Len(task_queue) - 1 /\ Len(task_queue) \in Nat
        /\ Elems(task_queue) = Elems(task_queue') \cup {h}
        /\ Distinct(task_queue') /\ h \notin Elems(task_queue')
    BY TailElems, LenProperties DEF TypeOK, TaskInv
  <1>2. task[w] = None /\ h # None
    BY <1>1 DEF TaskInv
  <1>3. TypeOK'
    BY <1>1 DEF TypeOK
  <1>4. QueueBounded'
    BY <1>1 DEF QueueBounded
  <1>5. Elems(ran)' = Elems(ran) /\ h \notin Elems(ran)
    <2>1. Elems(ran)' = Elems(ran)
      BY DEF Elems
    <2>2. h \in Elems(task_queue) /\ Elems(task_queue) \cap Elems(ran) = {}
      BY <1>1 DEF TaskInv
    <2> QED
      BY <2>1, <2>2
  <1>6. Running' = Running \cup {h}
    BY <1>1, <1>2 DEF Running, TypeOK
  <1>7. Places' = Places
    BY <1>1, <1>5, <1>6 DEF Places
  <1>8. (\A v \in Workers : task[v] # None <=> wpc[v] \in {"taken", "run"})'
    BY <1>2 DEF TaskInv, TypeOK
  <1>9. (\A u, v \in Workers : task[u] = task[v] /\ task[u] # None => u = v)'
    BY <1>1, <1>2 DEF TaskInv, TypeOK
  <1>10. (\A v \in Workers : task[v] \notin Elems(task_queue) \cup Elems(ran))'
    BY <1>1, <1>5 DEF TaskInv, TypeOK
  <1>11. (\A v \in Workers : wpc[v] = "exited" => stop /\ Elems(task_queue) \cap early = {})'
    BY <1>1 DEF TaskInv, TypeOK
  <1>12. stopper' # "returned"
    BY DEF TaskInv
  <1>13. Distinct(ran)' /\ (\A s \in Places : spc[s] \in {"pushed", "accepted"})'
         /\ (early \subseteq Places)'
    BY <1>7 DEF TaskInv, Distinct
  <1>14. TaskInv'
    BY <1>1, <1>5, <1>8, <1>9, <1>10, <1>11, <1>12, <1>13 DEF TaskInv
  <1> QED
    BY <1>3, <1>4, <1>14

(* A worker finishes its task. *)
LEMMA RunInv ==
    ASSUME Inv, NEW w \in Workers, WorkerRun(w)
    PROVE  Inv'
  <1> USE PoolAssumption DEF Inv, WorkerRun
  <1> DEFINE x == task[w]
  <1>1. x \in Submitters /\ x # None /\ x \notin Elems(ran) /\ x \notin Elems(task_queue)
    BY DEF TaskInv, TypeOK
  <1>2. ran' \in Seq(Submitters) /\ Elems(ran') = Elems(ran) \cup {x} /\ Distinct(ran')
    BY <1>1, AppendElems DEF TypeOK, TaskInv
  <1>3. TypeOK'
    BY <1>2 DEF TypeOK
  <1>4. QueueBounded'
    BY DEF QueueBounded
  <1>5. Elems(task_queue)' = Elems(task_queue) /\ Distinct(task_queue)'
    BY DEF TaskInv, Elems, Distinct
  <1>6. \A v \in Workers : task'[v] = IF v = w THEN None ELSE task[v]
    BY DEF TypeOK
  <1>7. Running' \cup {x} = Running
    BY <1>1, <1>6 DEF Running
  <1>8. Places' = Places
    BY <1>2, <1>5, <1>7 DEF Places
  <1>9. (\A v \in Workers : task[v] # None <=> wpc[v] \in {"taken", "run"})'
    BY <1>6 DEF TaskInv, TypeOK
  <1>10. (\A u, v \in Workers : task[u] = task[v] /\ task[u] # None => u = v)'
    BY <1>6 DEF TaskInv
  <1>11. (\A v \in Workers : task[v] \notin Elems(task_queue) \cup Elems(ran))'
    <2>1. None \notin Elems(task_queue) \cup Elems(ran')
      BY <1>2 DEF Elems, TypeOK
    <2>2. \A v \in Workers : v # w => task[v] # x
      BY <1>1 DEF TaskInv
    <2> QED
      BY <1>2, <1>5, <1>6, <2>1, <2>2 DEF TaskInv
  <1>12. (\A v \in Workers : wpc[v] = "exited" => stop /\ Elems(task_queue) \cap early = {})'
    BY <1>5 DEF TaskInv, TypeOK
  <1>13. stopper' # "returned"
    BY DEF TaskInv
  <1>14. (Elems(task_queue) \cap Elems(ran) = {})'
    BY <1>1, <1>2, <1>5 DEF TaskInv
  <1>15. TaskInv'
    BY <1>2, <1>5, <1>8, <1>9, <1>10, <1>11, <1>12, <1>13, <1>14 DEF TaskInv
  <1> QED
    BY <1>3, <1>4, <1>15

(* A worker leaves or goes to sleep: only its position and the mutex change. *)
LEMMA LeaveInv ==
    ASSUME Inv, NEW w \in Workers, NEW pc \in {"exited", "block", "sleep"},
           wpc' = [wpc EXCEPT ![w] = pc],
           wpc[w] \in {"lock", "block"}, wpc[w] = "lock" => owner = None,
           owner' = IF pc = "block" THEN w ELSE None,
           pc = "exited" => task_queue = <<>> /\ stop /\ wpc[w] = "lock",
           pc = "block" => wpc[w] = "lock",
           pc = "sleep" => wpc[w] = "block",
           UNCHANGED <<task_queue, stop, task, spc, stopper, ran, early>>
    PROVE  Inv'
  <1> USE PoolAssumption DEF Inv
  <1>0. \A v \in Workers : wpc'[v] = IF v = w THEN pc ELSE wpc[v]
    BY DEF TypeOK
  <1>1. TypeOK'
    <2>1. wpc' \in [Workers -> {"lock", "block", "sleep", "taken", "run", "exited"}]
      BY DEF TypeOK
    <2>2. \A v \in Workers : wpc'[v] = "block" <=> owner' = v
      BY <1>0 DEF TypeOK
    <2> QED
      BY <2>1, <2>2 DEF TypeOK
  <1>2. QueueBounded'
    BY DEF QueueBounded
  <1>3. /\ Elems(task_queue)' = Elems(task_queue) /\ Elems(ran)' = Elems(ran)
        /\ Running' = Running /\ Places' = Places
        /\ Distinct(task_queue)' /\ Distinct(ran)'
    BY DEF Elems, Running, Places, Distinct, TaskInv
  <1>4. (\A v \in Workers : task[v] # None <=> wpc[v] \in {"taken", "run"})'
    BY <1>0 DEF TaskInv
  <1>5. task_queue = <<>> => Elems(task_queue) = {}
    BY DEF Elems
  <1>6. (\A v \in Workers : wpc[v] = "exited" => stop /\ Elems(task_queue) \cap early = {})'
    BY <1>0, <1>3, <1>5 DEF TaskInv
  <1>7. stopper' # "returned"
    BY DEF TaskInv
  <1>8. TaskInv'
    BY <1>3, <1>4, <1>6, <1>7 DEF TaskInv
  <1> QED
    BY <1>1, <1>2, <1>8

(* Every step of a worker preserves the invariant. *)
LEMMA WorkerInv ==
    ASSUME Inv, NEW w \in Workers, Worker(w)
    PROVE  Inv'
  <1> USE PoolAssumption
  <1>1. CASE WorkerTake(w)
    <2>1. CASE task_queue # <<>>
      BY <1>1, <2>1, TakeInv DEF WorkerTake
    <2>2. CASE task_queue = <<>> /\ stop
      <3>1. wpc[w] = "lock" /\ owner = None /\ wpc' = [wpc EXCEPT ![w] = "exited"]
            /\ UNCHANGED <<task_queue, stop, owner, task, spc, stopper, ran, early>>
        BY <1>1, <2>2 DEF WorkerTake
      <3> QED
        BY <2>2, <3>1, LeaveInv
    <2>3. CASE task_queue = <<>> /\ ~stop
      <3>1. wpc[w] = "lock" /\ owner = None /\ wpc' = [wpc EXCEPT ![w] = "block"] /\ owner' = w
            /\ UNCHANGED <<task_queue, stop, task, spc, stopper, ran, early>>
        BY <1>1, <2>3 DEF WorkerTake
      <3> QED
        BY <3>1, LeaveInv
    <2> QED
      BY <2>1, <2>2, <2>3 DEF Inv, TypeOK
  <1>2. CASE WorkerSleep(w)
    BY <1>2, LeaveInv DEF WorkerSleep
  <1>3. CASE WorkerNotify(w)
    <2>0. /\ wpc \in [Workers -> WorkerPC] /\ spc \in [Submitters -> SubmitPC]
          /\ stopper \in {"idle", "discard", "notify", "join", "returned"}
          /\ stop \in BOOLEAN /\ (stop <=> stopper # "idle")
          /\ (stopper = "returned" => \A v \in Workers : wpc[v] = "exited")
      BY DEF Inv, TypeOK, TaskInv, WorkerPC, SubmitPC
    <2>1. /\ wpc' \in [Workers -> WorkerPC] /\ stopper # "returned"
          /\ \A v \in Workers : wpc'[v] # wpc[v] => wpc[v] = "taken" /\ wpc'[v] = "run"
      BY <1>3, <2>0 DEF WorkerNotify, WorkerPC
    <2>2. /\ spc' \in [Submitters -> SubmitPC]
          /\ \A t \in Submitters : spc[t] \in {"pushed", "accepted"} =>
                 spc'[t] \in {"pushed", "accepted"}
      BY <1>3, <2>0 DEF WorkerNotify, NotifyOneSubmitter, SubmitPC
    <2> QED
      BY <1>3, <2>0, <2>1, <2>2, MoveInv DEF WorkerNotify
  <1>4. CASE WorkerRun(w)
    BY <1>4, RunInv
  <1> QED
    BY <1>1, <1>2, <1>3, <1>4 DEF Worker

(* Every step of the thread in shutdown() preserves the invariant. *)
LEMMA ShutdownInv ==
    ASSUME Inv, ShutdownFlag \/ Shutdown
    PROVE  Inv'
  <1> USE PoolAssumption
  <1>0. /\ wpc \in [Workers -> WorkerPC] /\ spc \in [Submitters -> SubmitPC]
        /\ stopper \in {"idle", "discard", "notify", "join", "returned"}
        /\ stop \in BOOLEAN /\ (stop <=> stopper # "idle")
        /\ (stopper = "returned" => \A v \in Workers : wpc[v] = "exited")
    BY DEF Inv, TypeOK, TaskInv, WorkerPC, SubmitPC
  <1>1. CASE ShutdownFlag
    BY <1>0, <1>1, MoveInv DEF ShutdownFlag
  <1>2. CASE ShutdownDiscard
    <2> USE <1>2 DEF Inv, ShutdownDiscard
    <2>1. <<>> \in Seq(Submitters) /\ Len(<<>>) = 0 /\ Elems(<<>>) = {} /\ Distinct(<<>>)
      BY DEF Elems, Distinct
    <2>2. TypeOK'
      BY <2>1 DEF TypeOK
    <2>3. QueueBounded'
      BY <2>1 DEF QueueBounded
    <2>4. /\ Elems(task_queue)' = {} /\ Distinct(task_queue)'
          /\ Elems(ran)' = Elems(ran) /\ Running' = Running
          /\ Places' = Running \cup Elems(ran)
      BY <2>1 DEF Elems, Running, Places
    <2>5. early' = early \ Elems(task_queue)
      BY DEF Elems
    <2>6. (early \subseteq Places)'
      BY <2>4, <2>5 DEF TaskInv, Places
    <2>7. (\A s \in Places : spc[s] \in {"pushed", "accepted"})'
      BY <2>4 DEF TaskInv, Places
    <2>8. Distinct(ran)'
      BY DEF TaskInv, Distinct
    <2>9. TaskInv'
      BY <2>4, <2>6, <2>7, <2>8 DEF TaskInv
    <2> QED
      BY <2>2, <2>3, <2>9
  <1>3. CASE ShutdownNotify
    <2>1. /\ wpc' \in [Workers -> WorkerPC] /\ spc' \in [Submitters -> SubmitPC]
          /\ \A w \in Workers : wpc'[w] # wpc[w] => wpc[w] = "sleep" /\ wpc'[w] = "lock"
          /\ \A t \in Submitters : spc[t] \in {"pushed", "accepted"} =>
                 spc'[t] \in {"pushed", "accepted"}
      BY <1>0, <1>3 DEF ShutdownNotify, WorkerPC, SubmitPC
    <2> QED
      BY <1>0, <1>3, <2>1, MoveInv DEF ShutdownNotify
  <1>4. CASE ShutdownJoin
    BY <1>0, <1>4, MoveInv DEF ShutdownJoin
  <1> QED
    BY <1>1, <1>2, <1>3, <1>4 DEF Shutdown

(* The invariant is inductive. *)
LEMMA InvNext == Inv /\ [Next]_vars => Inv'
  <1> SUFFICES ASSUME Inv, [Next]_vars PROVE Inv'
    OBVIOUS
  <1>1. CASE UNCHANGED vars
    <2>0. /\ wpc \in [Workers -> WorkerPC] /\ spc \in [Submitters -> SubmitPC]
          /\ stopper \in {"idle", "discard", "notify", "join", "returned"}
          /\ stop \in BOOLEAN /\ (stop <=> stopper # "idle")
          /\ (stopper = "returned" => \A v \in Workers : wpc[v] = "exited")
      BY DEF Inv, TypeOK, TaskInv, WorkerPC, SubmitPC
    <2> QED
      BY <1>1, <2>0, MoveInv DEF vars
  <1> QED
    BY <1>1, SubmitInv, WorkerInv, ShutdownInv DEF Next

(* StopDrains follows: when every worker has exited nothing is running and      *)
(* nothing early is queued.                                                     *)
LEMMA InvDrains == Inv => StopDrains
  <1> SUFFICES ASSUME Inv PROVE StopDrains
    OBVIOUS
  <1>1. ASSUME stopper = "returned" PROVE early \subseteq Elems(ran)
    <2>1. \A w \in Workers : wpc[w] = "exited" /\ task[w] = None
      BY <1>1 DEF Inv, TaskInv
    <2>2. Running = {}
      BY <2>1 DEF Running
    <2>3. Elems(task_queue) \cap early = {}
      BY <2>1, PoolAssumption DEF Inv, TaskInv
    <2> QED
      BY <2>2, <2>3 DEF Inv, TaskInv, Places
  <1> QED
    BY <1>1 DEF StopDrains, Inv, TaskInv

(* For any number of workers and submitters the pool's state keeps its types,   *)
(* and the mutex is held only by the worker about to sleep.                     *)
THEOREM PoolTypeCorrect == Spec => []TypeOK
  <1>1. Inv => TypeOK
    BY DEF Inv
  <1> QED
    BY <1>1, InvInit, InvNext, PTL DEF Spec

(* submit never lets the queue grow beyond max_queue_size_. *)
THEOREM QueueAlwaysBounded == Spec => []QueueBounded
  <1>1. Inv => QueueBounded
    BY DEF Inv
  <1> QED
    BY <1>1, InvInit, InvNext, PTL DEF Spec

(* When stop() returns, every task queued before it has been executed, once. *)
THEOREM StopAlwaysDrains == Spec => []StopDrains
  BY InvDrains, InvInit, InvNext, PTL DEF Spec

=============================================================================
