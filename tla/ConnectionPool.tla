--------------------------- MODULE ConnectionPool ---------------------------
(***************************************************************************)
(* The connections of the server: TCPServer (server.h) and EyaServer       *)
(* (tcp_server.cpp).  The master loop accepts, up to a limit; further      *)
(* clients wait in a queue until another connection closes.  Slave loops,  *)
(* pool workers, the thread that expels clients which do not authenticate  *)
(* and stop() all close connections, each with the steps of close_socket,  *)
(* and whoever closes one activates one that waits.                        *)
(*                                                                         *)
(* A socket is a file descriptor, so accept gives a closed one again; the  *)
(* connection behind it is a number of its own.                            *)
(***************************************************************************)
EXTENDS Integers, FiniteSetsExt, SequencesExt, Functions

CONSTANTS
    Sock,            \* file descriptors
    Slaves,          \* threads of run_slave
    Workers,         \* threads of the server's pool
    MaxConnections,  \* max_connections_
    QueueSize,       \* connect_wait_queue_size_
    Width,           \* the unsigned counter wraps at Width
    None,
    MaxArrivals,     \* bound: clients
    MaxRequests,     \* bound: requests read
    MaxFailures      \* bound: failures of epoll_ctl

Closers == Slaves \cup Workers \cup {"auth", "stop"}

ASSUME PoolAssumption ==
    /\ MaxConnections \in Nat \ {0} /\ QueueSize \in Nat
    /\ Sock \subseteq Nat /\ IsFiniteSet(Sock) /\ None \notin Sock
    /\ IsFiniteSet(Slaves) /\ IsFiniteSet(Workers)
    /\ Width \in Nat /\ Width > MaxConnections + Cardinality(Closers) + 1
    /\ {MaxArrivals, MaxRequests, MaxFailures} \subseteq Nat

VARIABLES
    client,        \* the connection behind each descriptor, 0 when it is closed
    sessions,      \* all_sessions_
    count,         \* current_connections_
    waiting,       \* wait_queue_
    noauth,        \* connections_without_auth_
    master,        \* what the accept loop is doing; in "count" it holds wait_queue_mutex_
    thread,        \* what every thread that may close is doing
    running,       \* is_running_
    used,          \* how much of each bound is used
    ghost          \* authed: connections that authenticated; robbed: those whose
                   \* entry in noauth an earlier connection's request erased;
                   \* skipped: decrements left out; lost: activations that failed;
                   \* below: a decrement took the counter below zero
vars == <<client, sessions, count, waiting, noauth, master, thread, running, used, ghost>>

IdleThread == [pc |-> "idle", sock |-> None, conn |-> 0, todo |-> {}]

Init ==
    /\ client = [s \in Sock |-> 0] /\ sessions = {} /\ count = 0
    /\ waiting = <<>> /\ noauth = {}
    /\ master = [pc |-> "idle", sock |-> None]
    /\ thread = [c \in Closers |-> IdleThread]
    /\ running = TRUE
    /\ used = [arrivals |-> 0, requests |-> 0, failures |-> 0]
    /\ ghost = [authed |-> {}, robbed |-> {}, skipped |-> 0, lost |-> 0,
               below |-> FALSE]

Use(what) == used' = [used EXCEPT ![what] = @ + 1]
Unlocked == master.pc # "count"
Close(s) == client' = [client EXCEPT ![s] = 0]
Goto(c, pc) == thread' = [thread EXCEPT ![c].pc = pc]

\* The loops take an event when they are done with the last one, until stop().
run == running /\ master.pc = "idle"
run_slave(c) == running /\ thread[c].pc = "idle"

\* The session becomes visible to the slave loops.
assign_to_slave(s) == sessions' = sessions \cup {s}

-----------------------------------------------------------------------------
(* EyaServer::handle_accept, in the master loop *)

\* accept gives the lowest descriptor that is not in use.  The loop goes on
\* until accept finds nobody, even if stop() was called meanwhile.
Accept ==
    /\ master.pc = "more" \/ run
    /\ thread["stop"].pc # "stopped"
    /\ used.arrivals < MaxArrivals
    /\ \E s \in Sock :
        /\ client[s] = 0 /\ \A r \in Sock : r < s => client[r] # 0
        /\ client' = [client EXCEPT ![s] = used.arrivals + 1]
        /\ master' = [pc |-> "decide", sock |-> s]
    /\ Use("arrivals")
    /\ UNCHANGED <<sessions, count, waiting, noauth, thread, running, ghost>>

NobodyWaits ==
    /\ master.pc = "more"
    /\ master' = [pc |-> "idle", sock |-> None]
    /\ UNCHANGED <<client, sessions, count, waiting, noauth, thread, running, used, ghost>>

\* Under wait_queue_mutex_: room for one more, so the session is registered.
Admit ==
    /\ master.pc = "decide" /\ count < MaxConnections
    /\ assign_to_slave(master.sock)
    /\ master' = [master EXCEPT !.pc = "count"]
    /\ UNCHANGED <<client, count, waiting, noauth, thread, running, used, ghost>>

\* assign_to_slave fails and takes the session back.
AdmitFails ==
    /\ master.pc = "decide" /\ count < MaxConnections
    /\ used.failures < MaxFailures
    /\ Close(master.sock)
    /\ master' = [pc |-> "more", sock |-> None]
    /\ Use("failures")
    /\ UNCHANGED <<sessions, count, waiting, noauth, thread, running, ghost>>

\* No room: wait, or be refused when the queue is full too.
\* Mutant: the counter was tested before the lock was taken, and fell since.
EnqueueStale ==
    /\ master.pc = "decide" /\ used.arrivals > 1 /\ Len(waiting) < QueueSize
    /\ waiting' = Append(waiting, master.sock)
    /\ master' = [pc |-> "more", sock |-> None]
    /\ UNCHANGED <<client, sessions, count, noauth, thread, running, used, ghost>>

Enqueue ==
    /\ master.pc = "decide" /\ count >= MaxConnections /\ Len(waiting) < QueueSize
    /\ waiting' = Append(waiting, master.sock)
    /\ master' = [pc |-> "more", sock |-> None]
    /\ UNCHANGED <<client, sessions, count, noauth, thread, running, used, ghost>>

Refuse ==
    /\ master.pc = "decide" /\ count >= MaxConnections /\ Len(waiting) >= QueueSize
    /\ Close(master.sock)
    /\ master' = [pc |-> "more", sock |-> None]
    /\ UNCHANGED <<sessions, count, waiting, noauth, thread, running, used, ghost>>

\* The connection is counted after its session is visible to the slave loops;
\* then the lock is released.
Count ==
    /\ master.pc = "count"
    /\ count' = (count + 1) % Width
    /\ master' = [master EXCEPT !.pc = "ready"]
    /\ UNCHANGED <<client, sessions, waiting, noauth, thread, running, used, ghost>>

\* Outside the lock: the client has two seconds to authenticate from now.
Ready ==
    /\ master.pc = "ready"
    /\ noauth' = noauth \cup {master.sock}
    /\ master' = [pc |-> "more", sock |-> None]
    /\ UNCHANGED <<client, sessions, count, waiting, thread, running, used, ghost>>

-----------------------------------------------------------------------------
(* Who closes a connection *)

Begin(c, s) == thread' = [thread EXCEPT ![c] = [@ EXCEPT !.pc = "erase", !.sock = s, !.conn = client[s]]]

\* handle_client_read: the client is gone or sent something unreadable.
ReadFails(c, s) ==
    /\ run_slave(c) /\ s \in sessions
    /\ Begin(c, s)
    /\ UNCHANGED <<client, sessions, count, waiting, noauth, master, running, used, ghost>>

\* handle_client_read hands a request to a thread of the pool.
Request(c, s) ==
    /\ \E d \in Slaves : run_slave(d)
    /\ s \in sessions /\ thread[c].pc = "idle" /\ used.requests < MaxRequests
    /\ thread' = [thread EXCEPT ![c] = [@ EXCEPT !.pc = "request", !.sock = s, !.conn = client[s]]]
    /\ Use("requests")
    /\ UNCHANGED <<client, sessions, count, waiting, noauth, master, running, ghost>>

\* handle_request, AUTH with the right password.  The descriptor may belong to
\* another client by now.
Authenticate(c) ==
    /\ thread[c].pc = "request"
    /\ LET s == thread[c].sock
       IN  /\ noauth' = noauth \ {s}
           /\ ghost' = [ghost EXCEPT !.authed = @ \cup {thread[c].conn},
                                     !.robbed = IF client[s] # thread[c].conn THEN @ \cup {client[s]} ELSE @]
    /\ thread' = [thread EXCEPT ![c] = IdleThread]
    /\ UNCHANGED <<client, sessions, count, waiting, master, running, used>>

\* handle_request, a command without the key: the connection is closed.
Reject(c) ==
    /\ thread[c].pc = "request" /\ Goto(c, "erase")
    /\ UNCHANGED <<client, sessions, count, waiting, noauth, master, running, used, ghost>>

\* handle_request, a wrong password or a command with the key: an answer only.
Answer(c) ==
    /\ thread[c].pc = "request"
    /\ thread' = [thread EXCEPT ![c] = IdleThread]
    /\ UNCHANGED <<client, sessions, count, waiting, noauth, master, running, used, ghost>>

\* The authentication monitor: two seconds passed for some clients.
Expel ==
    /\ thread["auth"].pc = "idle" /\ thread["stop"].pc = "idle"
    /\ \E late \in SUBSET noauth \ {{}} :
        /\ noauth' = noauth \ late
        /\ thread' = [thread EXCEPT !["auth"] = [@ EXCEPT !.pc = "next", !.todo = late]]
    /\ UNCHANGED <<client, sessions, count, waiting, master, running, used, ghost>>

\* The monitor and stop() close their list one by one.
CloseNext(c) ==
    /\ thread[c].pc = "next"
    /\ \/ \E s \in thread[c].todo :
            thread' = [thread EXCEPT ![c] = [pc |-> "erase", sock |-> s, conn |-> client[s], todo |-> @.todo \ {s}]]
       \/ /\ thread[c].todo = {}
          /\ thread' = [thread EXCEPT ![c] = IF c = "stop" THEN [IdleThread EXCEPT !.pc = "stopped"] ELSE IdleThread]
    /\ UNCHANGED <<client, sessions, count, waiting, noauth, master, running, used, ghost>>

-----------------------------------------------------------------------------
(* EyaServer::close_socket and TCPServer::close_socket *)

After(c) == IF c \in {"auth", "stop"} THEN "next" ELSE "idle"
Return(c) == [IdleThread EXCEPT !.pc = After(c), !.todo = thread[c].todo]

CloseErase(c) ==
    /\ thread[c].pc = "erase"
    /\ noauth' = noauth \ {thread[c].sock}
    /\ Goto(c, "remove")
    /\ UNCHANGED <<client, sessions, count, waiting, master, running, used, ghost>>

\* remove_from_slave under sessions_mutex_: only one thread finds the session;
\* it closes the descriptor.
\* Mutant: the descriptor is closed whether or not the session was found.
CloseRemoveAlways(c) ==
    /\ thread[c].pc = "remove"
    /\ sessions' = sessions \ {thread[c].sock}
    /\ Close(thread[c].sock)
    /\ thread' = [thread EXCEPT ![c] = IF @.sock \in sessions THEN [@ EXCEPT !.pc = "test"] ELSE Return(c)]
    /\ UNCHANGED <<count, waiting, noauth, master, running, used, ghost>>

CloseRemove(c) ==
    /\ thread[c].pc = "remove"
    /\ LET s == thread[c].sock
       IN  IF s \in sessions
           THEN sessions' = sessions \ {s} /\ Close(s) /\ Goto(c, "test")
           ELSE thread' = [thread EXCEPT ![c] = Return(c)] /\ UNCHANGED <<client, sessions>>
    /\ UNCHANGED <<count, waiting, noauth, master, running, used, ghost>>

\* The counter is tested, and decremented in a step of its own.
CloseTest(c) ==
    /\ thread[c].pc = "test"
    /\ IF count > 0 THEN Goto(c, "decrement") /\ UNCHANGED ghost
       ELSE Goto(c, "pop") /\ ghost' = [ghost EXCEPT !.skipped = @ + 1]
    /\ UNCHANGED <<client, sessions, count, waiting, noauth, master, running, used>>

\* Mutant: the counter stays.
CloseDecrementNot(c) ==
    /\ thread[c].pc = "decrement" /\ Goto(c, "pop")
    /\ UNCHANGED <<client, sessions, count, waiting, noauth, master, running, used, ghost>>

CloseDecrement(c) ==
    /\ thread[c].pc = "decrement"
    /\ count' = (count - 1) % Width
    /\ Goto(c, "pop")
    /\ ghost' = [ghost EXCEPT !.below = @ \/ count = 0]
    /\ UNCHANGED <<client, sessions, waiting, noauth, master, running, used>>

\* Under wait_queue_mutex_: one that waits, if any.
ClosePop(c) ==
    /\ thread[c].pc = "pop" /\ Unlocked
    /\ IF waiting # <<>>
       THEN /\ waiting' = Tail(waiting)
            /\ thread' = [thread EXCEPT ![c].pc = "assign", ![c].sock = Head(waiting)]
       ELSE thread' = [thread EXCEPT ![c] = Return(c)] /\ UNCHANGED waiting
    /\ UNCHANGED <<client, sessions, count, noauth, master, running, used, ghost>>

\* Outside the lock it becomes a session, is counted, and reported ready.
CloseAssign(c) ==
    /\ thread[c].pc = "assign"
    /\ assign_to_slave(thread[c].sock)
    /\ Goto(c, "count")
    /\ UNCHANGED <<client, count, waiting, noauth, master, running, used, ghost>>

CloseAssignFails(c) ==
    /\ thread[c].pc = "assign" /\ used.failures < MaxFailures
    /\ Close(thread[c].sock)
    /\ thread' = [thread EXCEPT ![c] = Return(c)]
    /\ Use("failures")
    /\ ghost' = [ghost EXCEPT !.lost = @ + 1]
    /\ UNCHANGED <<sessions, count, waiting, noauth, master, running>>

CloseCount(c) ==
    /\ thread[c].pc = "count"
    /\ count' = (count + 1) % Width
    /\ Goto(c, "ready")
    /\ UNCHANGED <<client, sessions, waiting, noauth, master, running, used, ghost>>

\* Mutant: an activated client is not put on the list, as in TCPServer.
on_wait_queue_activated_base(c) ==
    /\ thread[c].pc = "ready"
    /\ thread' = [thread EXCEPT ![c] = Return(c)]
    /\ UNCHANGED <<client, sessions, count, waiting, noauth, master, running, used, ghost>>

on_wait_queue_activated(c) ==
    /\ thread[c].pc = "ready"
    /\ noauth' = noauth \cup {thread[c].sock}
    /\ thread' = [thread EXCEPT ![c] = Return(c)]
    /\ UNCHANGED <<client, sessions, count, waiting, master, running, used, ghost>>

-----------------------------------------------------------------------------
(* The queue monitor and stop() *)

\* The one that waits longest has waited connect_wait_timeout_.
Expire ==
    /\ running /\ Unlocked /\ waiting # <<>>
    /\ Close(Head(waiting)) /\ waiting' = Tail(waiting)
    /\ UNCHANGED <<sessions, count, noauth, master, thread, running, used, ghost>>

\* EyaServer::stop joins the authentication monitor first.
StopBegin ==
    /\ thread["stop"].pc = "idle" /\ Goto("stop", "begin")
    /\ UNCHANGED <<client, sessions, count, waiting, noauth, master, running, used, ghost>>

\* TCPServer::stop: no more events are taken.
StopRunning ==
    /\ thread["stop"].pc = "begin" /\ thread["auth"].pc = "idle"
    /\ running' = FALSE /\ Goto("stop", "join")
    /\ UNCHANGED <<client, sessions, count, waiting, noauth, master, used, ghost>>

\* The monitor and the slave loops are joined, the queue is emptied.
StopDrain ==
    /\ thread["stop"].pc = "join" /\ Unlocked
    /\ \A c \in Slaves : thread[c].pc = "idle"
    /\ client' = [s \in Sock |-> IF s \in Range(waiting) THEN 0 ELSE client[s]]
    /\ waiting' = <<>> /\ Goto("stop", "collect")
    /\ UNCHANGED <<sessions, count, noauth, master, running, used, ghost>>

\* The sessions there are now will be closed.
StopCollect ==
    /\ thread["stop"].pc = "collect"
    /\ thread' = [thread EXCEPT !["stop"] = [@ EXCEPT !.pc = "next", !.todo = sessions]]
    /\ UNCHANGED <<client, sessions, count, waiting, noauth, master, running, used, ghost>>

-----------------------------------------------------------------------------
CloseStep(c) ==
    \/ CloseErase(c) \/ CloseRemove(c) \/ CloseTest(c) \/ CloseDecrement(c) \/ ClosePop(c)
    \/ CloseAssign(c) \/ CloseCount(c) \/ on_wait_queue_activated(c)

AcceptStep == Admit \/ Enqueue \/ Refuse \/ Count \/ Ready

Next ==
    \/ Accept
    \/ \E s \in Sock : \E c \in Slaves : ReadFails(c, s)
    \/ \E s \in Sock : \E w \in Workers : Request(w, s)
    \/ NobodyWaits \/ AcceptStep \/ AdmitFails
    \/ \E w \in Workers : Authenticate(w) \/ Reject(w) \/ Answer(w)
    \/ Expel \/ \E c \in {"auth", "stop"} : CloseNext(c)
    \/ \E c \in Closers : CloseStep(c) \/ CloseAssignFails(c)
    \/ Expire \/ StopBegin \/ StopRunning \/ StopDrain \/ StopCollect

Spec == Init /\ [][Next]_vars

-----------------------------------------------------------------------------
(* Properties *)

MasterPC == {"idle", "more", "decide", "count", "ready"}
ThreadPC == {"idle", "request", "next", "erase", "remove", "test", "decrement", "pop", "assign",
             "count", "ready", "begin", "join", "collect", "stopped"}

\* Type invariant: a step that works on a socket has one, and only the monitor
\* and stop() have a list of sockets to close.
TypeOK ==
    /\ client \in [Sock -> 0..MaxArrivals] /\ sessions \subseteq Sock /\ count \in 0..(Width - 1)
    /\ waiting \in Seq(Sock) /\ Len(waiting) <= QueueSize /\ noauth \subseteq Sock
    /\ master \in [pc : MasterPC, sock : Sock \cup {None}]
    /\ master.pc \in {"decide", "count", "ready"} <=> master.sock \in Sock
    /\ thread \in [Closers -> [pc : ThreadPC, sock : Sock \cup {None}, conn : 0..MaxArrivals,
                               todo : SUBSET Sock]]
    /\ \A c \in Closers :
        /\ thread[c].pc \in {"request", "erase", "remove", "assign", "count", "ready"}
              => thread[c].sock \in Sock
        /\ thread[c].pc \in {"idle", "request", "begin", "join", "collect", "stopped"}
              \/ c \notin {"auth", "stop"} => thread[c].todo = {}
    /\ running \in BOOLEAN
    /\ used \in [arrivals : 0..MaxArrivals, requests : 0..MaxRequests, failures : 0..MaxFailures]
    /\ ghost \in [authed : SUBSET (0..MaxArrivals), robbed : SUBSET (0..MaxArrivals),
                  skipped : Nat, lost : Nat, below : BOOLEAN]

Occurs(b) == IF b THEN 1 ELSE 0
At(pcs) == {c \in Closers : thread[c].pc \in pcs}

\* Every open connection has exactly one place: a session, a place in the
\* queue, or a thread that is about to give it one; and a closed descriptor has
\* none (remove_from_slave, close_socket, the queue monitor, stop).  Otherwise a
\* client is never served, or two clients share a session.
OnePlaceEach ==
    \A s \in Sock :
        Occurs(s \in sessions) + Cardinality({k \in DOMAIN waiting : waiting[k] = s})
        + Occurs(master.pc = "decide" /\ master.sock = s)
        + Cardinality({c \in At({"assign"}) : thread[c].sock = s})
        = Occurs(client[s] # 0)

\* current_connections_ is the number of sessions, apart from the threads in
\* between the two updates, and from closes that found the counter at zero
\* because the session they closed was not counted yet: each of those takes a
\* place from the limit for good (handle_accept, close_socket).
CountMatchesSessions ==
    count = (Cardinality(sessions) + Cardinality(At({"test", "decrement"}))
             - Cardinality(At({"count"})) - Occurs(master.pc = "count") + ghost.skipped) % Width

\* Nobody waits while there is room: once the closes under way are over, a
\* queue that is not empty means that the limit is reached, unless an
\* activation failed (the order of decrement and pop in close_socket against
\* test and push in handle_accept) or the counter once fell below zero: two
\* closes that both test it at one wrap it around, and a client that connects
\* then is queued with nobody left to activate it.
NobodyWaitsInVain ==
    At({"test", "decrement", "pop", "assign", "count"}) = {} /\ waiting # <<>>
        => count + ghost.lost >= MaxConnections \/ ghost.below

\* Someone is about to list s for the monitor, or about to close it.
InHand(s) ==
    \/ master.sock = s
    \/ \E c \in Closers :
          \/ thread[c].pc \in {"erase", "remove", "count", "ready"} /\ thread[c].sock = s
          \/ s \in thread[c].todo

\* A session whose client did not authenticate is known to the monitor that
\* expels it, unless someone is in the middle of opening or closing it or a
\* request of an earlier client with the same descriptor erased the entry
\* (handle_accept, on_wait_queue_activated, handle_request).
StrangersAreWatched ==
    \A s \in sessions :
        client[s] \in ghost.authed \cup ghost.robbed \/ s \in noauth \/ InHand(s)
=============================================================================
