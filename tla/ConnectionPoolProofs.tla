------------------------ MODULE ConnectionPoolProofs ------------------------
(***************************************************************************)
(* Proofs about the connections of the server, for any number of slave     *)
(* loops, pool workers, descriptors and clients and any limits: every      *)
(* connection has one place, the counter agrees with the sessions, nobody  *)
(* waits in vain and every stranger is watched.                            *)
(***************************************************************************)
EXTENDS ConnectionPool, SequenceTheorems, FiniteSetTheorems, TLAPS

-----------------------------------------------------------------------------
(* The constants and the arithmetic of the unsigned counter *)

(* There are finitely many threads, and the counter has room for all of them *)
(* beyond the limit.                                                         *)
LEMMA Constants ==
    /\ MaxArrivals \in Nat /\ MaxRequests \in Nat /\ MaxFailures \in Nat
    /\ MaxConnections \in Nat /\ QueueSize \in Nat
    /\ IsFiniteSet(Closers) /\ Cardinality(Closers) \in Nat
    /\ Width \in Nat /\ Width > 1 /\ Width > MaxConnections + Cardinality(Closers) + 1
    /\ None \notin Sock
  <1>1. IsFiniteSet(Slaves \cup Workers)
    BY PoolAssumption, FS_Union
  <1>2. IsFiniteSet({"auth", "stop"})
    <2>1. {"auth", "stop"} = {"auth"} \cup {"stop"}
      OBVIOUS
    <2>2. IsFiniteSet({"auth"}) /\ IsFiniteSet({"stop"})
      BY FS_Singleton
    <2>3. IsFiniteSet({"auth"} \cup {"stop"})
      BY <2>2, FS_Union
    <2> QED
      BY <2>1, <2>3
  <1>3. IsFiniteSet(Closers)
    BY <1>1, <1>2, FS_Union DEF Closers
  <1>4. Cardinality(Closers) \in Nat
    BY <1>3, FS_CardinalityType
  <1> QED
    BY <1>3, <1>4, PoolAssumption

(* A quotient and a remainder determine the remainder. *)
LEMMA ModUnique ==
    ASSUME NEW a \in Int, NEW w \in Nat, w > 1, NEW q \in Int, NEW r \in 0..(w - 1), a = w * q + r
    PROVE  a % w = r
  OBVIOUS

(* Counting one up or down modulo a width. *)
LEMMA ModStep ==
    ASSUME NEW a \in Int, NEW w \in Nat, w > 1
    PROVE  /\ a % w \in 0..(w - 1)
           /\ ((a % w) + 1) % w = (a + 1) % w
           /\ ((a % w) - 1) % w = (a - 1) % w
  <1> DEFINE q == a \div w
             r == a - w * q
  <1>1. q \in Int /\ w * q <= a /\ a < w * (q + 1)
    OBVIOUS
  <1>2. r \in 0..(w - 1) /\ a = w * q + r
    BY <1>1
  <1>3. w * (q + 1) = w * q + w /\ w * (q - 1) = w * q - w
    BY <1>1
  <1>4. w * q \in Int
    BY <1>1
  <1> HIDE DEF q, r
  <1>5. a % w = r
    BY <1>1, <1>2, ModUnique
  <1>6. (r + 1) % w = (a + 1) % w
    <2>1. CASE r + 1 < w
      <3>1. (a + 1) % w = r + 1
        BY <1>1, <1>2, <1>4, <2>1, ModUnique
      <3>2. w * 0 + (r + 1) = r + 1
        BY <1>2
      <3>3. (r + 1) % w = r + 1
        BY <1>2, <2>1, <3>2, ModUnique
      <3> QED
        BY <3>1, <3>3
    <2>2. CASE r + 1 = w
      <3>1. (a + 1) % w = 0
        <4>1. a + 1 = w * (q + 1) + 0 /\ a + 1 \in Int /\ q + 1 \in Int /\ 0 \in 0..(w - 1)
          BY <1>1, <1>2, <1>3, <1>4, <2>2
        <4> QED
          BY <4>1, ModUnique
      <3>2. (r + 1) % w = 0
        <4>1. w = w * 1 + 0 /\ w \in Int /\ 0 \in 0..(w - 1)
          OBVIOUS
        <4>2. w % w = 0
          BY <4>1, ModUnique
        <4> QED
          BY <2>2, <4>2
      <3> QED
        BY <3>1, <3>2
    <2> QED
      BY <1>2, <2>1, <2>2
  <1>7. (r - 1) % w = (a - 1) % w
    <2>1. CASE r > 0
      <3>1. (a - 1) % w = r - 1
        BY <1>1, <1>2, <1>4, <2>1, ModUnique
      <3>2. w * 0 + (r - 1) = r - 1
        BY <1>2
      <3>3. (r - 1) % w = r - 1
        BY <1>2, <2>1, <3>2, ModUnique
      <3> QED
        BY <3>1, <3>3
    <2>2. CASE r = 0
      <3>1. (a - 1) % w = w - 1
        <4>1. a - 1 = w * (q - 1) + (w - 1)
          BY <1>1, <1>2, <1>3, <1>4, <2>2
        <4> QED
          BY <1>1, <4>1, ModUnique
      <3>2. (r - 1) % w = w - 1
        <4>1. r - 1 = w * (-1) + (w - 1)
          BY <1>2, <2>2
        <4> QED
          BY <1>2, <4>1, ModUnique
      <3> QED
        BY <3>1, <3>2
    <2> QED
      BY <1>2, <2>1, <2>2
  <1> QED
    BY <1>2, <1>5, <1>6, <1>7

(* The counter stays an unsigned number, and only wraps at its ends. *)
LEMMA CountStep ==
    ASSUME NEW n \in 0..(Width - 1)
    PROVE  /\ (n + 1) % Width \in 0..(Width - 1) /\ (n - 1) % Width \in 0..(Width - 1)
           /\ n + 1 < Width => (n + 1) % Width = n + 1
           /\ n > 0 => (n - 1) % Width = n - 1
  BY Constants

-----------------------------------------------------------------------------
(* The next-state relation in three parts: the accept loop with the queue      *)
(* monitor, those who decide to close something, and the steps of close_socket. *)

MasterStep == Accept \/ NobodyWaits \/ AcceptStep \/ AdmitFails \/ Expire

CallerStep ==
    \/ \E s \in Sock : \E c \in Slaves : ReadFails(c, s)
    \/ \E s \in Sock : \E w \in Workers : Request(w, s)
    \/ \E w \in Workers : Authenticate(w) \/ Reject(w) \/ Answer(w)
    \/ Expel \/ \E c \in {"auth", "stop"} : CloseNext(c)
    \/ StopBegin \/ StopRunning \/ StopDrain \/ StopCollect

CloserStep(c) == CloseStep(c) \/ CloseAssignFails(c)

LEMMA NextParts == Next <=> MasterStep \/ CallerStep \/ \E c \in Closers : CloserStep(c)
  BY DEF Next, MasterStep, CallerStep, CloserStep

-----------------------------------------------------------------------------
(* Types *)

ThreadType == [pc : ThreadPC, sock : Sock \cup {None}, conn : 0..MaxArrivals, todo : SUBSET Sock]

UsedType == [arrivals : 0..MaxArrivals, requests : 0..MaxRequests, failures : 0..MaxFailures]
GhostType == [authed : SUBSET (0..MaxArrivals), robbed : SUBSET (0..MaxArrivals),
              skipped : Nat, lost : Nat, below : BOOLEAN]

(* What TypeOK says of one thread. *)
ThreadOK(c, t) ==
    /\ t \in ThreadType
    /\ t.pc \in {"request", "erase", "remove", "assign", "count", "ready"} => t.sock \in Sock
    /\ t.pc \in {"idle", "request", "begin", "join", "collect", "stopped"}
          \/ c \notin {"auth", "stop"} => t.todo = {}

(* The types of everything but the threads and the accept loop. *)
DataOK ==
    /\ client \in [Sock -> 0..MaxArrivals] /\ sessions \subseteq Sock /\ count \in 0..(Width - 1)
    /\ waiting \in Seq(Sock) /\ Len(waiting) <= QueueSize /\ noauth \subseteq Sock
    /\ running \in BOOLEAN
    /\ used \in UsedType /\ ghost \in GhostType

MasterOK ==
    /\ master \in [pc : MasterPC, sock : Sock \cup {None}]
    /\ master.pc \in {"decide", "count", "ready"} <=> master.sock \in Sock

ThreadsOK ==
    /\ thread \in [Closers -> ThreadType]
    /\ \A c \in Closers : ThreadOK(c, thread[c])

LEMMA TypeParts ==
    /\ TypeOK <=> DataOK /\ MasterOK /\ ThreadsOK
    /\ TypeOK' <=> DataOK' /\ MasterOK' /\ ThreadsOK'
  BY DEF TypeOK, DataOK, MasterOK, ThreadsOK, ThreadOK, ThreadType, UsedType, GhostType

(* A loop starts without a socket. *)
LEMMA IdleOK == \A c : ThreadOK(c, IdleThread)
  BY Constants DEF ThreadOK, ThreadType, ThreadPC, IdleThread

(* Return gives a thread of close_socket back to its caller. *)
LEMMA ReturnOK ==
    ASSUME TypeOK, NEW c \in Closers
    PROVE  /\ Return(c) \in ThreadType /\ After(c) \in ThreadPC
           /\ Return(c).pc = After(c) /\ Return(c).sock = None /\ Return(c).conn = 0
           /\ Return(c).todo = thread[c].todo
  <1>1. thread[c] \in ThreadType
    BY TypeParts DEF ThreadsOK
  <1>2. After(c) \in ThreadPC
    BY DEF After, ThreadPC
  <1>3. /\ Return(c) = [[IdleThread EXCEPT !.pc = After(c)] EXCEPT !.todo = thread[c].todo]
        /\ IdleThread \in [pc : ThreadPC, sock : {None}, conn : {0}, todo : SUBSET Sock]
    BY DEF Return, IdleThread, ThreadPC
  <1>4. /\ Return(c) \in [pc : ThreadPC, sock : {None}, conn : {0}, todo : SUBSET Sock]
        /\ Return(c).pc = After(c) /\ Return(c).todo = thread[c].todo
    BY <1>1, <1>2, <1>3 DEF ThreadType
  <1> QED
    BY <1>2, <1>4, Constants DEF ThreadType


(* What the bounds and the history leave of their types. *)
LEMMA UseOK ==
    ASSUME used \in UsedType
    PROVE  /\ used.arrivals < MaxArrivals /\ Use("arrivals") => used' \in UsedType
           /\ used.requests < MaxRequests /\ Use("requests") => used' \in UsedType
           /\ used.failures < MaxFailures /\ Use("failures") => used' \in UsedType
  BY Constants DEF Use, UsedType

LEMMA GhostOK ==
    ASSUME ghost \in GhostType
    PROVE  /\ [ghost EXCEPT !.skipped = @ + 1] \in GhostType
           /\ [ghost EXCEPT !.lost = @ + 1] \in GhostType
           /\ \A b \in BOOLEAN : [ghost EXCEPT !.below = @ \/ b] \in GhostType
  BY DEF GhostType

(* The queue without its head. *)
LEMMA HeadTail ==
    ASSUME NEW q \in Seq(Sock), q # <<>>
    PROVE  /\ Head(q) \in Sock /\ Tail(q) \in Seq(Sock) /\ Len(Tail(q)) = Len(q) - 1
           /\ Len(q) \in Nat /\ Len(q) > 0 /\ Head(q) = q[1]
           /\ \A i \in 1 .. Len(q) - 1 : Tail(q)[i] = q[i + 1]
  OBVIOUS

(* Initially every thread is idle. *)
LEMMA TypeInit == Init => TypeOK
  <1> SUFFICES ASSUME Init PROVE DataOK /\ MasterOK /\ ThreadsOK
    BY TypeParts
  <1>1. DataOK
    BY Constants DEF Init, DataOK, UsedType, GhostType
  <1>2. MasterOK
    BY Constants DEF Init, MasterOK, MasterPC
  <1>3. ThreadsOK
    BY IdleOK DEF Init, ThreadsOK, ThreadOK
  <1> QED
    BY <1>1, <1>2, <1>3

(* The accept loop, the queue monitor and stop() keep the types. *)
LEMMA TypeMaster ==
    ASSUME TypeOK, MasterStep
    PROVE  TypeOK'
  <1>0. DataOK /\ MasterOK /\ ThreadsOK /\ thread' = thread
    BY TypeParts DEF MasterStep, Accept, NobodyWaits, AcceptStep, AdmitFails, Expire, Admit, Enqueue, Refuse, Count, Ready
  <1>1. ThreadsOK'
    BY <1>0 DEF ThreadsOK, ThreadOK
  <1>2. CASE Accept
    <2>1. PICK s \in Sock : /\ client' = [client EXCEPT ![s] = used.arrivals + 1]
                            /\ master' = [pc |-> "decide", sock |-> s]
      BY <1>2 DEF Accept
    <2>2. used.arrivals + 1 \in 0..MaxArrivals
      BY <1>0, <1>2, Constants DEF Accept, DataOK, UsedType
    <2>3. DataOK'
      BY <1>0, <1>2, <2>1, <2>2, UseOK DEF Accept, DataOK
    <2>4. MasterOK'
      BY <2>1 DEF MasterOK, MasterPC
    <2> QED
      BY <1>1, <2>3, <2>4, TypeParts
  <1>3. CASE NobodyWaits
    BY <1>0, <1>1, <1>3, Constants, TypeParts DEF NobodyWaits, DataOK, MasterOK, MasterPC
  <1>4. CASE Admit
    BY <1>0, <1>1, <1>4, Constants, TypeParts DEF Admit, DataOK, MasterOK, MasterPC, assign_to_slave
  <1>5. CASE Enqueue
    BY <1>0, <1>1, <1>5, Constants, TypeParts DEF Enqueue, DataOK, MasterOK, MasterPC
  <1>6. CASE Refuse
    BY <1>0, <1>1, <1>6, Constants, TypeParts DEF Refuse, DataOK, MasterOK, MasterPC, Close
  <1>7. CASE Count
    BY <1>0, <1>1, <1>7, Constants, CountStep, TypeParts DEF Count, DataOK, MasterOK, MasterPC
  <1>8. CASE Ready
    BY <1>0, <1>1, <1>8, Constants, TypeParts DEF Ready, DataOK, MasterOK, MasterPC
  <1>9. CASE AdmitFails
    BY <1>0, <1>1, <1>9, Constants, UseOK, TypeParts DEF AdmitFails, DataOK, MasterOK, MasterPC, Close
  <1>10. CASE Expire
    BY <1>0, <1>1, <1>10, Constants, HeadTail, TypeParts DEF Expire, DataOK, MasterOK, MasterPC, Close
  <1> QED
    BY <1>2, <1>3, <1>4, <1>5, <1>6, <1>7, <1>8, <1>9, <1>10 DEF MasterStep, AcceptStep

(* How a step of a thread changes what it is doing. *)
Moved(c, p, s, n, d) ==
    /\ thread' \in [Closers -> ThreadType]
    /\ \A b \in Closers \ {c} : thread'[b] = thread[b]
    /\ thread'[c].pc = p /\ thread'[c].sock = s /\ thread'[c].conn = n /\ thread'[c].todo = d

LEMMA GotoMoves ==
    ASSUME TypeOK, NEW c \in Closers, NEW p \in ThreadPC, Goto(c, p)
    PROVE  Moved(c, p, thread[c].sock, thread[c].conn, thread[c].todo)
  BY TypeParts DEF Goto, ThreadsOK, ThreadType, Moved

LEMMA ReturnMoves ==
    ASSUME TypeOK, NEW c \in Closers, thread' = [thread EXCEPT ![c] = Return(c)]
    PROVE  Moved(c, After(c), None, 0, thread[c].todo)
  BY ReturnOK, TypeParts DEF Moved, ThreadsOK

LEMMA IdleMoves ==
    ASSUME TypeOK, NEW c \in Closers, thread' = [thread EXCEPT ![c] = IdleThread]
    PROVE  Moved(c, "idle", None, 0, {})
  <1>1. IdleThread \in ThreadType
    BY IdleOK DEF ThreadOK
  <1> QED
    BY <1>1, TypeParts DEF Moved, ThreadsOK, IdleThread

LEMMA BeginMoves ==
    ASSUME TypeOK, NEW c \in Closers, NEW s \in Sock, NEW p \in ThreadPC,
           thread' = [thread EXCEPT ![c] = [@ EXCEPT !.pc = p, !.sock = s, !.conn = client[s]]]
    PROVE  Moved(c, p, s, client[s], thread[c].todo)
  BY TypeParts DEF ThreadsOK, DataOK, ThreadType, Moved

LEMMA ListMoves ==
    ASSUME TypeOK, NEW c \in Closers, NEW l \in SUBSET Sock,
           thread' = [thread EXCEPT ![c] = [@ EXCEPT !.pc = "next", !.todo = l]]
    PROVE  Moved(c, "next", thread[c].sock, thread[c].conn, l)
  BY TypeParts DEF ThreadsOK, ThreadType, ThreadPC, Moved

LEMMA PopMoves ==
    ASSUME TypeOK, NEW c \in Closers, ClosePop(c), waiting # <<>>
    PROVE  Moved(c, "assign", Head(waiting), thread[c].conn, thread[c].todo)
  <1>1. Head(waiting) \in Sock
    BY TypeParts DEF DataOK
  <1> QED
    BY <1>1, TypeParts DEF ClosePop, ThreadsOK, ThreadType, ThreadPC, Moved

LEMMA CloseNextMoves ==
    ASSUME TypeOK, NEW c \in {"auth", "stop"}, CloseNext(c)
    PROVE  \/ \E s \in thread[c].todo : Moved(c, "erase", s, client[s], thread[c].todo \ {s})
           \/ thread[c].todo = {} /\ Moved(c, IF c = "stop" THEN "stopped" ELSE "idle", None, 0, {})
  <1>1. c \in Closers
    BY DEF Closers
  <1>2. thread[c] \in ThreadType /\ thread \in [Closers -> ThreadType]
        /\ \A s \in Sock : client[s] \in 0..MaxArrivals
    BY <1>1, TypeParts DEF ThreadsOK, DataOK
  <1>3. ASSUME NEW s \in thread[c].todo,
               thread' = [thread EXCEPT ![c] = [pc |-> "erase", sock |-> s, conn |-> client[s], todo |-> @.todo \ {s}]]
        PROVE  Moved(c, "erase", s, client[s], thread[c].todo \ {s})
    BY <1>1, <1>2, <1>3 DEF ThreadType, ThreadPC, Moved
  <1>4. ASSUME thread' = [thread EXCEPT ![c] = IF c = "stop" THEN [IdleThread EXCEPT !.pc = "stopped"] ELSE IdleThread]
        PROVE  Moved(c, IF c = "stop" THEN "stopped" ELSE "idle", None, 0, {})
    <2>1. IdleThread \in ThreadType /\ [IdleThread EXCEPT !.pc = "stopped"] \in ThreadType
      BY Constants DEF ThreadType, ThreadPC, IdleThread
    <2> QED
      BY <1>1, <1>2, <1>4, <2>1 DEF Moved, IdleThread
  <1> QED
    BY <1>3, <1>4 DEF CloseNext

(* Types after such a step. *)
LEMMA MovedOK ==
    ASSUME TypeOK, NEW c \in Closers, NEW p, NEW s, NEW n, NEW d, Moved(c, p, s, n, d),
           p \in {"request", "erase", "remove", "assign", "count", "ready"} => s \in Sock,
           p \in {"idle", "request", "begin", "join", "collect", "stopped"}
              \/ c \notin {"auth", "stop"} => d = {}
    PROVE  ThreadsOK'
  BY TypeParts DEF Moved, ThreadsOK, ThreadOK

(* Who reads, answers, expels and stops keeps the types. *)
LEMMA TypeCallers ==
    ASSUME TypeOK, CallerStep
    PROVE  TypeOK'
  <1>0. DataOK /\ MasterOK /\ ThreadsOK /\ master' = master
    BY TypeParts DEF CallerStep, ReadFails, Request, Authenticate, Reject, Answer, Expel, CloseNext,
       StopBegin, StopRunning, StopDrain, StopCollect
  <1>1. MasterOK'
    BY <1>0 DEF MasterOK
  <1>t. \A c \in Closers : thread[c] \in ThreadType /\ ThreadOK(c, thread[c])
    BY <1>0 DEF ThreadsOK
  <1>c. \A s \in Sock : client[s] \in 0..MaxArrivals
    BY <1>0 DEF DataOK
  <1>z. 0 \in 0..MaxArrivals
    BY Constants
  <1>2. ASSUME NEW s \in Sock, NEW c \in Slaves, ReadFails(c, s) PROVE TypeOK'
    <2>0. c \in Closers /\ "erase" \in ThreadPC
      BY DEF Closers, ThreadPC
    <2>1. Moved(c, "erase", s, client[s], thread[c].todo)
      BY <1>2, <2>0, BeginMoves DEF ReadFails, Begin
    <2>2. ThreadsOK'
      BY <1>2, <1>t, <2>0, <2>1, MovedOK DEF ReadFails, ThreadOK, run_slave
    <2> QED
      BY <1>0, <1>1, <1>2, <2>2, TypeParts DEF ReadFails, DataOK
  <1>3. ASSUME NEW s \in Sock, NEW c \in Workers, Request(c, s) PROVE TypeOK'
    <2>0. c \in Closers /\ "request" \in ThreadPC
      BY DEF Closers, ThreadPC
    <2>1. Moved(c, "request", s, client[s], thread[c].todo)
      BY <1>3, <2>0, BeginMoves DEF Request
    <2>2. ThreadsOK'
      BY <1>3, <1>t, <2>0, <2>1, MovedOK DEF Request, ThreadOK
    <2> QED
      BY <1>0, <1>1, <1>3, <2>2, TypeParts, UseOK DEF Request, DataOK
  <1>4. ASSUME NEW c \in Workers, Authenticate(c) PROVE TypeOK'
    <2>1. ThreadsOK'
      BY <1>4, IdleMoves, MovedOK DEF Authenticate, Closers
    <2>2. thread[c].sock \in Sock /\ thread[c].conn \in 0..MaxArrivals
      BY <1>4, <1>t DEF Authenticate, Closers, ThreadOK, ThreadType
    <2>3. DataOK'
      BY <1>0, <1>4, <1>c, <2>2 DEF Authenticate, DataOK, GhostType
    <2> QED
      BY <1>1, <2>1, <2>3, TypeParts
  <1>5. ASSUME NEW c \in Workers, Reject(c) PROVE TypeOK'
    <2>1. Moved(c, "erase", thread[c].sock, thread[c].conn, thread[c].todo)
      BY <1>5, GotoMoves DEF Reject, Closers, ThreadPC
    <2>2. ThreadsOK'
      BY <1>5, <1>t, <2>1, MovedOK DEF Reject, Closers, ThreadOK, ThreadType, ThreadPC
    <2> QED
      BY <1>0, <1>1, <1>5, <2>2, TypeParts DEF Reject, DataOK
  <1>6. ASSUME NEW c \in Workers, Answer(c) PROVE TypeOK'
    <2>1. ThreadsOK'
      BY <1>6, IdleMoves, MovedOK DEF Answer, Closers
    <2> QED
      BY <1>0, <1>1, <1>6, <2>1, TypeParts DEF Answer, DataOK
  <1>7. CASE Expel
    <2>1. PICK late \in SUBSET noauth :
              /\ noauth' = noauth \ late
              /\ thread' = [thread EXCEPT !["auth"] = [@ EXCEPT !.pc = "next", !.todo = late]]
      BY <1>7 DEF Expel
    <2>2. late \in SUBSET Sock /\ "auth" \in Closers
      BY <1>0 DEF DataOK, Closers
    <2>3. ThreadsOK'
      BY <2>1, <2>2, ListMoves, MovedOK
    <2> QED
      BY <1>0, <1>1, <1>7, <2>1, <2>3, TypeParts DEF Expel, DataOK
  <1>8. ASSUME NEW c \in {"auth", "stop"}, CloseNext(c) PROVE TypeOK'
    <2>0. c \in Closers
      BY DEF Closers
    <2>1. ASSUME NEW s \in thread[c].todo, Moved(c, "erase", s, client[s], thread[c].todo \ {s})
          PROVE  ThreadsOK'
      BY <1>t, <1>c, <2>0, <2>1, MovedOK DEF ThreadOK, ThreadType, ThreadPC
    <2>2. ASSUME Moved(c, IF c = "stop" THEN "stopped" ELSE "idle", None, 0, {})
          PROVE  ThreadsOK'
      BY <1>z, <2>0, <2>2, MovedOK DEF ThreadPC
    <2>3. ThreadsOK'
      BY <1>8, <2>1, <2>2, CloseNextMoves
    <2> QED
      BY <1>0, <1>1, <1>8, <2>3, TypeParts DEF CloseNext, DataOK
  <1>9. ASSUME NEW p \in {"begin", "join", "collect"}, Goto("stop", p),
               thread["stop"].pc \in {"idle", "begin", "join"}
        PROVE  ThreadsOK'
    <2>0. "stop" \in Closers /\ p \in ThreadPC
      BY DEF Closers, ThreadPC
    <2>1. Moved("stop", p, thread["stop"].sock, thread["stop"].conn, thread["stop"].todo)
      BY <1>9, <2>0, GotoMoves
    <2> QED
      BY <1>t, <1>9, <2>0, <2>1, MovedOK DEF ThreadOK, ThreadType
  <1>10. CASE StopBegin
    <2>1. ThreadsOK'
      BY <1>9, <1>10 DEF StopBegin
    <2> QED
      BY <1>0, <1>1, <1>10, <2>1, TypeParts DEF StopBegin, DataOK
  <1>11. CASE StopRunning
    <2>1. ThreadsOK'
      BY <1>9, <1>11 DEF StopRunning
    <2> QED
      BY <1>0, <1>1, <1>11, <2>1, TypeParts DEF StopRunning, DataOK
  <1>12. CASE StopDrain
    <2>1. ThreadsOK'
      BY <1>9, <1>12 DEF StopDrain
    <2>2. client' \in [Sock -> 0..MaxArrivals]
      BY <1>12, <1>c, <1>z DEF StopDrain
    <2>3. waiting' \in Seq(Sock) /\ Len(waiting') <= QueueSize
      BY <1>12, Constants DEF StopDrain
    <2> QED
      BY <1>0, <1>1, <1>12, <2>1, <2>2, <2>3, TypeParts DEF StopDrain, DataOK
  <1>13. CASE StopCollect
    <2>1. sessions \in SUBSET Sock /\ "stop" \in Closers
      BY <1>0 DEF DataOK, Closers
    <2>2. ThreadsOK'
      <3>1. Moved("stop", "next", thread["stop"].sock, thread["stop"].conn, sessions)
        BY <1>13, <2>1, ListMoves DEF StopCollect
      <3> QED
        BY <2>1, <3>1, MovedOK
    <2> QED
      BY <1>0, <1>1, <1>13, <2>2, TypeParts DEF StopCollect, DataOK
  <1> QED
    BY <1>2, <1>3, <1>4, <1>5, <1>6, <1>7, <1>8, <1>10, <1>11, <1>12, <1>13 DEF CallerStep

(* The steps of close_socket keep the types. *)
LEMMA TypeClosers ==
    ASSUME TypeOK, NEW c \in Closers, CloserStep(c)
    PROVE  TypeOK'
  <1>0. DataOK /\ MasterOK /\ ThreadsOK /\ master' = master
    BY TypeParts DEF CloserStep, CloseStep, CloseErase, CloseRemove, CloseTest, CloseDecrement, ClosePop,
       CloseAssign, CloseAssignFails, CloseCount, on_wait_queue_activated
  <1>1. MasterOK'
    BY <1>0 DEF MasterOK
  <1>t. thread[c] \in ThreadType /\ ThreadOK(c, thread[c])
    BY <1>0 DEF ThreadsOK
  <1>z. 0 \in 0..MaxArrivals
    BY Constants
  <1>r. ASSUME thread' = [thread EXCEPT ![c] = Return(c)] PROVE ThreadsOK'
    BY <1>r, <1>t, ReturnMoves, MovedOK DEF ThreadOK, After
  <1>g. ASSUME NEW p \in ThreadPC, Goto(c, p),
               p \in {"remove", "test", "decrement", "pop", "count", "ready"},
               p \in {"remove", "count", "ready"} =>
                  thread[c].pc \in {"erase", "assign", "count"},
               thread[c].pc \notin {"idle", "request", "begin", "join", "collect", "stopped"}
        PROVE  ThreadsOK'
    BY <1>t, <1>g, GotoMoves, MovedOK DEF ThreadOK, ThreadType
  <1>2. CASE CloseErase(c)
    <2>1. ThreadsOK'
      BY <1>g, <1>2 DEF CloseErase, ThreadPC
    <2> QED
      BY <1>0, <1>1, <1>2, <2>1, TypeParts DEF CloseErase, DataOK
  <1>3. CASE CloseRemove(c)
    <2>1. ThreadsOK'
      BY <1>g, <1>r, <1>3 DEF CloseRemove, ThreadPC
    <2>2. DataOK'
      BY <1>0, <1>3, <1>z DEF CloseRemove, DataOK, Close
    <2> QED
      BY <1>1, <2>1, <2>2, TypeParts
  <1>4. CASE CloseTest(c)
    <2>1. ThreadsOK'
      BY <1>g, <1>4 DEF CloseTest, ThreadPC
    <2>2. DataOK'
      BY <1>0, <1>4, GhostOK DEF CloseTest, DataOK
    <2> QED
      BY <1>1, <2>1, <2>2, TypeParts
  <1>5. CASE CloseDecrement(c)
    <2>1. ThreadsOK'
      BY <1>g, <1>5 DEF CloseDecrement, ThreadPC
    <2>2. DataOK'
      BY <1>0, <1>5, CountStep, GhostOK DEF CloseDecrement, DataOK
    <2> QED
      BY <1>1, <2>1, <2>2, TypeParts
  <1>6. CASE ClosePop(c)
    <2>1. CASE waiting # <<>>
      <3>1. Head(waiting) \in Sock /\ waiting' \in Seq(Sock) /\ Len(waiting') <= QueueSize
        <4>1. waiting \in Seq(Sock) /\ Len(waiting) <= QueueSize /\ waiting' = Tail(waiting)
          BY <1>0, <1>6, <2>1 DEF ClosePop, DataOK
        <4> QED
          BY <2>1, <4>1, Constants, HeadTail
      <3>2. ThreadsOK'
        BY <1>t, <1>6, <2>1, <3>1, PopMoves, MovedOK DEF ClosePop, ThreadOK, ThreadType, ThreadPC
      <3> QED
        BY <1>0, <1>1, <1>6, <3>1, <3>2, TypeParts DEF ClosePop, DataOK
    <2>2. CASE waiting = <<>>
      BY <1>0, <1>1, <1>6, <1>r, <2>2, TypeParts DEF ClosePop, DataOK
    <2> QED
      BY <2>1, <2>2
  <1>7. CASE CloseAssign(c)
    <2>1. ThreadsOK'
      BY <1>g, <1>7 DEF CloseAssign, ThreadPC
    <2>2. DataOK'
      BY <1>0, <1>7, <1>t DEF CloseAssign, DataOK, assign_to_slave, ThreadOK
    <2> QED
      BY <1>1, <2>1, <2>2, TypeParts
  <1>8. CASE CloseAssignFails(c)
    <2>1. ThreadsOK'
      BY <1>r, <1>8 DEF CloseAssignFails
    <2>2. DataOK'
      BY <1>0, <1>8, <1>z, UseOK, GhostOK DEF CloseAssignFails, DataOK, Close
    <2> QED
      BY <1>1, <2>1, <2>2, TypeParts
  <1>9. CASE CloseCount(c)
    <2>1. ThreadsOK'
      BY <1>g, <1>9 DEF CloseCount, ThreadPC
    <2>2. DataOK'
      BY <1>0, <1>9, CountStep DEF CloseCount, DataOK
    <2> QED
      BY <1>1, <2>1, <2>2, TypeParts
  <1>10. CASE on_wait_queue_activated(c)
    <2>1. ThreadsOK'
      BY <1>r, <1>10 DEF on_wait_queue_activated
    <2>2. DataOK'
      BY <1>0, <1>10, <1>t DEF on_wait_queue_activated, DataOK, ThreadOK
    <2> QED
      BY <1>1, <2>1, <2>2, TypeParts
  <1> QED
    BY <1>2, <1>3, <1>4, <1>5, <1>6, <1>7, <1>8, <1>9, <1>10 DEF CloserStep, CloseStep

LEMMA TypeNext == TypeOK /\ [Next]_vars => TypeOK'
  <1> SUFFICES ASSUME TypeOK, [Next]_vars PROVE TypeOK'
    OBVIOUS
  <1>1. CASE UNCHANGED vars
    BY <1>1 DEF vars, TypeOK
  <1> QED
    BY <1>1, NextParts, TypeMaster, TypeCallers, TypeClosers

(* TypeOK: every variable keeps its type, a step that works on a socket has  *)
(* one, and the queue never exceeds connect_wait_queue_size_.                *)
THEOREM TypeCorrect == Spec => []TypeOK
  BY TypeInit, TypeNext, PTL DEF Spec

(* Where a thread is when it decides to close something, and where it goes. *)
Calling == {"idle", "request", "next", "begin", "join", "collect", "stopped", "erase"}

LEMMA CallerMoves ==
    ASSUME TypeOK, CallerStep
    PROVE  \E c \in Closers, p \in Calling : \E s, n, d :
              Moved(c, p, s, n, d) /\ thread[c].pc \in Calling
  <1>s. "stop" \in Closers /\ "auth" \in Closers /\ Calling \subseteq ThreadPC
    BY DEF Closers, Calling, ThreadPC
  <1>2. ASSUME NEW s \in Sock, NEW c \in Slaves, ReadFails(c, s)
        PROVE  Moved(c, "erase", s, client[s], thread[c].todo) /\ thread[c].pc = "idle" /\ c \in Closers
    BY <1>2, <1>s, BeginMoves DEF ReadFails, Begin, run_slave, Closers, Calling
  <1>3. ASSUME NEW s \in Sock, NEW c \in Workers, Request(c, s)
        PROVE  Moved(c, "request", s, client[s], thread[c].todo) /\ thread[c].pc = "idle" /\ c \in Closers
    BY <1>3, <1>s, BeginMoves DEF Request, Closers, Calling
  <1>4. ASSUME NEW c \in Workers, Authenticate(c) \/ Answer(c)
        PROVE  Moved(c, "idle", None, 0, {}) /\ thread[c].pc = "request" /\ c \in Closers
    BY <1>4, IdleMoves DEF Authenticate, Answer, Closers
  <1>5. ASSUME NEW c \in Workers, Reject(c)
        PROVE  Moved(c, "erase", thread[c].sock, thread[c].conn, thread[c].todo)
               /\ thread[c].pc = "request" /\ c \in Closers
    BY <1>5, <1>s, GotoMoves DEF Reject, Closers, Calling
  <1>6. ASSUME Expel
        PROVE  \E l : Moved("auth", "next", thread["auth"].sock, thread["auth"].conn, l)
                      /\ thread["auth"].pc = "idle"
    <2>1. PICK l \in SUBSET noauth :
              thread' = [thread EXCEPT !["auth"] = [@ EXCEPT !.pc = "next", !.todo = l]]
      BY <1>6 DEF Expel
    <2>2. l \in SUBSET Sock
      BY TypeParts DEF DataOK
    <2> QED
      BY <1>s, <1>6, <2>1, <2>2, ListMoves DEF Expel
  <1>7. ASSUME NEW c \in {"auth", "stop"}, CloseNext(c)
        PROVE  \E p \in Calling : \E s, n, d : Moved(c, p, s, n, d) /\ thread[c].pc = "next" /\ c \in Closers
    <2>1. CASE \E s \in thread[c].todo : Moved(c, "erase", s, client[s], thread[c].todo \ {s})
      BY <1>7, <2>1 DEF CloseNext, Calling, Closers
    <2>2. CASE Moved(c, IF c = "stop" THEN "stopped" ELSE "idle", None, 0, {})
      BY <1>7, <2>2 DEF CloseNext, Calling, Closers
    <2> QED
      BY <1>7, <2>1, <2>2, CloseNextMoves
  <1>8. ASSUME StopBegin \/ StopRunning \/ StopDrain
        PROVE  \E p \in {"begin", "join", "collect"} :
                  /\ Moved("stop", p, thread["stop"].sock, thread["stop"].conn, thread["stop"].todo)
                  /\ thread["stop"].pc \in {"idle", "begin", "join"}
    <2>1. CASE StopBegin
      BY <1>s, <2>1, GotoMoves DEF StopBegin, Calling
    <2>2. CASE StopRunning
      BY <1>s, <2>2, GotoMoves DEF StopRunning, Calling
    <2>3. CASE StopDrain
      BY <1>s, <2>3, GotoMoves DEF StopDrain, Calling
    <2> QED
      BY <1>8, <2>1, <2>2, <2>3
  <1>9. ASSUME StopCollect
        PROVE  Moved("stop", "next", thread["stop"].sock, thread["stop"].conn, sessions)
               /\ thread["stop"].pc = "collect"
    BY <1>s, <1>9, ListMoves, TypeParts DEF StopCollect, DataOK
  <1> QED
    BY <1>s, <1>2, <1>3, <1>4, <1>5, <1>6, <1>7, <1>8, <1>9 DEF CallerStep, Calling

-----------------------------------------------------------------------------
(* Every connection has one place *)

Queued(s) == \E i \in 1..Len(waiting) : waiting[i] = s
Deciding(s) == master.pc = "decide" /\ master.sock = s
Assigning(c, s) == thread[c].pc = "assign" /\ thread[c].sock = s
Distinct == \A i, j \in 1..Len(waiting) : waiting[i] = waiting[j] => i = j

(* The invariant behind OnePlaceEach: an open connection is a session, waits,    *)
(* or is in the hands of the accept loop or of a thread that activates it, and   *)
(* never two of these.                                                           *)
Places ==
    /\ \A s \in Sock : client[s] # 0 <=>
          s \in sessions \/ Queued(s) \/ Deciding(s) \/ \E c \in Closers : Assigning(c, s)
    /\ \A s \in Sock : ~(s \in sessions /\ Queued(s)) /\ ~(s \in sessions /\ Deciding(s))
                       /\ ~(Queued(s) /\ Deciding(s))
    /\ \A s \in Sock, c \in Closers : Assigning(c, s) =>
          /\ s \notin sessions /\ ~Queued(s) /\ ~Deciding(s)
          /\ \A d \in Closers : Assigning(d, s) => d = c
    /\ Distinct

(* Taking the longest waiting connection off the queue. *)
LEMMA QueueTail ==
    ASSUME waiting \in Seq(Sock), waiting # <<>>, Distinct, waiting' = Tail(waiting)
    PROVE  /\ Distinct' /\ Queued(Head(waiting))
           /\ \A s : Queued(s)' <=> Queued(s) /\ s # Head(waiting)
  <1>1. /\ Len(waiting') = Len(waiting) - 1 /\ Len(waiting) \in Nat /\ Len(waiting) > 0
        /\ Head(waiting) = waiting[1]
        /\ \A i \in 1 .. Len(waiting) - 1 : waiting'[i] = waiting[i + 1]
    BY HeadTail
  <1>2. Distinct'
    <2> SUFFICES ASSUME NEW i \in 1..Len(waiting'), NEW j \in 1..Len(waiting'),
                        waiting'[i] = waiting'[j]
                 PROVE  i = j
      BY DEF Distinct
    <2>1. waiting[i + 1] = waiting[j + 1] /\ i + 1 \in 1..Len(waiting) /\ j + 1 \in 1..Len(waiting)
      BY <1>1
    <2> QED
      BY <1>1, <2>1 DEF Distinct
  <1>3. ASSUME NEW s PROVE Queued(s)' <=> Queued(s) /\ s # Head(waiting)
    <2>1. ASSUME Queued(s)' PROVE Queued(s) /\ s # Head(waiting)
      <3>1. PICK i \in 1..Len(waiting') : waiting'[i] = s
        BY <2>1 DEF Queued
      <3>2. i + 1 \in 1..Len(waiting) /\ waiting[i + 1] = s /\ i + 1 # 1 /\ 1 \in 1..Len(waiting)
        BY <1>1, <3>1
      <3> QED
        BY <1>1, <3>2 DEF Queued, Distinct
    <2>2. ASSUME Queued(s), s # Head(waiting) PROVE Queued(s)'
      <3>1. PICK i \in 1..Len(waiting) : waiting[i] = s
        BY <2>2 DEF Queued
      <3>2. i - 1 \in 1..Len(waiting') /\ waiting'[i - 1] = s
        BY <1>1, <2>2, <3>1
      <3> QED
        BY <3>2 DEF Queued
    <2> QED
      BY <2>1, <2>2
  <1>4. Queued(Head(waiting))
    BY <1>1 DEF Queued
  <1> QED
    BY <1>2, <1>3, <1>4

(* Putting a connection at its end. *)
LEMMA QueueAppend ==
    ASSUME waiting \in Seq(Sock), NEW s \in Sock, ~Queued(s), Distinct,
           waiting' = Append(waiting, s)
    PROVE  /\ Distinct'
           /\ \A r : Queued(r)' <=> Queued(r) \/ r = s
  <1>1. /\ Len(waiting') = Len(waiting) + 1 /\ Len(waiting) \in Nat
        /\ \A i \in 1..Len(waiting) : waiting'[i] = waiting[i]
        /\ waiting'[Len(waiting) + 1] = s
    OBVIOUS
  <1>2. ASSUME NEW r PROVE Queued(r)' <=> Queued(r) \/ r = s
    BY <1>1 DEF Queued
  <1>3. Distinct'
    BY <1>1 DEF Distinct, Queued
  <1> QED
    BY <1>2, <1>3

(* A step of a thread that does not activate. *)
LEMMA AssigningFrame ==
    ASSUME NEW c \in Closers, NEW p, NEW s, NEW n, NEW d, Moved(c, p, s, n, d),
           thread[c].pc # "assign", p # "assign"
    PROVE  \A b \in Closers, r \in Sock : Assigning(b, r)' <=> Assigning(b, r)
  BY DEF Moved, Assigning

(* A step that neither opens, closes nor moves a connection. *)
LEMMA PlacesFrame ==
    ASSUME Places, UNCHANGED <<client, sessions, waiting, master>>,
           \A b \in Closers, r \in Sock : Assigning(b, r)' <=> Assigning(b, r)
    PROVE  Places'
  <1>1. /\ \A r \in Sock : (Queued(r)' <=> Queued(r)) /\ (Deciding(r)' <=> Deciding(r))
        /\ Distinct'
    BY DEF Queued, Deciding, Places, Distinct
  <1> QED
    BY <1>1 DEF Places

LEMMA PlacesInit == Init => Places
  BY DEF Init, Places, Queued, Deciding, Assigning, Distinct, IdleThread

(* The accept loop and the queue monitor. *)
LEMMA PlacesMaster ==
    ASSUME TypeOK, Places, MasterStep
    PROVE  Places'
  <1>0. /\ thread' = thread /\ waiting \in Seq(Sock) /\ Distinct /\ client \in [Sock -> Nat]
        /\ sessions \subseteq Sock
    BY Constants, TypeParts DEF MasterStep, Accept, NobodyWaits, AcceptStep, AdmitFails, Expire, Admit, Enqueue, Refuse, Count,
       Ready, DataOK, Places
  <1>a. \A b \in Closers, r \in Sock : Assigning(b, r)' <=> Assigning(b, r)
    BY <1>0 DEF Assigning
  <1>q. waiting' = waiting => (\A r \in Sock : Queued(r)' <=> Queued(r)) /\ Distinct'
    BY <1>0 DEF Queued, Distinct
  <1>m. master.pc = "decide" => master.sock \in Sock /\ Deciding(master.sock)
    BY TypeParts DEF MasterOK, Deciding
  <1>d. master'.pc # "decide" => \A r \in Sock : ~Deciding(r)'
    BY DEF Deciding
  <1>e. \A r \in Sock : Deciding(r) <=> master.pc = "decide" /\ master.sock = r
    BY DEF Deciding
  <1>2. CASE Accept
    <2>1. PICK s \in Sock : /\ client[s] = 0
                            /\ client' = [client EXCEPT ![s] = used.arrivals + 1]
                            /\ master' = [pc |-> "decide", sock |-> s]
      BY <1>2 DEF Accept
    <2>2. used.arrivals + 1 # 0
      BY TypeParts, Constants DEF DataOK, UsedType
    <2>3. \A r \in Sock : (Deciding(r)' <=> r = s) /\ ~Deciding(r)
      BY <1>2, <2>1 DEF Deciding, Accept, run
    <2>4. waiting' = waiting /\ sessions' = sessions
      BY <1>2 DEF Accept
    <2> QED
      BY <1>0, <1>a, <1>q, <2>1, <2>2, <2>3, <2>4 DEF Places
  <1>3. CASE NobodyWaits \/ Count \/ Ready
    <2>1. /\ master.pc # "decide" /\ master'.pc # "decide"
          /\ waiting' = waiting /\ sessions' = sessions /\ client' = client
      BY <1>3, TypeParts DEF NobodyWaits, Count, Ready, MasterOK
    <2> QED
      BY <1>a, <1>q, <1>d, <1>e, <2>1 DEF Places
  <1>4. CASE Admit
    <2>1. /\ master.pc = "decide" /\ master'.pc # "decide" /\ sessions' = sessions \cup {master.sock}
          /\ waiting' = waiting /\ client' = client
      BY <1>4, TypeParts DEF Admit, assign_to_slave, MasterOK
    <2> QED
      BY <1>a, <1>q, <1>m, <1>d, <1>e, <2>1 DEF Places
  <1>5. CASE Enqueue
    <2>1. /\ master.pc = "decide" /\ master'.pc # "decide" /\ sessions' = sessions
          /\ waiting' = Append(waiting, master.sock) /\ client' = client
      BY <1>5 DEF Enqueue
    <2>2. ~Queued(master.sock)
      BY <1>m, <2>1 DEF Places
    <2>3. Distinct' /\ \A r : Queued(r)' <=> Queued(r) \/ r = master.sock
      BY <1>0, <1>m, <2>1, <2>2, QueueAppend
    <2> QED
      BY <1>a, <1>m, <1>d, <1>e, <2>1, <2>3 DEF Places
  <1>6. CASE Refuse \/ AdmitFails
    <2>1. /\ master.pc = "decide" /\ master'.pc # "decide" /\ sessions' = sessions
          /\ waiting' = waiting /\ client' = [client EXCEPT ![master.sock] = 0]
      BY <1>6 DEF Refuse, AdmitFails, Close
    <2> QED
      BY <1>0, <1>a, <1>q, <1>m, <1>d, <1>e, <2>1 DEF Places
  <1>7. CASE Expire
    <2>1. /\ master' = master /\ sessions' = sessions /\ waiting # <<>>
          /\ waiting' = Tail(waiting) /\ client' = [client EXCEPT ![Head(waiting)] = 0]
      BY <1>7 DEF Expire, Close
    <2>2. Head(waiting) \in Sock
      BY <1>0, <2>1, HeadTail
    <2>3. /\ Distinct' /\ Queued(Head(waiting))
          /\ \A r : Queued(r)' <=> Queued(r) /\ r # Head(waiting)
      BY <1>0, <2>1, QueueTail
    <2>4. \A r \in Sock : Deciding(r)' <=> Deciding(r)
      BY <2>1 DEF Deciding
    <2> QED
      BY <1>0, <1>a, <2>1, <2>2, <2>3, <2>4 DEF Places
  <1> QED
    BY <1>2, <1>3, <1>4, <1>5, <1>6, <1>7 DEF MasterStep, AcceptStep

(* Who decides to close something. *)
LEMMA PlacesCallers ==
    ASSUME TypeOK, Places, CallerStep
    PROVE  Places'
  <1>a. \A b \in Closers, r \in Sock : Assigning(b, r)' <=> Assigning(b, r)
    BY CallerMoves, AssigningFrame DEF Calling
  <1>1. CASE StopDrain
    <2>0. waiting \in Seq(Sock) /\ client \in [Sock -> Nat] /\ Len(waiting) \in Nat
          /\ DOMAIN waiting = 1..Len(waiting)
      BY Constants, TypeParts DEF DataOK
    <2>1. waiting' = <<>> /\ master' = master /\ sessions' = sessions
          /\ \A s \in Sock : client'[s] = IF s \in Range(waiting) THEN 0 ELSE client[s]
      BY <1>1 DEF StopDrain
    <2>2. \A s \in Sock : s \in Range(waiting) <=> Queued(s)
      BY <2>0 DEF Range, Queued
    <2>3. (\A r \in Sock : ~Queued(r)' /\ (Deciding(r)' <=> Deciding(r))) /\ Distinct'
      BY <2>1 DEF Queued, Deciding, Distinct
    <2> QED
      BY <1>a, <2>1, <2>2, <2>3 DEF Places
  <1>2. CASE ~StopDrain
    <2>1. UNCHANGED <<client, sessions, waiting, master>>
      BY <1>2 DEF CallerStep, ReadFails, Request, Authenticate, Reject, Answer, Expel, CloseNext,
         StopBegin, StopRunning, StopCollect
    <2> QED
      BY <1>a, <2>1, PlacesFrame
  <1> QED
    BY <1>1, <1>2

(* The steps of close_socket. *)
LEMMA PlacesClosers ==
    ASSUME TypeOK, Places, NEW c \in Closers, CloserStep(c)
    PROVE  Places'
  <1>0. /\ waiting \in Seq(Sock) /\ Distinct /\ client \in [Sock -> Nat] /\ sessions \subseteq Sock
        /\ After(c) \in ThreadPC /\ After(c) # "assign" /\ thread[c] \in ThreadType
        /\ thread[c].pc \in {"remove", "assign"} => thread[c].sock \in Sock
    BY Constants, TypeParts DEF DataOK, Places, After, ThreadPC, ThreadsOK, ThreadOK
  <1>p. {"remove", "test", "decrement", "pop", "assign", "count", "ready"} \subseteq ThreadPC
    BY DEF ThreadPC
  <1>d. master' = master => \A r \in Sock : Deciding(r)' <=> Deciding(r)
    BY DEF Deciding
  <1>q. waiting' = waiting => (\A r \in Sock : Queued(r)' <=> Queued(r)) /\ Distinct'
    BY <1>0 DEF Queued, Distinct
  <1>1. CASE CloseErase(c) \/ CloseTest(c) \/ CloseDecrement(c) \/ CloseCount(c)
             \/ on_wait_queue_activated(c)
    <2>1. UNCHANGED <<client, sessions, waiting, master>> /\ thread[c].pc # "assign"
      BY <1>1 DEF CloseErase, CloseTest, CloseDecrement, CloseCount, on_wait_queue_activated
    <2>2. \/ \E p \in {"remove", "decrement", "pop", "ready"} : Goto(c, p)
          \/ thread' = [thread EXCEPT ![c] = Return(c)]
      BY <1>1 DEF CloseErase, CloseTest, CloseDecrement, CloseCount, on_wait_queue_activated
    <2>3. \E p : p # "assign" /\ \E s, n, d : Moved(c, p, s, n, d)
      BY <1>0, <1>p, <2>2, GotoMoves, ReturnMoves
    <2>4. \A b \in Closers, r \in Sock : Assigning(b, r)' <=> Assigning(b, r)
      BY <2>1, <2>3, AssigningFrame
    <2> QED
      BY <2>1, <2>4, PlacesFrame
  <1>2. CASE CloseRemove(c)
    <2>1. CASE thread[c].sock \in sessions
      <3>1. /\ UNCHANGED <<waiting, master>> /\ sessions' = sessions \ {thread[c].sock}
            /\ client' = [client EXCEPT ![thread[c].sock] = 0] /\ Goto(c, "test")
            /\ thread[c].pc = "remove"
        BY <1>2, <2>1 DEF CloseRemove, Close
      <3>2. \A b \in Closers, r \in Sock : Assigning(b, r)' <=> Assigning(b, r)
        BY <1>p, <3>1, GotoMoves, AssigningFrame
      <3> QED
        BY <1>0, <1>d, <1>q, <2>1, <3>1, <3>2 DEF Places
    <2>2. CASE thread[c].sock \notin sessions
      <3>1. /\ UNCHANGED <<client, sessions, waiting, master>> /\ thread[c].pc = "remove"
            /\ thread' = [thread EXCEPT ![c] = Return(c)]
        BY <1>2, <2>2 DEF CloseRemove
      <3>2. \A b \in Closers, r \in Sock : Assigning(b, r)' <=> Assigning(b, r)
        BY <1>0, <3>1, ReturnMoves, AssigningFrame
      <3> QED
        BY <3>1, <3>2, PlacesFrame
    <2> QED
      BY <2>1, <2>2
  <1>3. CASE ClosePop(c)
    <2>1. CASE waiting # <<>>
      <3>1. /\ UNCHANGED <<client, sessions, master>> /\ waiting' = Tail(waiting) /\ thread[c].pc = "pop"
        BY <1>3, <2>1 DEF ClosePop
      <3>2. Moved(c, "assign", Head(waiting), thread[c].conn, thread[c].todo)
        BY <1>3, <2>1, PopMoves
      <3>3. /\ Distinct' /\ Queued(Head(waiting)) /\ Head(waiting) \in Sock
            /\ \A r : Queued(r)' <=> Queued(r) /\ r # Head(waiting)
        BY <1>0, <2>1, <3>1, QueueTail, HeadTail
      <3>4. \A b \in Closers, r \in Sock :
                Assigning(b, r)' <=> IF b = c THEN r = Head(waiting) ELSE Assigning(b, r)
        BY <3>2 DEF Moved, Assigning
      <3>5. \A r \in Sock : ~Assigning(c, r)
        BY <3>1 DEF Assigning
      <3> QED
        BY <1>0, <1>d, <3>1, <3>3, <3>4, <3>5 DEF Places
    <2>2. CASE waiting = <<>>
      <3>1. /\ UNCHANGED <<client, sessions, waiting, master>> /\ thread[c].pc = "pop"
            /\ thread' = [thread EXCEPT ![c] = Return(c)]
        BY <1>3, <2>2 DEF ClosePop
      <3>2. \A b \in Closers, r \in Sock : Assigning(b, r)' <=> Assigning(b, r)
        BY <1>0, <3>1, ReturnMoves, AssigningFrame
      <3> QED
        BY <3>1, <3>2, PlacesFrame
    <2> QED
      BY <2>1, <2>2
  <1>4. ASSUME thread[c].pc = "assign", NEW p, p # "assign", NEW s, NEW n, NEW d, Moved(c, p, s, n, d)
        PROVE  /\ Assigning(c, thread[c].sock) /\ thread[c].sock \in Sock
               /\ \A b \in Closers, r \in Sock : Assigning(b, r)' <=> b # c /\ Assigning(b, r)
               /\ \A r \in Sock : Assigning(c, r) => r = thread[c].sock
    BY <1>0, <1>4 DEF Moved, Assigning
  <1>5. CASE CloseAssign(c)
    <2>1. /\ UNCHANGED <<client, waiting, master>> /\ sessions' = sessions \cup {thread[c].sock}
          /\ thread[c].pc = "assign" /\ Goto(c, "count")
      BY <1>5 DEF CloseAssign, assign_to_slave
    <2>2. /\ Assigning(c, thread[c].sock) /\ thread[c].sock \in Sock
          /\ \A b \in Closers, r \in Sock : Assigning(b, r)' <=> b # c /\ Assigning(b, r)
          /\ \A r \in Sock : Assigning(c, r) => r = thread[c].sock
      BY <1>p, <1>4, <2>1, GotoMoves
    <2> QED
      BY <1>0, <1>d, <1>q, <2>1, <2>2 DEF Places
  <1>6. CASE CloseAssignFails(c)
    <2>1. /\ UNCHANGED <<sessions, waiting, master>> /\ client' = [client EXCEPT ![thread[c].sock] = 0]
          /\ thread[c].pc = "assign" /\ thread' = [thread EXCEPT ![c] = Return(c)]
      BY <1>6 DEF CloseAssignFails, Close
    <2>2. /\ Assigning(c, thread[c].sock) /\ thread[c].sock \in Sock
          /\ \A b \in Closers, r \in Sock : Assigning(b, r)' <=> b # c /\ Assigning(b, r)
          /\ \A r \in Sock : Assigning(c, r) => r = thread[c].sock
      BY <1>0, <1>4, <2>1, ReturnMoves
    <2> QED
      BY <1>0, <1>d, <1>q, <2>1, <2>2 DEF Places
  <1> QED
    BY <1>1, <1>2, <1>3, <1>5, <1>6 DEF CloserStep, CloseStep

LEMMA PlacesNext == TypeOK /\ Places /\ [Next]_vars => Places'
  <1> SUFFICES ASSUME TypeOK, Places, [Next]_vars PROVE Places'
    OBVIOUS
  <1>1. CASE UNCHANGED vars
    <2>1. UNCHANGED <<client, sessions, waiting, master, thread>>
      BY <1>1 DEF vars
    <2>2. \A b \in Closers, r \in Sock : Assigning(b, r)' <=> Assigning(b, r)
      BY <2>1 DEF Assigning
    <2> QED
      BY <2>1, <2>2, PlacesFrame
  <1> QED
    BY <1>1, NextParts, PlacesMaster, PlacesCallers, PlacesClosers

(* How often a connection occurs in the queue and among the threads. *)
LEMMA PlacesCount ==
    ASSUME TypeOK, Places
    PROVE  OnePlaceEach
  <1> SUFFICES ASSUME NEW s \in Sock
               PROVE  Occurs(s \in sessions) + Cardinality({k \in DOMAIN waiting : waiting[k] = s})
                      + Occurs(master.pc = "decide" /\ master.sock = s)
                      + Cardinality({c \in At({"assign"}) : thread[c].sock = s})
                      = Occurs(client[s] # 0)
    BY DEF OnePlaceEach
  <1> DEFINE K == {k \in DOMAIN waiting : waiting[k] = s}
             A == {c \in At({"assign"}) : thread[c].sock = s}
  <1>0. DOMAIN waiting = 1..Len(waiting)
    BY TypeParts DEF DataOK
  <1>1. Cardinality(K) = Occurs(Queued(s))
    <2>1. CASE Queued(s)
      <3>1. PICK i \in 1..Len(waiting) : waiting[i] = s
        BY <2>1 DEF Queued
      <3>2. K = {i}
        BY <1>0, <3>1 DEF Places, Distinct
      <3> QED
        BY <2>1, <3>2, FS_Singleton DEF Occurs
    <2>2. CASE ~Queued(s)
      <3>1. K = {}
        BY <1>0, <2>2 DEF Queued
      <3> QED
        BY <2>2, <3>1, FS_EmptySet DEF Occurs
    <2> QED
      BY <2>1, <2>2
  <1>2. Cardinality(A) = Occurs(\E c \in Closers : Assigning(c, s))
    <2>1. CASE \E c \in Closers : Assigning(c, s)
      <3>1. PICK c \in Closers : Assigning(c, s)
        BY <2>1
      <3>2. A = {c}
        BY <3>1 DEF Places, Assigning, At
      <3> QED
        BY <2>1, <3>2, FS_Singleton DEF Occurs
    <2>2. CASE ~\E c \in Closers : Assigning(c, s)
      <3>1. A = {}
        BY <2>2 DEF Assigning, At
      <3> QED
        BY <2>2, <3>1, FS_EmptySet DEF Occurs
    <2> QED
      BY <2>1, <2>2
  <1> HIDE DEF K, A
  <1>3. Occurs(master.pc = "decide" /\ master.sock = s) = Occurs(Deciding(s))
    BY DEF Deciding, Occurs
  <1>4. Occurs(s \in sessions) + Occurs(Queued(s)) + Occurs(Deciding(s))
        + Occurs(\E c \in Closers : Assigning(c, s)) = Occurs(client[s] # 0)
    <2>1. CASE s \in sessions
      BY <2>1 DEF Places, Occurs
    <2>2. CASE Queued(s)
      BY <2>2 DEF Places, Occurs
    <2>3. CASE Deciding(s)
      BY <2>3 DEF Places, Occurs
    <2>4. CASE \E c \in Closers : Assigning(c, s)
      BY <2>4 DEF Places, Occurs
    <2>5. CASE ~(s \in sessions \/ Queued(s) \/ Deciding(s) \/ \E c \in Closers : Assigning(c, s))
      BY <2>5 DEF Places, Occurs
    <2> QED
      BY <2>1, <2>2, <2>3, <2>4, <2>5
  <1> QED
    BY <1>1, <1>2, <1>3, <1>4 DEF K, A

(* OnePlaceEach: no interleaving of accept loop, slave loops, workers,        *)
(* monitors and stop() gives a connection two places or none.                *)
THEOREM OnePlaceEachAlways == Spec => []OnePlaceEach
  BY TypeInit, TypeNext, PlacesInit, PlacesNext, PlacesCount, PTL DEF Spec

-----------------------------------------------------------------------------
(* The counter of connections *)

Number(P) == Cardinality(At(P))

LEMMA OccursType == \A b \in BOOLEAN : Occurs(b) \in 0..1
  BY DEF Occurs

(* How many threads are at a step, before and after a thread moves. *)
LEMMA NumberMoves ==
    ASSUME TypeOK, NEW P,
           NEW c \in Closers, NEW p, NEW s, NEW n, NEW d, Moved(c, p, s, n, d)
    PROVE  /\ Number(P) \in 0..Cardinality(Closers)
           /\ Number(P)' \in 0..Cardinality(Closers)
           /\ Number(P)' = Number(P) - (IF thread[c].pc \in P THEN 1 ELSE 0) + (IF p \in P THEN 1 ELSE 0)
  <1> DEFINE Rest == {b \in Closers \ {c} : thread[b].pc \in P}
  <1>1. At(P) = IF thread[c].pc \in P THEN Rest \cup {c} ELSE Rest
    BY DEF At
  <1>2. At(P)' = IF p \in P THEN Rest \cup {c} ELSE Rest
    BY DEF At, Moved
  <1>3. Rest \in SUBSET Closers /\ At(P) \in SUBSET Closers /\ At(P)' \in SUBSET Closers /\ c \notin Rest
    BY DEF At
  <1> HIDE DEF Rest
  <1>4. IsFiniteSet(Rest) /\ Cardinality(Rest) \in Nat
    BY <1>3, Constants, FS_Subset, FS_CardinalityType
  <1>5. Cardinality(Rest \cup {c}) = Cardinality(Rest) + 1
    BY <1>3, <1>4, FS_AddElement
  <1>6. /\ Cardinality(At(P)) <= Cardinality(Closers) /\ Cardinality(At(P)') <= Cardinality(Closers)
    BY <1>3, Constants, FS_Subset
  <1>7. Number(P)' = Cardinality(At(P)')
    BY DEF Number
  <1> QED
    BY <1>1, <1>2, <1>4, <1>5, <1>6, <1>7, Constants DEF Number

(* The same without a move. *)
LEMMA NumberStays ==
    ASSUME NEW P, thread' = thread
    PROVE  Number(P) \in 0..Cardinality(Closers) /\ Number(P)' = Number(P)
  <1>1. At(P) \in SUBSET Closers /\ At(P)' = At(P)
    BY DEF At
  <1>2. Cardinality(At(P)) <= Cardinality(Closers) /\ Cardinality(At(P)) \in Nat
    BY <1>1, Constants, FS_Subset, FS_CardinalityType
  <1>3. Number(P)' = Cardinality(At(P)')
    BY DEF Number
  <1> QED
    BY <1>1, <1>2, <1>3, Constants DEF Number

(* One session more or less. *)
LEMMA SessionCount ==
    ASSUME TypeOK
    PROVE  /\ Cardinality(sessions) \in Nat
           /\ \A s : s \notin sessions => Cardinality(sessions \cup {s}) = Cardinality(sessions) + 1
           /\ \A s : s \in sessions => Cardinality(sessions \ {s}) = Cardinality(sessions) - 1
  <1>1. IsFiniteSet(sessions)
    BY PoolAssumption, FS_Subset, TypeParts DEF DataOK
  <1> QED
    BY <1>1, FS_AddElement, FS_RemoveElement, FS_CardinalityType

(* What current_connections_ would be if it could be negative. *)
Balance ==
    Cardinality(sessions) + Number({"test", "decrement"}) - Number({"count"})
    - (IF master.pc = "count" THEN 1 ELSE 0) + ghost.skipped

(* The threads that will still give the place they freed to one that waits. *)
Busy == Number({"pop", "assign", "count"})

(* The invariant behind NobodyWaitsInVain, as long as the counter never fell   *)
(* below zero: it stays within its width, and a place that is free while       *)
(* someone waits is about to be given away or was lost.                        *)
Room ==
    ~ghost.below =>
        /\ count + Busy + (IF master.pc = "count" THEN 1 ELSE 0) <= MaxConnections + Cardinality(Closers)
        /\ waiting # <<>> => count + Busy + ghost.lost >= MaxConnections

LEMMA CountIsBalance == (CountMatchesSessions <=> count = Balance % Width)
                        /\ (CountMatchesSessions' <=> count' = Balance' % Width)
  BY DEF CountMatchesSessions, Balance, Number, Occurs

LEMMA BalanceType == TypeOK => Balance \in Int /\ Busy \in 0..Cardinality(Closers)
  <1> SUFFICES ASSUME TypeOK PROVE Balance \in Int /\ Busy \in 0..Cardinality(Closers)
    OBVIOUS
  <1>1. \A P : At(P) \in SUBSET Closers
    BY DEF At
  <1>2. \A P : Number(P) \in 0..Cardinality(Closers)
    BY <1>1, Constants, FS_Subset, FS_CardinalityType DEF Number
  <1>3. ghost.skipped \in Nat
    BY TypeParts DEF DataOK, GhostType
  <1> QED
    BY <1>2, <1>3, SessionCount, Constants DEF Balance, Busy

LEMMA CountInit == Init => CountMatchesSessions /\ Room
  <1> SUFFICES ASSUME Init PROVE CountMatchesSessions /\ Room
    OBVIOUS
  <1>1. \A P \in {{"test", "decrement"}, {"count"}, {"pop", "assign", "count"}} : At(P) = {}
    BY DEF Init, At, IdleThread
  <1>2. Number({"test", "decrement"}) = 0 /\ Number({"count"}) = 0 /\ Busy = 0
    BY <1>1, FS_EmptySet DEF Number, Busy
  <1>3. Balance = 0
    BY <1>2, FS_EmptySet DEF Init, Balance
  <1>4. 0 % Width = 0
    BY CountStep, Constants
  <1> QED
    BY <1>2, <1>3, <1>4, CountIsBalance, Constants DEF Init, Room

(* A step that changes neither counter nor balance, nor the threads in between. *)
LEMMA CountFrame ==
    ASSUME TypeOK, CountMatchesSessions, Room, count' = count, Balance' = Balance, Busy' = Busy,
           ghost'.below = ghost.below, ghost'.lost = ghost.lost,
           (master'.pc = "count") <=> (master.pc = "count"),
           waiting' # <<>> => waiting # <<>>
    PROVE  CountMatchesSessions' /\ Room'
  BY CountIsBalance DEF Room

(* The accept loop. *)
LEMMA CountMaster ==
    ASSUME TypeOK, Places, CountMatchesSessions, Room, MasterStep
    PROVE  CountMatchesSessions' /\ Room'
  <1>0. thread' = thread /\ ghost' = ghost /\ ghost.skipped \in Nat /\ ghost.lost \in Nat
        /\ count \in 0..(Width - 1)
    BY TypeParts DEF MasterStep, Accept, NobodyWaits, AcceptStep, AdmitFails, Expire, Admit, Enqueue, Refuse,
       Count, Ready, DataOK, GhostType
  <1>n. /\ Number({"test", "decrement"})' = Number({"test", "decrement"})
        /\ Number({"count"})' = Number({"count"}) /\ Busy' = Busy
        /\ Number({"test", "decrement"}) \in Nat /\ Number({"count"}) \in Nat
        /\ Busy \in 0..Cardinality(Closers)
    BY <1>0, NumberStays, Constants DEF Busy
  <1>b. Balance \in Int /\ Cardinality(sessions) \in Nat
    BY BalanceType, SessionCount
  <1>1. CASE Accept \/ NobodyWaits \/ Refuse \/ AdmitFails \/ Expire \/ Ready
    <2>1. /\ count' = count /\ sessions' = sessions
          /\ (master.pc # "count" /\ master'.pc # "count") \/ master' = master
          /\ waiting' # <<>> => waiting # <<>>
      BY <1>1 DEF Accept, NobodyWaits, Refuse, AdmitFails, Expire, Ready, run
    <2>2. Balance' = Balance
      BY <1>0, <1>n, <2>1 DEF Balance
    <2> QED
      BY <1>0, <1>n, <2>1, <2>2, CountFrame
  <1>2. CASE Enqueue
    <2>1. /\ count' = count /\ sessions' = sessions /\ count >= MaxConnections
          /\ master.pc = "decide" /\ master'.pc = "more"
      BY <1>2 DEF Enqueue
    <2>2. Balance' = Balance
      BY <1>0, <1>n, <2>1 DEF Balance
    <2> QED
      BY <1>0, <1>n, <2>1, <2>2, CountIsBalance, Constants DEF Room
  <1>3. CASE Admit
    <2>1. /\ count' = count /\ sessions' = sessions \cup {master.sock} /\ count < MaxConnections
          /\ master.pc = "decide" /\ master'.pc = "count" /\ waiting' = waiting
      BY <1>3, TypeParts DEF Admit, assign_to_slave, MasterOK
    <2>2. master.sock \notin sessions
      BY <2>1, TypeParts DEF Places, Deciding, MasterOK
    <2>3. Cardinality(sessions') = Cardinality(sessions) + 1
      BY <2>1, <2>2, SessionCount
    <2>4. Balance' = Balance
      BY <1>0, <1>n, <1>b, <2>1, <2>3 DEF Balance
    <2> QED
      BY <1>0, <1>n, <2>1, <2>4, CountIsBalance, Constants DEF Room
  <1>4. CASE Count
    <2>1. /\ count' = (count + 1) % Width /\ sessions' = sessions
          /\ master.pc = "count" /\ master'.pc = "ready" /\ waiting' = waiting
      BY <1>4, TypeParts DEF Count, MasterOK
    <2>2. Balance' = Balance + 1
      BY <1>0, <1>n, <1>b, <2>1 DEF Balance
    <2>3. CountMatchesSessions'
      BY <1>b, <2>1, <2>2, CountIsBalance, ModStep, Constants
    <2>4. ASSUME ~ghost.below PROVE count' = count + 1
      <3>1. count + 1 < Width
        BY <1>0, <1>n, <2>1, <2>4, Constants DEF Room
      <3> QED
        BY <1>0, <2>1, <3>1, CountStep
    <2>5. Room'
      BY <1>0, <1>n, <2>1, <2>4, Constants DEF Room
    <2> QED
      BY <2>3, <2>5
  <1> QED
    BY <1>1, <1>2, <1>3, <1>4 DEF MasterStep, AcceptStep

(* Who decides to close something. *)
LEMMA CountCallers ==
    ASSUME TypeOK, CountMatchesSessions, Room, CallerStep
    PROVE  CountMatchesSessions' /\ Room'
  <1>1. PICK c \in Closers, p \in Calling : \E s, n, d :
              Moved(c, p, s, n, d) /\ thread[c].pc \in Calling
    BY CallerMoves
  <1>2. /\ Number({"test", "decrement"})' = Number({"test", "decrement"})
        /\ Number({"count"})' = Number({"count"}) /\ Busy' = Busy
    <2>1. \A q \in Calling : /\ q \notin {"test", "decrement"} /\ q \notin {"count"}
                              /\ q \notin {"pop", "assign", "count"}
      BY DEF Calling
    <2>2. PICK s, n, d : Moved(c, p, s, n, d) /\ thread[c].pc \in Calling
      BY <1>1
    <2>3. ASSUME NEW P, p \notin P, thread[c].pc \notin P PROVE Number(P)' = Number(P)
      BY <2>2, <2>3, NumberMoves, Constants
    <2>4. Number({"pop", "assign", "count"})' = Number({"pop", "assign", "count"})
      BY <2>1, <2>2, <2>3
    <2>5. Number({"test", "decrement"})' = Number({"test", "decrement"}) /\ Number({"count"})' = Number({"count"})
      BY <2>1, <2>2, <2>3
    <2> QED
      BY <2>4, <2>5 DEF Busy
  <1>3. /\ count' = count /\ sessions' = sessions /\ master' = master
        /\ ghost'.below = ghost.below /\ ghost'.lost = ghost.lost /\ ghost'.skipped = ghost.skipped
        /\ waiting' # <<>> => waiting # <<>>
    BY TypeParts DEF CallerStep, ReadFails, Request, Authenticate, Reject, Answer, Expel, CloseNext,
       StopBegin, StopRunning, StopDrain, StopCollect, DataOK, GhostType
  <1>4. Balance' = Balance
    BY <1>2, <1>3 DEF Balance
  <1> QED
    BY <1>2, <1>3, <1>4, CountFrame

(* How the numbers change when a thread moves from one step to another. *)
LEMMA BalanceMoves ==
    ASSUME TypeOK, NEW c \in Closers, NEW p \in ThreadPC, NEW s, NEW n, NEW d, Moved(c, p, s, n, d)
    PROVE  /\ Number({"test", "decrement"}) \in Int /\ Number({"count"}) \in Int
           /\ Busy \in 0..Cardinality(Closers) /\ Busy' \in 0..Cardinality(Closers)
           /\ Number({"test", "decrement"})' = Number({"test", "decrement"})
                 - Occurs(thread[c].pc \in {"test", "decrement"}) + Occurs(p \in {"test", "decrement"})
           /\ Number({"count"})' = Number({"count"}) - Occurs(thread[c].pc = "count") + Occurs(p = "count")
           /\ Busy' = Busy - Occurs(thread[c].pc \in {"pop", "assign", "count"})
                     + Occurs(p \in {"pop", "assign", "count"})
  <1>1. ASSUME NEW P
        PROVE  /\ Number(P) \in 0..Cardinality(Closers) /\ Number(P)' \in 0..Cardinality(Closers)
               /\ Number(P)' = Number(P) - Occurs(thread[c].pc \in P) + Occurs(p \in P)
    BY NumberMoves DEF Occurs
  <1>2. Number({"test", "decrement"}) \in Int /\ Number({"count"}) \in Int
    BY <1>1, Constants
  <1>3. (thread[c].pc \in {"count"}) = (thread[c].pc = "count") /\ (p \in {"count"}) = (p = "count")
    OBVIOUS
  <1> QED
    BY <1>1, <1>2, <1>3 DEF Busy

(* The steps of close_socket. *)
LEMMA CountClosers ==
    ASSUME TypeOK, Places, CountMatchesSessions, Room, NEW c \in Closers, CloserStep(c)
    PROVE  CountMatchesSessions' /\ Room'
  <1>0. /\ ghost.skipped \in Nat /\ ghost.lost \in Nat /\ ghost \in GhostType
        /\ count \in 0..(Width - 1) /\ Balance \in Int /\ Cardinality(sessions) \in Nat
        /\ MaxConnections \in Nat \ {0} /\ Cardinality(Closers) \in Nat /\ Width \in Nat
        /\ Busy \in 0..Cardinality(Closers)
        /\ Width > MaxConnections + Cardinality(Closers) + 1
        /\ count = Balance % Width
    BY TypeParts, BalanceType, SessionCount, Constants, PoolAssumption, CountIsBalance DEF DataOK, GhostType
  <1>r. After(c) \in {"next", "idle"}
    BY DEF After
  <1>p. \A q \in {"remove", "test", "decrement", "pop", "assign", "count", "ready", "next", "idle"} : q \in ThreadPC
    BY DEF ThreadPC
  <1>1. CASE CloseErase(c)
    <2>1. /\ thread[c].pc = "erase" /\ UNCHANGED <<count, sessions, master, ghost, waiting>>
          /\ Moved(c, "remove", thread[c].sock, thread[c].conn, thread[c].todo)
      BY <1>1, <1>p, GotoMoves DEF CloseErase
    <2>2. Balance' = Balance /\ Busy' = Busy
      BY <1>p, <2>1, <1>0, BalanceMoves DEF Balance, Occurs
    <2> QED
      BY <2>1, <2>2, CountFrame
  <1>2. CASE CloseRemove(c) /\ thread[c].sock \in sessions
    <2>1. /\ thread[c].pc = "remove" /\ UNCHANGED <<count, master, ghost, waiting>>
          /\ sessions' = sessions \ {thread[c].sock}
          /\ Moved(c, "test", thread[c].sock, thread[c].conn, thread[c].todo)
      BY <1>2, <1>p, GotoMoves DEF CloseRemove
    <2>2. Cardinality(sessions') = Cardinality(sessions) - 1
      BY <1>2, <2>1, SessionCount
    <2>3. Balance' = Balance /\ Busy' = Busy
      BY <1>p, <2>1, <2>2, <1>0, BalanceMoves DEF Balance, Occurs
    <2> QED
      BY <2>1, <2>3, CountFrame
  <1>3. CASE CloseRemove(c) /\ thread[c].sock \notin sessions
    <2>1. /\ thread[c].pc = "remove" /\ UNCHANGED <<count, sessions, master, ghost, waiting>>
          /\ Moved(c, After(c), None, 0, thread[c].todo)
      BY <1>3, ReturnMoves DEF CloseRemove
    <2>2. Balance' = Balance /\ Busy' = Busy
      BY <1>r, <1>p, <2>1, <1>0, BalanceMoves DEF Balance, Occurs
    <2> QED
      BY <2>1, <2>2, CountFrame
  <1>4. CASE CloseTest(c) /\ count > 0
    <2>1. /\ thread[c].pc = "test" /\ UNCHANGED <<count, sessions, master, ghost, waiting>>
          /\ Moved(c, "decrement", thread[c].sock, thread[c].conn, thread[c].todo)
      BY <1>4, <1>p, GotoMoves DEF CloseTest
    <2>2. Balance' = Balance /\ Busy' = Busy
      BY <1>p, <2>1, <1>0, BalanceMoves DEF Balance, Occurs
    <2> QED
      BY <2>1, <2>2, CountFrame
  <1>5. CASE CloseTest(c) /\ ~(count > 0)
    <2>1. /\ thread[c].pc = "test" /\ UNCHANGED <<count, sessions, master, waiting>> /\ count = 0
          /\ ghost'.skipped = ghost.skipped + 1 /\ ghost'.lost = ghost.lost /\ ghost'.below = ghost.below
          /\ Moved(c, "pop", thread[c].sock, thread[c].conn, thread[c].todo)
      BY <1>5, <1>0, <1>p, GotoMoves DEF CloseTest, GhostType
    <2>2. /\ Balance' = Balance /\ Busy' = Busy + 1
          /\ Busy' \in 0..Cardinality(Closers) /\ Busy \in 0..Cardinality(Closers)
      BY <1>p, <2>1, <1>0, BalanceMoves DEF Balance, Occurs
    <2> QED
      BY <1>0, <2>1, <2>2, CountIsBalance DEF Room
  <1>6. CASE CloseDecrement(c)
    <2>1. /\ thread[c].pc = "decrement" /\ UNCHANGED <<sessions, master, waiting>>
          /\ count' = (count - 1) % Width
          /\ ghost'.skipped = ghost.skipped /\ ghost'.lost = ghost.lost
          /\ ghost'.below <=> ghost.below \/ count = 0
          /\ Moved(c, "pop", thread[c].sock, thread[c].conn, thread[c].todo)
      BY <1>6, <1>0, <1>p, GotoMoves DEF CloseDecrement, GhostType
    <2>2. Balance' = Balance - 1 /\ Busy' = Busy + 1
      BY <1>p, <2>1, <1>0, BalanceMoves DEF Balance, Occurs
    <2>3. CountMatchesSessions'
      BY <1>0, <2>1, <2>2, CountIsBalance, ModStep, Constants
    <2>4. ASSUME ~ghost'.below PROVE count' = count - 1
      BY <1>0, <2>1, <2>4, CountStep
    <2>5. Room'
      BY <1>0, <2>1, <2>2, <2>4 DEF Room
    <2> QED
      BY <2>3, <2>5
  <1>7. CASE ClosePop(c) /\ waiting # <<>>
    <2>1. /\ thread[c].pc = "pop" /\ UNCHANGED <<count, sessions, master, ghost>>
          /\ Moved(c, "assign", Head(waiting), thread[c].conn, thread[c].todo)
      BY <1>7, PopMoves DEF ClosePop
    <2>2. Balance' = Balance /\ Busy' = Busy
      BY <1>p, <2>1, <1>0, BalanceMoves DEF Balance, Occurs
    <2> QED
      BY <1>7, <2>1, <2>2, CountFrame
  <1>8. CASE ClosePop(c) /\ waiting = <<>>
    <2>1. /\ thread[c].pc = "pop" /\ UNCHANGED <<count, sessions, master, ghost, waiting>>
          /\ Moved(c, After(c), None, 0, thread[c].todo)
      BY <1>8, ReturnMoves DEF ClosePop
    <2>2. Balance' = Balance /\ Busy' = Busy - 1
      BY <1>r, <1>p, <2>1, <1>0, BalanceMoves DEF Balance, Occurs
    <2> QED
      BY <1>0, <1>8, <2>1, <2>2, CountIsBalance DEF Room
  <1>9. CASE CloseAssign(c)
    <2>1. /\ thread[c].pc = "assign" /\ UNCHANGED <<count, master, ghost, waiting>>
          /\ sessions' = sessions \cup {thread[c].sock}
          /\ Moved(c, "count", thread[c].sock, thread[c].conn, thread[c].todo)
      BY <1>9, <1>p, GotoMoves DEF CloseAssign, assign_to_slave
    <2>2. thread[c].sock \notin sessions
      BY <2>1, TypeParts DEF Places, Assigning, ThreadsOK, ThreadOK
    <2>3. Cardinality(sessions') = Cardinality(sessions) + 1
      BY <2>1, <2>2, SessionCount
    <2>4. /\ Number({"test", "decrement"})' = Number({"test", "decrement"}) /\ Busy' = Busy
          /\ Number({"count"})' = Number({"count"}) + 1
          /\ Number({"test", "decrement"}) \in Int /\ Number({"count"}) \in Int
      BY <1>p, <2>1, <1>0, BalanceMoves DEF Occurs
    <2>5. Balance' = Balance
      BY <1>0, <2>1, <2>3, <2>4 DEF Balance
    <2> QED
      BY <2>1, <2>4, <2>5, CountFrame
  <1>10. CASE CloseAssignFails(c)
    <2>1. /\ thread[c].pc = "assign" /\ UNCHANGED <<count, sessions, master, waiting>>
          /\ ghost'.skipped = ghost.skipped /\ ghost'.lost = ghost.lost + 1 /\ ghost'.below = ghost.below
          /\ Moved(c, After(c), None, 0, thread[c].todo)
      BY <1>10, <1>0, ReturnMoves DEF CloseAssignFails, GhostType
    <2>2. Balance' = Balance /\ Busy' = Busy - 1
      BY <1>r, <1>p, <2>1, <1>0, BalanceMoves DEF Balance, Occurs
    <2>3. CountMatchesSessions'
      BY <1>0, <2>1, <2>2, CountIsBalance
    <2>4. count + Busy' + ghost'.lost = count + Busy + ghost.lost /\ Busy' < Busy /\ Busy' \in Int
      BY <1>0, <2>1, <2>2
    <2>5. ASSUME ~ghost'.below
          PROVE  /\ count' + Busy' + (IF master'.pc = "count" THEN 1 ELSE 0) <= MaxConnections + Cardinality(Closers)
                 /\ waiting' # <<>> => count' + Busy' + ghost'.lost >= MaxConnections
      <3>1. ~ghost.below
        BY <2>1, <2>5
      <3>2. /\ count + Busy + (IF master.pc = "count" THEN 1 ELSE 0) <= MaxConnections + Cardinality(Closers)
            /\ waiting # <<>> => count + Busy + ghost.lost >= MaxConnections
        BY <3>1 DEF Room
      <3>3. PICK i : i = IF master.pc = "count" THEN 1 ELSE 0
        OBVIOUS
      <3>4. i \in 0..1 /\ (IF master'.pc = "count" THEN 1 ELSE 0) = i /\ count' = count /\ waiting' = waiting
        BY <2>1, <3>3
      <3>5. count \in Int /\ Busy \in Int /\ Cardinality(Closers) \in Int /\ MaxConnections \in Int
        BY <1>0, Constants
      <3>6. count + Busy' + i <= MaxConnections + Cardinality(Closers)
        <4>1. count + Busy + i <= MaxConnections + Cardinality(Closers)
          BY <3>2, <3>3
        <4>2. Busy' < Busy /\ Busy' \in Int
          BY <2>4
        <4> QED
          BY <3>4, <3>5, <4>1, <4>2
      <3>7. waiting' # <<>> => count + Busy' + ghost'.lost >= MaxConnections
        BY <2>4, <3>2, <3>4
      <3> QED
        BY <3>4, <3>6, <3>7
    <2>6. Room'
      BY <2>5 DEF Room
    <2> QED
      BY <2>3, <2>6
  <1>11. CASE CloseCount(c)
    <2>1. /\ thread[c].pc = "count" /\ UNCHANGED <<sessions, master, ghost, waiting>>
          /\ count' = (count + 1) % Width
          /\ Moved(c, "ready", thread[c].sock, thread[c].conn, thread[c].todo)
      BY <1>11, <1>p, GotoMoves DEF CloseCount
    <2>2. Balance' = Balance + 1 /\ Busy' = Busy - 1 /\ Busy' \in 0..Cardinality(Closers)
      BY <1>p, <2>1, <1>0, BalanceMoves DEF Balance, Occurs
    <2>3. CountMatchesSessions'
      BY <1>0, <2>1, <2>2, CountIsBalance, ModStep, Constants
    <2>4. ASSUME ~ghost.below PROVE count' = count + 1
      <3>1. count + 1 < Width
        BY <1>0, <2>2, <2>4 DEF Room
      <3> QED
        BY <1>0, <2>1, <3>1, CountStep
    <2>5. Room'
      BY <1>0, <2>1, <2>2, <2>4 DEF Room
    <2> QED
      BY <2>3, <2>5
  <1>12. CASE on_wait_queue_activated(c)
    <2>1. /\ thread[c].pc = "ready" /\ UNCHANGED <<count, sessions, master, ghost, waiting>>
          /\ Moved(c, After(c), None, 0, thread[c].todo)
      BY <1>12, ReturnMoves DEF on_wait_queue_activated
    <2>2. Balance' = Balance /\ Busy' = Busy
      BY <1>r, <1>p, <2>1, <1>0, BalanceMoves DEF Balance, Occurs
    <2> QED
      BY <2>1, <2>2, CountFrame
  <1> QED
    BY <1>1, <1>2, <1>3, <1>4, <1>5, <1>6, <1>7, <1>8, <1>9, <1>10, <1>11, <1>12 DEF CloserStep, CloseStep

LEMMA CountNext ==
    TypeOK /\ Places /\ CountMatchesSessions /\ Room /\ [Next]_vars => CountMatchesSessions' /\ Room'
  <1> SUFFICES ASSUME TypeOK, Places, CountMatchesSessions, Room, [Next]_vars
               PROVE  CountMatchesSessions' /\ Room'
    OBVIOUS
  <1>1. CASE UNCHANGED vars
    <2>1. Balance' = Balance /\ Busy' = Busy
      BY <1>1, NumberStays DEF vars, Balance, Busy
    <2> QED
      BY <1>1, <2>1, CountFrame DEF vars
  <1> QED
    BY <1>1, NextParts, CountMaster, CountCallers, CountClosers

(* CountMatchesSessions: however many threads close and activate at once,      *)
(* current_connections_ differs from the number of sessions only by the        *)
(* updates under way and by the decrements left out, modulo its width.         *)
THEOREM CountMatchesSessionsAlways == Spec => []CountMatchesSessions
  BY TypeInit, TypeNext, PlacesInit, PlacesNext, CountInit, CountNext, PTL DEF Spec

LEMMA RoomEnough == TypeOK /\ Room => NobodyWaitsInVain
  <1> SUFFICES ASSUME TypeOK, Room, waiting # <<>>, ~ghost.below,
                      At({"test", "decrement", "pop", "assign", "count"}) = {}
               PROVE  count + ghost.lost >= MaxConnections
    BY DEF NobodyWaitsInVain
  <1>1. At({"pop", "assign", "count"}) = {}
    BY DEF At
  <1>2. Busy = 0
    BY <1>1, FS_EmptySet DEF Busy, Number
  <1>3. ghost.lost \in Nat /\ count \in Nat /\ MaxConnections \in Nat
    BY TypeParts, Constants DEF DataOK, GhostType
  <1> QED
    BY <1>2, <1>3 DEF Room

(* NobodyWaitsInVain: when no close is under way, somebody who waits finds the *)
(* limit reached, but for failed activations and a counter below zero.         *)
THEOREM NobodyWaitsInVainAlways == Spec => []NobodyWaitsInVain
  BY TypeInit, TypeNext, PlacesInit, PlacesNext, CountInit, CountNext, RoomEnough, PTL DEF Spec

-----------------------------------------------------------------------------
(* Strangers are watched *)

Known(s) == client[s] \in ghost.authed \cup ghost.robbed \/ s \in noauth

(* The part of InHand that belongs to one thread. *)
Holds(c, s) ==
    \/ thread[c].pc \in {"erase", "remove", "count", "ready"} /\ thread[c].sock = s
    \/ s \in thread[c].todo

LEMMA WatchedParts ==
    /\ StrangersAreWatched <=>
          \A s \in sessions : Known(s) \/ master.sock = s \/ \E c \in Closers : Holds(c, s)
    /\ StrangersAreWatched' <=>
          \A s \in sessions' : Known(s)' \/ master'.sock = s \/ \E c \in Closers : Holds(c, s)'
  BY DEF StrangersAreWatched, InHand, Known, Holds

(* A step of a thread, which may list, hand over or close what it holds. *)
LEMMA WatchedStep ==
    ASSUME TypeOK, StrangersAreWatched, master' = master,
           NEW c \in Closers, NEW p, NEW q, NEW n, NEW d, Moved(c, p, q, n, d),
           \A s \in sessions' : s \in sessions \/ Holds(c, s)',
           \A s \in sessions' \cap sessions : Known(s) \/ Holds(c, s) => Known(s)' \/ Holds(c, s)'
    PROVE  StrangersAreWatched'
  <1>1. \A b \in Closers \ {c} : \A s : Holds(b, s) => Holds(b, s)'
    BY DEF Moved, Holds
  <1>2. ASSUME NEW s \in sessions'
        PROVE  Known(s)' \/ master'.sock = s \/ \E b \in Closers : Holds(b, s)'
    <2>1. CASE s \notin sessions
      BY <1>2, <2>1
    <2>2. CASE s \in sessions
      BY <1>1, <1>2, <2>2, WatchedParts
    <2> QED
      BY <2>1, <2>2
  <1> QED
    BY <1>2, WatchedParts

LEMMA WatchedInit == Init => StrangersAreWatched
  BY DEF Init, StrangersAreWatched

(* The accept loop and the queue monitor. *)
LEMMA WatchedMaster ==
    ASSUME TypeOK, Places, StrangersAreWatched, MasterStep
    PROVE  StrangersAreWatched'
  <1>0. /\ thread' = thread /\ ghost' = ghost /\ waiting \in Seq(Sock)
        /\ client \in [Sock -> 0..MaxArrivals] /\ sessions \subseteq Sock
        /\ \A s \in sessions : client[s] # 0 /\ ~Deciding(s) /\ ~Queued(s)
        /\ master.pc \in {"decide", "count", "ready"} <=> master.sock \in Sock
    BY TypeParts DEF MasterStep, Accept, NobodyWaits, AcceptStep, AdmitFails, Expire, Admit, Enqueue, Refuse,
       Count, Ready, DataOK, MasterOK, Places
  <1>h. \A b \in Closers : \A s : Holds(b, s)' <=> Holds(b, s)
    BY <1>0 DEF Holds
  <1>s. ASSUME sessions' = sessions, noauth \subseteq noauth',
               \A s \in sessions : client'[s] = client[s],
               \A s \in sessions : master.sock = s => s \in noauth' \/ master'.sock = s
        PROVE  StrangersAreWatched'
    BY <1>0, <1>h, <1>s, WatchedParts DEF Known
  <1>1. CASE Accept
    <2>1. master.sock \notin Sock
      BY <1>0, <1>1 DEF Accept, run
    <2>2. PICK s \in Sock : client[s] = 0 /\ client' = [client EXCEPT ![s] = used.arrivals + 1]
      BY <1>1 DEF Accept
    <2> QED
      BY <1>0, <1>1, <1>s, <2>1, <2>2 DEF Accept
  <1>2. CASE NobodyWaits
    BY <1>0, <1>2, <1>s DEF NobodyWaits
  <1>3. CASE Enqueue
    BY <1>0, <1>3, <1>s DEF Enqueue, Deciding
  <1>4. CASE Refuse
    BY <1>0, <1>4, <1>s DEF Refuse, Deciding, Close
  <1>5. CASE AdmitFails
    BY <1>0, <1>5, <1>s DEF AdmitFails, Deciding, Close
  <1>6. CASE Count
    <2>1. master'.sock = master.sock
      BY <1>6, TypeParts DEF Count, MasterOK
    <2> QED
      BY <1>0, <1>6, <1>s, <2>1 DEF Count
  <1>7. CASE Ready
    BY <1>0, <1>7, <1>s DEF Ready
  <1>8. CASE Expire
    <2>1. Queued(Head(waiting)) /\ Head(waiting) \in Sock
      BY <1>0, <1>8, QueueTail, HeadTail DEF Expire, Places
    <2> QED
      BY <1>0, <1>8, <1>s, <2>1 DEF Expire, Close
  <1>9. CASE Admit
    <2>1. /\ sessions' = sessions \cup {master.sock} /\ master'.sock = master.sock
          /\ noauth' = noauth /\ client' = client
      BY <1>9, TypeParts DEF Admit, assign_to_slave, MasterOK
    <2> QED
      BY <1>0, <1>h, <2>1, WatchedParts DEF Known
  <1> QED
    BY <1>1, <1>2, <1>3, <1>4, <1>5, <1>6, <1>7, <1>8, <1>9 DEF MasterStep, AcceptStep

(* Who reads, answers, expels and stops. *)
LEMMA WatchedCallers ==
    ASSUME TypeOK, Places, StrangersAreWatched, CallerStep
    PROVE  StrangersAreWatched'
  <1>s. "stop" \in Closers /\ "auth" \in Closers /\ Slaves \subseteq Closers /\ Workers \subseteq Closers
    BY DEF Closers
  <1>p. {"erase", "request", "begin", "join", "collect"} \subseteq ThreadPC
    BY DEF ThreadPC
  <1>t. \A c \in Closers : thread[c].pc \in {"idle", "request", "begin", "join", "collect"} =>
                 thread[c].todo = {} /\ \A r : ~Holds(c, r)
    BY TypeParts DEF ThreadsOK, ThreadOK, Holds
  <1>f. /\ sessions \subseteq Sock /\ client \in [Sock -> 0..MaxArrivals] /\ noauth \subseteq Sock
        /\ waiting \in Seq(Sock) /\ ghost \in GhostType
    BY TypeParts DEF DataOK
  <1>k. ASSUME NEW c \in Closers, NEW p, NEW q, NEW n, NEW d, Moved(c, p, q, n, d),
               sessions' = sessions, noauth' = noauth, ghost' = ghost, master' = master,
               \A r \in sessions : client'[r] = client[r],
               \A r \in sessions : Holds(c, r) => Holds(c, r)'
        PROVE  StrangersAreWatched'
    <2>1. \A r \in sessions : Known(r)' <=> Known(r)
      BY <1>k DEF Known
    <2> QED
      BY <1>k, <2>1, WatchedStep
  <1>2. ASSUME NEW s \in Sock, NEW c \in Slaves, ReadFails(c, s) PROVE StrangersAreWatched'
    <2>1. Moved(c, "erase", s, client[s], thread[c].todo) /\ \A r : ~Holds(c, r)
      BY <1>2, <1>s, <1>p, <1>t, BeginMoves DEF ReadFails, Begin, run_slave
    <2> QED
      BY <1>2, <1>s, <1>k, <2>1 DEF ReadFails
  <1>3. ASSUME NEW s \in Sock, NEW c \in Workers, Request(c, s) PROVE StrangersAreWatched'
    <2>1. Moved(c, "request", s, client[s], thread[c].todo) /\ \A r : ~Holds(c, r)
      BY <1>3, <1>s, <1>p, <1>t, BeginMoves DEF Request
    <2> QED
      BY <1>3, <1>s, <1>k, <2>1 DEF Request
  <1>4. ASSUME NEW c \in Workers, Authenticate(c) PROVE StrangersAreWatched'
    <2>1. Moved(c, "idle", None, 0, {}) /\ \A r : ~Holds(c, r)
      BY <1>4, <1>s, <1>t, IdleMoves DEF Authenticate
    <2>2. /\ UNCHANGED <<client, sessions, master>> /\ noauth' = noauth \ {thread[c].sock}
          /\ ghost'.authed = ghost.authed \cup {thread[c].conn}
          /\ ghost'.robbed = IF client[thread[c].sock] # thread[c].conn
                              THEN ghost.robbed \cup {client[thread[c].sock]} ELSE ghost.robbed
      BY <1>4, <1>f DEF Authenticate, GhostType
    <2>3. \A r \in sessions : Known(r) => Known(r)'
      BY <2>2 DEF Known
    <2> QED
      BY <1>s, <2>1, <2>2, <2>3, WatchedStep
  <1>5. ASSUME NEW c \in Workers, Reject(c) PROVE StrangersAreWatched'
    <2>1. Moved(c, "erase", thread[c].sock, thread[c].conn, thread[c].todo) /\ \A r : ~Holds(c, r)
      BY <1>5, <1>s, <1>p, <1>t, GotoMoves DEF Reject
    <2> QED
      BY <1>5, <1>s, <1>k, <2>1 DEF Reject
  <1>6. ASSUME NEW c \in Workers, Answer(c) PROVE StrangersAreWatched'
    <2>1. Moved(c, "idle", None, 0, {}) /\ \A r : ~Holds(c, r)
      BY <1>6, <1>s, <1>t, IdleMoves DEF Answer
    <2> QED
      BY <1>6, <1>s, <1>k, <2>1 DEF Answer
  <1>7. ASSUME Expel PROVE StrangersAreWatched'
    <2>1. PICK l \in SUBSET noauth : noauth' = noauth \ l /\
              thread' = [thread EXCEPT !["auth"] = [@ EXCEPT !.pc = "next", !.todo = l]]
      BY <1>7 DEF Expel
    <2>2. Moved("auth", "next", thread["auth"].sock, thread["auth"].conn, l) /\ \A r : ~Holds("auth", r)
      BY <1>7, <1>s, <1>t, <1>f, <2>1, ListMoves DEF Expel
    <2>3. \A r \in l : Holds("auth", r)'
      BY <2>2 DEF Moved, Holds
    <2>4. UNCHANGED <<client, sessions, master, ghost>>
      BY <1>7 DEF Expel
    <2>5. \A r \in sessions : Known(r) => Known(r)' \/ Holds("auth", r)'
      BY <2>1, <2>3, <2>4 DEF Known
    <2> QED
      BY <1>s, <2>2, <2>4, <2>5, WatchedStep
  <1>8. ASSUME NEW c \in {"auth", "stop"}, CloseNext(c) PROVE StrangersAreWatched'
    <2>1. c \in Closers /\ UNCHANGED <<client, sessions, master, ghost, noauth>> /\ thread[c].pc = "next"
      BY <1>8, <1>s DEF CloseNext
    <2>2. \A r : Holds(c, r) <=> r \in thread[c].todo
      BY <2>1 DEF Holds
    <2>3. ASSUME NEW s \in thread[c].todo, Moved(c, "erase", s, client[s], thread[c].todo \ {s})
          PROVE  StrangersAreWatched'
      <3>1. \A r : Holds(c, r) => Holds(c, r)'
        BY <2>2, <2>3 DEF Moved, Holds
      <3> QED
        BY <1>k, <2>1, <2>3, <3>1
    <2>4. ASSUME thread[c].todo = {}, Moved(c, IF c = "stop" THEN "stopped" ELSE "idle", None, 0, {})
          PROVE  StrangersAreWatched'
      BY <1>k, <2>1, <2>2, <2>4
    <2> QED
      BY <1>8, <2>3, <2>4, CloseNextMoves
  <1>9. ASSUME StopBegin \/ StopRunning \/ StopDrain PROVE StrangersAreWatched'
    <2>1. UNCHANGED <<sessions, master, ghost, noauth>> /\ \A r : ~Holds("stop", r)
      BY <1>9, <1>s, <1>t DEF StopBegin, StopRunning, StopDrain
    <2>2. \E p \in {"begin", "join", "collect"} : Goto("stop", p)
      BY <1>9 DEF StopBegin, StopRunning, StopDrain
    <2>3. \E p \in ThreadPC : Moved("stop", p, thread["stop"].sock, thread["stop"].conn, thread["stop"].todo)
      BY <1>s, <1>p, <2>2, GotoMoves
    <2>4. \A r \in sessions : client'[r] = client[r]
      <3>1. CASE UNCHANGED client
        BY <3>1
      <3>2. CASE client' = [s \in Sock |-> IF s \in Range(waiting) THEN 0 ELSE client[s]]
        <4>1. \A r \in Range(waiting) : Queued(r)
          BY <1>f DEF Range, Queued
        <4>2. \A r \in sessions : ~Queued(r)
          BY <1>f DEF Places
        <4> QED
          BY <1>f, <3>2, <4>1, <4>2
      <3> QED
        BY <1>9, <3>1, <3>2 DEF StopBegin, StopRunning, StopDrain
    <2> QED
      BY <1>s, <1>k, <2>1, <2>3, <2>4
  <1>10. ASSUME StopCollect PROVE StrangersAreWatched'
    <2>1. Moved("stop", "next", thread["stop"].sock, thread["stop"].conn, sessions) /\ \A r : ~Holds("stop", r)
      BY <1>10, <1>s, <1>t, <1>f, ListMoves DEF StopCollect
    <2> QED
      BY <1>10, <1>s, <1>k, <2>1 DEF StopCollect
  <1> QED
    BY <1>2, <1>3, <1>4, <1>5, <1>6, <1>7, <1>8, <1>9, <1>10 DEF CallerStep

(* The steps of close_socket. *)
LEMMA WatchedClosers ==
    ASSUME TypeOK, Places, StrangersAreWatched, NEW c \in Closers, CloserStep(c)
    PROVE  StrangersAreWatched'
  <1>p. {"remove", "test", "decrement", "pop", "assign", "count", "ready"} \subseteq ThreadPC
    BY DEF ThreadPC
  <1>f. /\ sessions \subseteq Sock /\ client \in [Sock -> 0..MaxArrivals] /\ noauth \subseteq Sock
        /\ ghost \in GhostType
    BY TypeParts DEF DataOK
  <1>k. ASSUME NEW p, NEW q, NEW n, Moved(c, p, q, n, thread[c].todo), master' = master,
               sessions' \subseteq sessions, ghost'.authed = ghost.authed, ghost'.robbed = ghost.robbed,
               \A r \in sessions' : client'[r] = client[r],
               \A r \in sessions' : r \in noauth => r \in noauth' \/ Holds(c, r)',
               \A r \in sessions' : thread[c].pc \in {"erase", "remove", "count", "ready"} /\ thread[c].sock = r
                                     => r \in noauth' \/ Holds(c, r)'
        PROVE  StrangersAreWatched'
    <2>1. \A r \in thread[c].todo : Holds(c, r)'
      BY <1>k DEF Moved, Holds
    <2>2. \A r \in sessions' \cap sessions : Known(r) \/ Holds(c, r) => Known(r)' \/ Holds(c, r)'
      BY <1>k, <2>1 DEF Known, Holds
    <2> QED
      BY <1>k, <2>2, WatchedStep
  <1>g. ASSUME NEW p \in {"erase", "remove", "count", "ready"}, NEW n, NEW d,
               Moved(c, p, thread[c].sock, n, d)
        PROVE  \A r : r = thread[c].sock => Holds(c, r)'
    BY <1>g DEF Moved, Holds
  <1>1. CASE CloseErase(c)
    <2>1. /\ UNCHANGED <<client, sessions, master, ghost>> /\ noauth' = noauth \ {thread[c].sock}
          /\ Moved(c, "remove", thread[c].sock, thread[c].conn, thread[c].todo)
      BY <1>1, <1>p, GotoMoves DEF CloseErase
    <2>2. \A r : r = thread[c].sock => Holds(c, r)'
      BY <1>g, <2>1
    <2> QED
      BY <1>k, <2>1, <2>2
  <1>2. CASE CloseRemove(c) /\ thread[c].sock \in sessions
    <2>1. /\ UNCHANGED <<master, ghost, noauth>> /\ sessions' = sessions \ {thread[c].sock}
          /\ client' = [client EXCEPT ![thread[c].sock] = 0]
          /\ Moved(c, "test", thread[c].sock, thread[c].conn, thread[c].todo)
      BY <1>2, <1>p, GotoMoves DEF CloseRemove, Close
    <2> QED
      BY <1>f, <1>k, <2>1
  <1>3. CASE CloseRemove(c) /\ thread[c].sock \notin sessions
    <2>1. /\ UNCHANGED <<client, sessions, master, ghost, noauth>>
          /\ Moved(c, After(c), None, 0, thread[c].todo)
      BY <1>3, ReturnMoves DEF CloseRemove
    <2> QED
      BY <1>3, <1>k, <2>1
  <1>4. CASE CloseTest(c) \/ CloseDecrement(c)
    <2>1. /\ UNCHANGED <<client, sessions, master, noauth>>
          /\ ghost'.authed = ghost.authed /\ ghost'.robbed = ghost.robbed
          /\ thread[c].pc \in {"test", "decrement"}
          /\ \E p \in {"decrement", "pop"} : Goto(c, p)
      BY <1>4, <1>f DEF CloseTest, CloseDecrement, GhostType
    <2>2. \E p : Moved(c, p, thread[c].sock, thread[c].conn, thread[c].todo)
      BY <1>p, <2>1, GotoMoves
    <2> QED
      BY <1>k, <2>1, <2>2
  <1>5. CASE ClosePop(c)
    <2>1. UNCHANGED <<client, sessions, master, noauth, ghost>> /\ thread[c].pc = "pop"
      BY <1>5 DEF ClosePop
    <2>2. \E p, q, n : Moved(c, p, q, n, thread[c].todo)
      BY <1>5, PopMoves, ReturnMoves DEF ClosePop
    <2> QED
      BY <1>k, <2>1, <2>2
  <1>6. CASE CloseAssign(c)
    <2>1. /\ UNCHANGED <<client, master, noauth, ghost>> /\ sessions' = sessions \cup {thread[c].sock}
          /\ Moved(c, "count", thread[c].sock, thread[c].conn, thread[c].todo) /\ thread[c].pc = "assign"
      BY <1>6, <1>p, GotoMoves DEF CloseAssign, assign_to_slave
    <2>2. /\ \A r : r = thread[c].sock => Holds(c, r)'
          /\ \A r \in thread[c].todo : Holds(c, r)'
      BY <1>g, <2>1 DEF Moved, Holds
    <2>3. \A r : (Holds(c, r) => r \in thread[c].todo) /\ (Known(r) => Known(r)')
      BY <2>1 DEF Holds, Known
    <2> QED
      BY <2>1, <2>2, <2>3, WatchedStep
  <1>7. CASE CloseAssignFails(c)
    <2>1. /\ UNCHANGED <<sessions, master, noauth>> /\ client' = [client EXCEPT ![thread[c].sock] = 0]
          /\ ghost'.authed = ghost.authed /\ ghost'.robbed = ghost.robbed
          /\ Moved(c, After(c), None, 0, thread[c].todo) /\ thread[c].pc = "assign"
      BY <1>7, <1>f, ReturnMoves DEF CloseAssignFails, Close, GhostType
    <2>2. thread[c].sock \notin sessions
      BY <1>f, <2>1 DEF Places, Assigning
    <2> QED
      BY <1>f, <1>k, <2>1, <2>2
  <1>8. CASE CloseCount(c)
    <2>1. /\ UNCHANGED <<client, sessions, master, ghost, noauth>>
          /\ Moved(c, "ready", thread[c].sock, thread[c].conn, thread[c].todo)
      BY <1>8, <1>p, GotoMoves DEF CloseCount
    <2>2. \A r : r = thread[c].sock => Holds(c, r)'
      BY <1>g, <2>1
    <2> QED
      BY <1>k, <2>1, <2>2
  <1>9. CASE on_wait_queue_activated(c)
    <2>1. /\ UNCHANGED <<client, sessions, master, ghost>> /\ noauth' = noauth \cup {thread[c].sock}
          /\ Moved(c, After(c), None, 0, thread[c].todo)
      BY <1>9, ReturnMoves DEF on_wait_queue_activated
    <2> QED
      BY <1>k, <2>1
  <1> QED
    BY <1>1, <1>2, <1>3, <1>4, <1>5, <1>6, <1>7, <1>8, <1>9 DEF CloserStep, CloseStep

LEMMA WatchedNext == TypeOK /\ Places /\ StrangersAreWatched /\ [Next]_vars => StrangersAreWatched'
  <1> SUFFICES ASSUME TypeOK, Places, StrangersAreWatched, [Next]_vars PROVE StrangersAreWatched'
    OBVIOUS
  <1>1. CASE UNCHANGED vars
    BY <1>1 DEF vars, StrangersAreWatched, InHand
  <1> QED
    BY <1>1, NextParts, WatchedMaster, WatchedCallers, WatchedClosers

(* StrangersAreWatched: a session without authentication is on the list of     *)
(* connections_without_auth_ or in somebody's hands, unless a stale request of *)
(* the descriptor's earlier client struck it off.                              *)
THEOREM StrangersAreWatchedAlways == Spec => []StrangersAreWatched
  BY TypeInit, TypeNext, PlacesInit, PlacesNext, WatchedInit, WatchedNext, PTL DEF Spec
=============================================================================
