-------------------------------- MODULE Raft --------------------------------
(***************************************************************************)
(* The cluster: RaftNode (raft.cpp) on every server, the connection each   *)
(* follower keeps to its leader, and the one-shot connections that carry   *)
(* votes and the announcement of a new leader.                             *)
(*                                                                         *)
(* A handler runs under mutex_, so it is one step.  become_follower keeps  *)
(* mutex_ while it waits for the answer to JOIN_CLUSTER, and when that is  *)
(* a redirection it calls itself: a server with a join under way takes no  *)
(* other step that needs mutex_.  submit_command appends without mutex_,   *)
(* and the handlers of JOIN_CLUSTER and NEW_MASTER look at role and term   *)
(* before they lock it, as election_loop does: what such a thread has read *)
(* waits for mutex_ in "msgs".                                             *)
(* Operators take a world (all the state) and give the world after a call, *)
(* so that handlers compose as the code does.                              *)
(***************************************************************************)
EXTENDS Integers, FiniteSetsExt, SequencesExt, Functions

CONSTANTS
    Server,          \* addresses
    Null,            \* the null Address
    Members,         \* the servers that form a cluster at the start
    Master,          \* the leader of that cluster
    Behind,          \* the members that lack the first write at the start
    Writers,         \* the servers clients send writes to
    Joiners,         \* the servers SET_MASTER is sent to
    Confirm,         \* need_majority_confirm_
    Batch,           \* append_entries_max_batch
    MaxTerm,         \* bound: elections
    MaxWrites,       \* bound: client writes
    MaxDrops,        \* bound: connections that break
    MaxRestarts,     \* bound: crashes
    MaxCommands,     \* bound: SET_MASTER and REMOVE_NODE commands
    MaxQueue         \* bound: messages waiting on a connection when a heartbeat is sent

ASSUME RaftAssumption ==
    /\ Members \subseteq Server /\ Behind \subseteq Members \ {Master}
    /\ Writers \subseteq Server /\ Joiners \subseteq Server
    /\ Master \in Members /\ Null \notin Server /\ IsFiniteSet(Server)
    /\ Confirm \in BOOLEAN /\ Batch \in Nat \ {0}
    /\ {MaxTerm, MaxWrites, MaxDrops, MaxRestarts, MaxCommands, MaxQueue} \subseteq Nat
    /\ Behind # {} => MaxWrites > 0

VARIABLES
    node,      \* the RaftNode of every server
    conn,      \* follower_client_ of every server and what is on its way
    msgs,      \* votes and announcements on one-shot connections, and threads
               \* that have read something and wait for mutex_
    used       \* how much of each bound is used
vars == <<node, conn, msgs, used>>

NoMap == <<>>
NoConn == [to |-> Null, open |-> FALSE, down |-> <<>>, up |-> <<>>]
NoJoin == [to |-> Null, term |-> 0, commit |-> 0, loop |-> FALSE]

\* A RaftNode before it loads any state.  voted says whether voted_for_ is set:
\* it holds the address of a connection, which no later request comes from.
\* next and match are keyed by the follower at the other end of the socket.
\* join holds the arguments of a call of become_follower that has not returned,
\* and whether follower_client_loop made it.  Ghosts: exec, the writes executed
\* on the storage engine; won, the terms in which the server was elected and the
\* votes it then had; strayed, whether its votes no longer go with its term: a join,
\* SET_MASTER or a stale announcement took the term back or cleared the vote, or a
\* candidate moved to a later term with the votes it had and asked for more.
Fresh ==
    [life |-> "up", role |-> "Leader", term |-> 0, voted |-> FALSE, votes |-> 0,
     nodes |-> {}, leader |-> Null, log |-> <<>>, commit |-> 0, applied |-> 0,
     peers |-> {}, next |-> NoMap, match |-> NoMap, writing |-> "no",
     join |-> NoJoin, joining |-> FALSE, exec |-> <<>>, won |-> {}, strayed |-> FALSE]

World == [node |-> node, conn |-> conn, msgs |-> msgs]
Becomes(w) == \E v \in {w} : node' = v.node /\ conn' = v.conn /\ msgs' = v.msgs
Use(what) == used' = [used EXCEPT ![what] = @ + 1]
Left(what, bound) == used[what] < bound

Up(s) == node[s].life = "up"
\* Nobody holds mutex_ of s.
Free(s) == Up(s) /\ ~node[s].joining

-----------------------------------------------------------------------------
(* The log (raft_log_array.cpp): it starts at index 1, because truncation,    *)
(* the only operation that moves its base, never completes (module RaftLog).  *)

get_term(log, i) == IF i \in DOMAIN log THEN log[i].term ELSE 0
LastTerm(log) == get_term(log, Len(log))
get_entries_from(log, i) ==
    IF i = 0 THEN <<>> ELSE SubSeq(log, i, Min({i + Batch - 1, Len(log)}))
Without(m, f) == Restrict(m, DOMAIN m \ {f})
With(m, f, v) == [g \in DOMAIN m \cup {f} |-> IF g = f THEN v ELSE m[g]]
At(m, f) == IF f \in DOMAIN m THEN m[f] ELSE 0

\* Run entries applied + 1 .. upto on the storage engine, those there are.
Execute(n, upto) ==
    [n EXCEPT !.applied = upto,
        !.exec = @ \o [i \in 1..(Min({upto, Len(n.log)}) - n.applied) |-> n.log[n.applied + i].id]]

apply_committed_entries(n) == IF n.applied >= n.commit THEN n ELSE Execute(n, n.commit)

commit_entries(n) ==
    IF n.commit >= Len(n.log) THEN n
    ELSE Execute([n EXCEPT !.commit = Len(n.log)], Len(n.log))

\* The middle of the match indexes of the connected followers and the last index.
\* Mutant: half of the servers are enough.
MajorityIndexHalf(n) ==
    LET holders(v) == Cardinality({g \in DOMAIN n.match : n.match[g] >= v})
                      + IF Len(n.log) >= v THEN 1 ELSE 0
    IN  Max({v \in Range(n.match) \cup {Len(n.log)} :
            holders(v) >= (Cardinality(DOMAIN n.match) + 1) \div 2})

MajorityIndex(n) ==
    LET holders(v) == Cardinality({g \in DOMAIN n.match : n.match[g] >= v})
                      + IF Len(n.log) >= v THEN 1 ELSE 0
    IN  Max({v \in Range(n.match) \cup {Len(n.log)} :
            holders(v) > (Cardinality(DOMAIN n.match) + 1) \div 2})

try_commit_entries(n) ==
    LET m == MajorityIndex(n)
        advanced == m > n.commit /\ get_term(n.log, m) = n.term
    IN  IF n.commit >= Len(n.log) THEN n
        ELSE apply_committed_entries(IF advanced THEN [n EXCEPT !.commit = m] ELSE n)

-----------------------------------------------------------------------------
(* Sending *)

Connected(w, f, l) == w.conn[f].to = l /\ w.conn[f].open

\* TCPServer::send: queued on the socket, gone if the other end is gone.
Queue(c, m) == [c EXCEPT !.down = Append(@, m)]
send(w, f, l, m) == IF Connected(w, f, l) THEN [w EXCEPT !.conn[f] = Queue(@, m)] ELSE w

SendAll(w, l, fs, m) ==
    [w EXCEPT !.conn = [f \in Server |->
        IF f \in fs /\ Connected(w, f, l) THEN Queue(@[f], m) ELSE @[f]]]

broadcast_to_followers(w, l, m) ==
    IF w.node[l].role = "Leader" THEN SendAll(w, l, w.node[l].peers, m) ELSE w

\* Mutant: a heartbeat without entries does not carry the commit index.
AppendEntriesNoCommit(n, f) ==
    LET next == At(n.next, f)
        prev == IF next > 0 THEN next - 1 ELSE 0
        entries == get_entries_from(n.log, next)
    IN  [type |-> "append", term |-> n.term, prev |-> prev,
         prev_term |-> get_term(n.log, prev), entries |-> entries,
         commit |-> IF entries = <<>> THEN 0 ELSE n.commit]

\* Entries from next_index_ on, or a bare heartbeat.
AppendEntries(n, f) ==
    LET next == At(n.next, f)
        prev == IF next > 0 THEN next - 1 ELSE 0
    IN  [type |-> "append", term |-> n.term, prev |-> prev,
         prev_term |-> get_term(n.log, prev),
         entries |-> get_entries_from(n.log, next), commit |-> n.commit]

send_append_entries(w, l, f) ==
    IF w.node[l].role = "Leader" THEN send(w, f, l, AppendEntries(w.node[l], f)) ELSE w

send_append_to(w, l, fs) ==
    IF w.node[l].role # "Leader" THEN w
    ELSE [w EXCEPT !.conn = [f \in Server |->
             IF f \in fs /\ Connected(w, f, l)
             THEN Queue(@[f], AppendEntries(w.node[l], f)) ELSE @[f]]]

\* The cluster Members have formed with SET_MASTER: before any write or, if some
\* members are Behind, after one write that these have still to receive.
Init ==
    LET fs == Members \ {Master}
        first == IF Behind = {} THEN <<>> ELSE <<[term |-> 0, id |-> 1]>>
        have(s) == IF s \in Behind THEN <<>> ELSE first
        leader == [Fresh EXCEPT !.nodes = fs, !.peers = fs, !.log = first,
                      !.next = [f \in fs |-> Len(have(f)) + 1],
                      !.match = [f \in fs |-> Len(have(f))]]
        follower(s) == [Fresh EXCEPT !.role = "Follower", !.leader = Master,
                            !.nodes = Members \ {s}, !.log = have(s)]
        link(s) == [to |-> Master, open |-> TRUE, up |-> <<>>,
                    down |-> IF s \in Behind THEN <<AppendEntries(leader, s)>> ELSE <<>>]
    IN  /\ node = [s \in Server |->
              CASE s = Master -> IF Confirm THEN try_commit_entries(leader)
                                 ELSE commit_entries(leader)
                [] s \in fs -> follower(s)
                [] OTHER -> Fresh]
        /\ conn = [s \in Server |-> IF s \in fs THEN link(s) ELSE NoConn]
        /\ msgs = {}
        /\ used = [writes |-> Len(first), drops |-> 0, restarts |-> 0, commands |-> 0]

-----------------------------------------------------------------------------
(* Changing role *)

\* to_leader drops follower_client_; leader_ is kept for the next connection.
become_leader(w, s) ==
    [w EXCEPT !.node[s].role = "Leader", !.node[s].nodes = {}, !.conn[s] = NoConn]

\* become_follower takes mutex_ and connects; Join is what follows.
become_follower(w, s, addr, term, commit, loop) ==
    [w EXCEPT !.node[s].joining = TRUE,
              !.node[s].join = [to |-> addr, term |-> term, commit |-> commit, loop |-> loop]]

\* It returns.  A server that was starting then caps its commit index, applies
\* what is committed and begins to listen.
Return(w, s) ==
    LET n == [w.node[s] EXCEPT !.joining = FALSE, !.join = NoJoin]
        booted == [n EXCEPT !.life = "up", !.commit = Min({@, Len(n.log)})]
    IN  [w EXCEPT !.node[s] = IF n.life = "boot" THEN apply_committed_entries(booted) ELSE n]

\* The threads that handle a JOIN_CLUSTER; whose newcomer no longer waits.
Joins(w) == {m \in w.msgs : m.type = "join"}
Abandoned(m) == [m EXCEPT !.live = FALSE]
Asked(s) == {m \in Joins(World) : m.from = s /\ m.live}

\* The process ends: its sockets close, what it has not saved is lost.
Die(w, s) ==
    [node |-> [w.node EXCEPT ![s] = [@ EXCEPT
                  !.life = "down", !.role = "Leader", !.votes = 0, !.peers = {}, !.next = NoMap,
                  !.match = NoMap, !.writing = "no", !.joining = FALSE, !.join = NoJoin]],
     conn |-> [f \in Server |->
                  IF f = s THEN NoConn
                  ELSE IF w.conn[f].to = s THEN [NoConn EXCEPT !.to = s] ELSE w.conn[f]],
     msgs |-> {m \in w.msgs : m.from # s /\ (m.type \in {"vote", "heard", "join"} => m.to # s)}
              \cup {Abandoned(m) : m \in {x \in Joins(w) : x.from = s /\ x.to # s}}]

\* What become_follower does with any answer, before it looks at it.
Follow(n) ==
    LET j == n.join
        higher == j.term > n.term
    IN  [n EXCEPT !.role = "Follower", !.leader = j.to, !.nodes = {}, !.commit = j.commit,
                  !.term = IF higher THEN j.term ELSE @,
                  !.voted = IF higher THEN FALSE ELSE @,
                  !.next = NoMap, !.match = NoMap]

\* With followers of its own, it tells the first of them and closes that socket:
\* close_socket locks follower_sockets_mutex_ again and throws.  Nobody catches
\* that in follower_client_loop; elsewhere the answer is simply not looked at.
Throws(w, s, p) ==
    LET told == send(w, p, s, [type |-> "query", leader |-> w.node[s].leader])
    IN  IF w.node[s].join.loop THEN Die(told, s) ELSE Return(told, s)

Admit(n, f, commit) ==
    [n EXCEPT !.next = With(@, f, commit + 1), !.match = With(@, f, 0),
              !.nodes = @ \cup {f}, !.peers = @ \cup {f}]

\* A newcomer that gave up may have come back on another connection, which then
\* loses its indexes.
Readmit(n, f, commit, back) ==
    IF back THEN [n EXCEPT !.next = Without(@, f), !.match = Without(@, f), !.nodes = @ \cup {f}]
    ELSE Admit(n, f, commit)

\* The second half of handle_join_cluster, under mutex_: the newcomer gets the
\* entries from its commit index on.  The role is not looked at again.
handle_join_cluster(w, m, back) ==
    LET joined == [w EXCEPT !.node[m.to] = Readmit(@, m.from, m.index, back)]
    IN  send_append_entries(joined, m.to, m.from)

\* Mutant: the server stays among its own nodes.
handle_join_cluster_response_self(n, s, l, term, nodes) ==
    [n EXCEPT !.term = term, !.strayed = @ \/ term < n.term, !.nodes = nodes \cup {l}]

\* The term of the leader is taken as it is, even if it is lower.
handle_join_cluster_response(n, s, l, term, nodes) ==
    [n EXCEPT !.term = term, !.strayed = @ \/ term < n.term, !.nodes = (nodes \cup {l}) \ {s}]

handle_query_leader_response(w, s, addr, loop) ==
    IF addr = Null THEN Return(w, s)
    ELSE IF addr = s THEN Return(become_leader(w, s), s)
    ELSE become_follower(w, s, addr, 0, 0, loop)

\* How the call of become_follower goes on: nobody listens, the answer of a server
\* that does not lead, the answer of one that does, no answer in time.
Refused(s) ==
    LET gone == node[s].join.to \notin {u \in Server : Up(u)}
    IN  /\ node[s].joining /\ Asked(s) = {}
        /\ gone \/ Left("drops", MaxDrops)
        /\ Becomes(Return([World EXCEPT !.conn[s] = NoConn], s))
        /\ IF gone THEN UNCHANGED used ELSE Use("drops")

Redirected(s) ==
    LET t == node[s].join.to
        w == [World EXCEPT !.node[s] = Follow(@), !.conn[s] = [NoConn EXCEPT !.to = t]]
    IN  /\ node[s].joining /\ Asked(s) = {}
        /\ t \in Server /\ Up(t) /\ node[t].role # "Leader"
        /\ IF node[s].peers = {}
           THEN Becomes(handle_query_leader_response(w, s, node[t].leader, node[s].join.loop))
           ELSE \E p \in node[s].peers : Becomes(Throws(w, s, p))
        /\ UNCHANGED used

\* The first half of handle_join_cluster, without mutex_: t leads, reads its term
\* and tells the others.
Ask(s) ==
    LET t == node[s].join.to
        told == SendAll(World, t, node[t].peers \ {s}, [type |-> "new_node", addr |-> s])
        m == [type |-> "join", from |-> s, to |-> t, term |-> node[t].term,
              index |-> node[s].join.commit, live |-> TRUE]
    IN  /\ node[s].joining /\ Asked(s) = {}
        /\ t \in Server \ {s} /\ Up(t) /\ node[t].role = "Leader"
        /\ Becomes([told EXCEPT !.msgs = @ \cup {m}])
        /\ UNCHANGED used

\* Two servers that join each other wait until one of them gives up.
NoAnswer(s) ==
    \E m \in Asked(s) :
        LET w == [World EXCEPT !.conn[s] = [NoConn EXCEPT !.to = m.to],
                               !.msgs = (@ \ {m}) \cup {Abandoned(m)}]
        IN  /\ node[m.to].joining \/ Left("drops", MaxDrops)
            /\ Becomes(Return(w, s))
            /\ IF node[m.to].joining THEN UNCHANGED used ELSE Use("drops")

Accepted(m) ==
    LET s == m.from
        t == m.to
        link == [World EXCEPT !.conn[s] = [NoConn EXCEPT !.to = t, !.open = TRUE], !.msgs = @ \ {m}]
        w == [handle_join_cluster(link, m, FALSE) EXCEPT !.node[s] = Follow(@)]
    IN  /\ m.type = "join" /\ m.live /\ Free(t)
        /\ IF node[s].peers = {}
           THEN Becomes(Return([w EXCEPT !.node[s] =
                    handle_join_cluster_response(@, s, t, m.term, node[t].nodes)], s))
           ELSE \E p \in node[s].peers : Becomes(Throws(w, s, p))
        /\ UNCHANGED used

\* The newcomer is taken in after it gave up.
AcceptedLate(m) ==
    /\ m.type = "join" /\ ~m.live /\ Free(m.to)
    /\ Becomes(handle_join_cluster([World EXCEPT !.msgs = @ \ {m}], m,
                                   Connected(World, m.from, m.to)))
    /\ UNCHANGED used

-----------------------------------------------------------------------------
(* Elections *)

become_candidate(n) ==
    [n EXCEPT !.term = @ + 1, !.voted = TRUE, !.votes = 1, !.role = "Candidate"]

\* One request to every known node.
send_request_vote(s, n) ==
    {[type |-> "request", from |-> s, to |-> d, term |-> n.term,
      index |-> Len(n.log), last |-> LastTerm(n.log)] : d \in n.nodes}

\* election_loop: nothing was heard for an election timeout, and s does not lead,
Timeout(s) ==
    /\ Up(s) /\ node[s].role # "Leader" /\ node[s].term < MaxTerm
    /\ \A m \in msgs : m.type \in {"due", "asking"} => m.from # s
    /\ msgs' = msgs \cup {[type |-> "due", from |-> s]}
    /\ UNCHANGED <<node, conn, used>>

\* it becomes a candidate, whatever it has become meanwhile,
BecomeCandidate(m) ==
    LET s == m.from
    IN  /\ m.type = "due" /\ Free(s) /\ node[s].term < MaxTerm
        /\ node' = [node EXCEPT ![s] = become_candidate(@)]
        /\ msgs' = (msgs \ {m}) \cup {[type |-> "asking", from |-> s, term |-> node'[s].term]}
        /\ UNCHANGED <<conn, used>>

\* and asks for votes in the term it then finds, which need not be the one (m.term)
\* in which it voted for itself.
SendRequests(m) ==
    LET s == m.from
        moved == node[s].role = "Candidate" /\ node[s].term # m.term
    IN  /\ m.type = "asking" /\ Free(s)
        /\ node' = [node EXCEPT ![s].strayed = @ \/ moved]
        /\ msgs' = (msgs \ {m}) \cup send_request_vote(s, node[s])
        /\ UNCHANGED <<conn, used>>

\* Mutants: any log is fresh enough; a server votes as often as it is asked.
log_is_ok_always(n, m) == TRUE
can_vote_again(n) == TRUE

log_is_ok(n, m) == \/ m.last > LastTerm(n.log)
                   \/ m.last = LastTerm(n.log) /\ m.index >= Len(n.log)
can_vote(n) == ~n.voted

handle_request_vote(m) ==
    LET s == m.to
        n == IF m.term > node[s].term
             THEN [node[s] EXCEPT !.term = m.term, !.voted = FALSE, !.role = "Follower"]
             ELSE node[s]
        granted == m.term >= n.term /\ can_vote(n) /\ log_is_ok(n, m)
    IN  /\ m.type = "request" /\ Free(s)
        /\ node' = [node EXCEPT ![s] = IF granted THEN [n EXCEPT !.voted = TRUE] ELSE n]
        /\ msgs' = (msgs \ {m}) \cup {[type |-> "vote", from |-> s, to |-> m.from,
                                       term |-> n.term, granted |-> granted]}
        /\ UNCHANGED <<conn, used>>

\* Winning keeps the nodes that become_leader clears; a thread then announces it.
handle_request_vote_response(m) ==
    LET s == m.to
        n == node[s]
        votes == n.votes + 1
        wins == votes >= (Cardinality(n.nodes) + 1) \div 2 + 1
        w == [World EXCEPT !.msgs = @ \ {m}]
        elected == [n EXCEPT !.votes = votes, !.won = @ \cup {[term |-> n.term, votes |-> votes]}]
        lead == become_leader([w EXCEPT !.node[s] = elected], s)
    IN  /\ m.type = "vote" /\ Free(s)
        /\ Becomes(CASE m.term > n.term ->
                          [w EXCEPT !.node[s] = [@ EXCEPT !.term = m.term, !.voted = FALSE,
                                                          !.role = "Follower"]]
                     [] m.term = n.term /\ n.role = "Candidate" /\ m.granted /\ wins ->
                          [lead EXCEPT !.node[s].nodes = n.nodes,
                              !.msgs = @ \cup {[type |-> "elected", from |-> s, term |-> n.term]}]
                     [] m.term = n.term /\ n.role = "Candidate" /\ m.granted /\ ~wins ->
                          [w EXCEPT !.node[s].votes = votes]
                     [] OTHER -> w)
        /\ UNCHANGED used

broadcast_new_master_impl(s) ==
    {[type |-> "new_master", from |-> s, to |-> d, term |-> node[s].term] : d \in node[s].nodes}

\* The announcement is dropped if the term has moved on or the role is lost.
broadcast_new_master_with_check(m) ==
    LET n == node[m.from]
        told == IF n.term = m.term /\ n.role = "Leader"
                THEN broadcast_new_master_impl(m.from) ELSE {}
    IN  /\ m.type = "elected" /\ Free(m.from)
        /\ msgs' = (msgs \ {m}) \cup told
        /\ UNCHANGED <<node, conn, used>>

\* handle_new_master compares term and role without mutex_,
CheckNewMaster(m) ==
    LET n == node[m.to]
        ignored == m.term < n.term \/ (n.role = "Leader" /\ m.term = n.term)
        heard == [type |-> "heard", from |-> m.from, to |-> m.to, term |-> m.term,
                  higher |-> m.term > n.term]
    IN  /\ m.type = "new_master" /\ Up(m.to)
        /\ msgs' = (msgs \ {m}) \cup IF ignored THEN {} ELSE {heard}
        /\ UNCHANGED <<node, conn, used>>

\* and then acts on what it compared: a term that a vote has raised meanwhile goes
\* back, and the vote is forgotten.
handle_new_master(m) ==
    LET s == m.to
        n == node[s]
        known == [n EXCEPT !.leader = m.from,
                           !.term = IF m.higher THEN m.term ELSE @,
                           !.voted = IF m.higher THEN FALSE ELSE @,
                           !.strayed = @ \/ (m.higher /\ m.term <= n.term)]
    IN  /\ m.type = "heard" /\ Free(s)
        /\ Becomes(become_follower([World EXCEPT !.node[s] = known, !.msgs = @ \ {m}], s, m.from,
                                   m.term, n.commit, FALSE))
        /\ UNCHANGED used

-----------------------------------------------------------------------------
(* Replication *)

\* Entries the log has, by index and term, are skipped; the others go to its end.
\* Mutant: entries the log already has are appended again.
StoreAgain(log, m) == log \o m.entries

Store(log, m) == log \o SubSeq(m.entries, Len(log) - m.prev + 1, Len(m.entries))
Conflicts(log, m) ==
    \E i \in DOMAIN m.entries :
        m.prev + i \in DOMAIN log /\ log[m.prev + i].term # m.entries[i].term

\* Mutant: the commit index of the leader is taken as it is.
CommitHeardUncapped(n, log, m) == Max({n.commit, m.commit})
CommitHeard(n, log, m) == Max({n.commit, Min({m.commit, Len(log)})})

\* A conflict calls truncate_from, which throws before anything is saved.
handle_append_entries(w, f, m) ==
    LET n == w.node[f]
        old == m.term < n.term
        matches == m.prev > 0 => m.prev \in DOMAIN n.log /\ n.log[m.prev].term = m.prev_term
        heard == [n EXCEPT !.role = "Follower", !.term = m.term]
        log == Store(n.log, m)
        stored == [heard EXCEPT !.log = log, !.commit = CommitHeard(n, log, m)]
        after == IF old THEN n ELSE IF matches THEN stored ELSE heard
        response == [term |-> after.term, success |-> ~old /\ matches, index |-> Len(after.log)]
    IN  IF ~old /\ matches /\ Conflicts(n.log, m) THEN Die(w, f)
        ELSE [w EXCEPT !.node[f] = after, !.conn[f].up = Append(@, response)]

handle_new_node_join(w, f, m) ==
    IF m.addr = f THEN w ELSE [w EXCEPT !.node[f].nodes = @ \cup {m.addr}]

handle_leave_node(w, f, m) ==
    IF m.addr = f THEN become_leader(w, f) ELSE [w EXCEPT !.node[f].nodes = @ \ {m.addr}]

\* follower_client_loop: the next message from the leader.
handle_leader_message(f) ==
    LET m == Head(conn[f].down)
        w == [World EXCEPT !.conn[f].down = Tail(@)]
    IN  /\ Free(f) /\ node[f].role # "Leader"
        /\ conn[f].open /\ conn[f].down # <<>>
        /\ Becomes(CASE m.type = "append"   -> handle_append_entries(w, f, m)
                     [] m.type = "new_node" -> handle_new_node_join(w, f, m)
                     [] m.type = "leave"    -> handle_leave_node(w, f, m)
                     [] m.type = "query"    -> handle_query_leader_response(w, f, m.leader, TRUE))
        /\ UNCHANGED used

\* follower_client_loop: the connection was closed.
Reconnect(f) ==
    LET n == node[f]
    IN  /\ Free(f) /\ n.role # "Leader"
        /\ conn[f].to # Null /\ ~conn[f].open
        /\ Becomes(become_follower(World, f, n.leader, n.term, n.commit, TRUE))
        /\ UNCHANGED used

\* The task handle_append_entries gives to the thread pool.
Apply(s) ==
    /\ Free(s) /\ node[s].applied < node[s].commit
    /\ node' = [node EXCEPT ![s] = apply_committed_entries(@)]
    /\ UNCHANGED <<conn, msgs, used>>

\* Mutant: the leader trusts the index it sent from instead of the answer.
NewMatchSent(n, f, m) == Max({At(n.match, f), At(n.next, f)})
NewMatch(n, f, m) == Max({At(n.match, f), m.index})

\* Neither the role of the receiver nor the term of the answer is looked at.
handle_append_entries_response(l, f) ==
    LET m == Head(conn[f].up)
        w == [World EXCEPT !.conn[f].up = Tail(@)]
        n == node[l]
        match == NewMatch(n, f, m)
        moved == [n EXCEPT !.match = With(@, f, match), !.next = With(@, f, match + 1)]
        more == match < Len(n.log)
        back == [n EXCEPT !.next = With(@, f, Max({At(@, f), 1}) - 1)]
    IN  /\ Free(l) /\ conn[f].to = l /\ conn[f].open /\ conn[f].up # <<>>
        /\ \E next \in {IF m.success THEN moved ELSE back} :
              LET done == [w EXCEPT !.node[l] = IF m.success /\ Confirm
                                                THEN try_commit_entries(next) ELSE next]
              IN  Becomes(IF m.success /\ ~more THEN done ELSE send_append_entries(done, l, f))
        /\ UNCHANGED used

\* One follower of the loop of send_heartbeat_to_all: mutex_ is taken anew for each.
send_heartbeat_to_all(l, f) ==
    /\ node[l].nodes # {} /\ f \in node[l].peers /\ Connected(World, f, l)
    /\ Len(conn[f].down) + Len(conn[f].up) < MaxQueue
    /\ Becomes(send_append_entries(World, l, f))

\* heartbeat_loop.
Heartbeat(l, f) ==
    /\ Free(l) /\ node[l].role = "Leader"
    /\ send_heartbeat_to_all(l, f)
    /\ UNCHANGED used

Forget(n, f) ==
    [n EXCEPT !.peers = @ \ {f}, !.next = Without(@, f), !.match = Without(@, f)]

\* The leader's event loop finds the connection closed; the node stays a member.
close_socket(l, f) ==
    /\ Free(l) /\ f \in node[l].peers \cup DOMAIN node[l].match /\ ~Connected(World, f, l)
    /\ node' = [node EXCEPT ![l] = Forget(@, f)]
    /\ UNCHANGED <<conn, msgs, used>>

-----------------------------------------------------------------------------
(* Client writes: submit_command on one thread per server *)

\* The role is checked,
SubmitCheck(s) ==
    /\ Up(s) /\ s \in Writers /\ node[s].role = "Leader" /\ node[s].writing = "no"
    /\ Left("writes", MaxWrites)
    /\ node' = [node EXCEPT ![s].writing = "checked"]
    /\ UNCHANGED <<conn, msgs, used>>

\* then the term is read and the entry appended, without mutex_,
SubmitAppend(s) ==
    /\ Up(s) /\ node[s].writing = "checked" /\ Left("writes", MaxWrites)
    /\ node' = [node EXCEPT ![s].writing = "appended",
            ![s].log = Append(@, [term |-> node[s].term, id |-> used.writes + 1])]
    /\ Use("writes")
    /\ UNCHANGED <<conn, msgs>>

\* then leader_ is forgotten and the entry sent and counted, or committed at once.
SubmitCommit(s) ==
    LET w == [World EXCEPT !.node[s].writing = "no", !.node[s].leader = Null]
        sent == send_append_to(w, s, node[s].peers)
    IN  /\ Free(s) /\ node[s].writing = "appended"
        /\ Becomes(IF Confirm THEN [sent EXCEPT !.node[s] = try_commit_entries(@)]
                   ELSE [w EXCEPT !.node[s] = commit_entries(@)])
        /\ UNCHANGED used

-----------------------------------------------------------------------------
(* Commands *)

\* SET_MASTER: the same leader is rejoined; for another the data is cleared, and
\* with it the term, but not voted_for_.
SetMaster(s, t) ==
    LET n == node[s]
        cleared == [n EXCEPT !.log = <<>>, !.exec = <<>>, !.applied = 0, !.commit = 0, !.term = 0,
                             !.strayed = @ \/ n.term > 0]
    IN  /\ Free(s) /\ n.role = "Leader" /\ s \in Joiners \ {t}
        /\ Left("commands", MaxCommands)
        /\ n.leader # t \/ conn[s].to = Null
        /\ Becomes(IF n.leader = t THEN become_follower(World, s, t, n.term, n.commit, FALSE)
                   ELSE become_follower([World EXCEPT !.node[s] = cleared], s, t, 0, 0, FALSE))
        /\ Use("commands")

remove_node(l, f) ==
    LET told == broadcast_to_followers(World, l, [type |-> "leave", addr |-> f])
        left == [Forget(node[l], f) EXCEPT !.nodes = @ \ {f}]
    IN  /\ Up(l) /\ node[l].role = "Leader" /\ f \in node[l].nodes
        /\ Left("commands", MaxCommands)
        /\ Becomes([told EXCEPT !.node[l] = left])
        /\ Use("commands")

-----------------------------------------------------------------------------
(* Faults *)

\* A connection breaks.
Drop(f) ==
    /\ conn[f].open /\ Left("drops", MaxDrops)
    /\ conn' = [conn EXCEPT ![f] = [NoConn EXCEPT !.to = conn[f].to]]
    /\ Use("drops")
    /\ UNCHANGED <<node, msgs>>

Crash(s) ==
    /\ node[s].life # "down" /\ Left("restarts", MaxRestarts)
    /\ Becomes(Die(World, s))
    /\ Use("restarts")

\* The answer of u: itself or the leader it knows.
handle_query_leader(u) == IF node[u].role = "Leader" THEN u ELSE node[u].leader

init_as_follower(w, s, l) ==
    become_follower([w EXCEPT !.node[s].leader = l], s, l, node[s].term, node[s].commit, FALSE)

\* The first known node that answers is asked; a node that learns of no other
\* leader leads.
init_with_cluster_discovery(w, s) ==
    LET asked == {u \in node[s].nodes : Up(u)}
    IN  \/ asked = {} /\ Becomes(Return(w, s))
        \/ \E u \in asked : LET l == handle_query_leader(u)
                            IN  Becomes(IF l \in {Null, s} THEN Return(w, s)
                                        ELSE init_as_follower(w, s, l))

\* The constructor, with the term, vote, members, leader and indexes that
\* save_persistent_state left and load_persistent_state finds.
Restart(s) ==
    LET w == [World EXCEPT !.node[s].life = "boot"]
        l == node[s].leader
    IN  /\ node[s].life = "down"
        /\ \/ l # Null /\ Becomes(init_as_follower(w, s, l))
           \/ l = Null /\ init_with_cluster_discovery(w, s)
        /\ UNCHANGED used

Next ==
    \/ \E s \in Server :
          \/ Refused(s) \/ Redirected(s) \/ Ask(s) \/ NoAnswer(s)
          \/ Timeout(s) \/ handle_leader_message(s) \/ Reconnect(s) \/ Apply(s)
          \/ SubmitCheck(s) \/ SubmitAppend(s) \/ SubmitCommit(s)
          \/ Drop(s) \/ Crash(s) \/ Restart(s)
    \/ \E m \in msgs : \/ handle_request_vote(m) \/ handle_request_vote_response(m)
                       \/ broadcast_new_master_with_check(m) \/ CheckNewMaster(m)
                       \/ handle_new_master(m) \/ Accepted(m) \/ AcceptedLate(m)
                       \/ BecomeCandidate(m) \/ SendRequests(m)
    \/ \E l, f \in Server : \/ handle_append_entries_response(l, f) \/ Heartbeat(l, f)
                            \/ close_socket(l, f) \/ SetMaster(l, f) \/ remove_node(l, f)

Spec == Init /\ [][Next]_vars

\* The heartbeat thread of the Master and the loops of its followers keep running:
\* each waits with a timeout.  Elections, joins, commands and faults need not happen.
Fairness ==
    \A f \in Server \ {Master} :
        /\ WF_vars(Heartbeat(Master, f)) /\ WF_vars(handle_leader_message(f))
        /\ WF_vars(handle_append_entries_response(Master, f)) /\ WF_vars(Apply(f))
FairSpec == Spec /\ Fairness

-----------------------------------------------------------------------------
(* Properties *)

Terms == 0..MaxTerm
Entry == [term : Terms, id : 1..MaxWrites]

\* The fields hold what the members of RaftNode may hold, whatever the faults.
TypeOK ==
    /\ \A s \in Server : LET n == node[s] IN
        /\ n.life \in {"up", "boot", "down"} /\ n.role \in {"Leader", "Follower", "Candidate"}
        /\ n.term \in Terms /\ n.voted \in BOOLEAN /\ n.votes \in Nat
        /\ n.nodes \subseteq Server \ {s} /\ n.peers \subseteq Server \ {s}
        /\ n.leader \in (Server \ {s}) \cup {Null}
        /\ n.log \in Seq(Entry) /\ n.exec \in Seq(1..MaxWrites)
        /\ n.commit \in 0..MaxWrites /\ n.applied \in 0..MaxWrites
        /\ DOMAIN n.next \subseteq Server /\ DOMAIN n.match \subseteq Server
    /\ \A s \in Server : conn[s].to \in (Server \ {s}) \cup {Null}

Majority(ss) == 2 * Cardinality(ss) > Cardinality(Server)
Comparable(q, r) == IsPrefix(q, r) \/ IsPrefix(r, q)

\* The terms in which more than half of the servers elected s.
ElectedIn(s) == {e.term : e \in {x \in node[s].won : 2 * x.votes > Cardinality(Server)}}

\* A term elects one leader, and no server counts more votes than there are servers:
\* voted_for_ (raft.h) records the vote of this term, and handle_request_vote refuses
\* a second one.
ElectionSafety ==
    /\ \A s, t \in Server : s # t => ElectedIn(s) \cap ElectedIn(t) = {}
    /\ \A s \in Server : node[s].votes <= Cardinality(Server)

\* Where that fails, some server's votes had strayed before.  A join or SET_MASTER took
\* its term back: handle_join_cluster_response takes the leader's term as it is.  Or
\* handle_new_master did, or cleared the vote of that term, by what it had read before
\* it locked mutex_.  Or a candidate, which keeps role and votes when handle_new_master
\* raises its term and the join then fails, asked for more votes in that term.  No other
\* order of votes, announcements, joins and breaking connections elects two.
TwoLeadersNeedStrayedVotes == ElectionSafety \/ \E s \in Server : node[s].strayed

\* As long as no votes have strayed, the winner of an election has every entry that a
\* majority of the servers holds: the log check of handle_request_vote together with
\* the term check of handle_append_entries, which refuses the old leader afterwards.
WinnerHasMajorityEntries ==
    [][\A s \in Server :
        node'[s].won # node[s].won /\ (\A t \in Server : ~node[t].strayed) =>
            \A e \in UNION {Range(node[t].log) : t \in Server} :
                Majority({t \in Server : e \in Range(node[t].log)}) => e \in Range(node[s].log)]_vars

\* As long as clients write to one leader, the logs of any two servers agree on the
\* indexes both have: through joins, redirections, removals, crashes and entries sent
\* twice, which handle_append_entries neither loses nor appends again.
LogsAgree == \A s, t \in Server : Comparable(node[s].log, node[t].log)

\* So do the writes they executed, each of them once, also when a redirected join set
\* the commit index back to 0.
ReplicasAgree ==
    LogsAgree /\ \A s, t \in Server : Comparable(node[s].exec, node[t].exec)

\* last_applied_ names an entry the server has: the commit index a follower hears of is
\* capped by its own log, and no join or restart takes log or commit index alone back.
\* In try_commit_entries only the test of the term stands against an index that the
\* followers have and the leader does not: get_term is 0 there, so a leader of term 0
\* whose followers have more than itself passes its own log.
AppliedWithinLog == \A s \in Server : node[s].applied <= Len(node[s].log)

\* match_index_ never says that a connected follower has more than it has, although
\* an answer carries the follower's own last index and a follower may come back with
\* its data cleared.
MatchIndexHeld ==
    \A l, f \in Server :
        f \in node[l].peers /\ Connected(World, f, l) =>
            At(node[l].match, f) <= Len(node[f].log)

\* When try_commit_entries advances the commit index, more than half of the servers
\* it counted (itself and the keys of match_index_) hold the entries.
CommitHeldByMajority ==
    [][\A l \in Server :
        LET n == node'[l]
            counted == {l} \cup DOMAIN n.match
        IN  Confirm /\ n.role = "Leader" /\ n.life = "up" /\ n.commit > node[l].commit =>
              2 * Cardinality({s \in counted : Len(node'[s].log) >= n.commit})
                > Cardinality(counted)]_vars

\* A follower that stays connected to the leader ends with the writes the leader
\* executed: a lagging next_index_, a lost connection or a restart is made good.
Following(f) ==
    Connected(World, f, Master) /\ f \in node[Master].peers /\ node[Master].role = "Leader"
FollowerCatchesUp ==
    \A f \in Server \ {Master} :
        <>[]Following(f) => <>[](node[f].exec = node[Master].exec)

=============================================================================
