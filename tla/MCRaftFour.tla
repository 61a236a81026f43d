----------------------------- MODULE MCRaftFour -----------------------------
(* Raft on four servers: a server that leads a term 0 it was not elected in,  *)
(* with a log shorter than those of the servers that join it.  Course leaves  *)
(* out what does not lead there, so that TLC gets to it within a minute.      *)
EXTENDS Raft
CONSTANTS a, b, c, d

IsHeartbeat(m) == m.type = "append" /\ m.entries = <<>>
Waiting(f) == \E i \in DOMAIN conn[f].down : IsHeartbeat(conn[f].down[i])

\* c misses the second write, restarts while its leader is down and leads a, b and d,
\* which joined it in this order; d loses its connection.
Leading ==
    /\ used.restarts <= 2 /\ used.writes <= 2
    /\ node[c].commit = 0 /\ Len(node[c].log) <= 1
    /\ used.drops > 0 => conn[d].to = c /\ conn[b].to = c
    /\ conn[b].to = c => conn[a].to = c
    /\ node[a].life = "down" => Len(node[b].log) = 2
    /\ node[c].life = "down" => ~Up(a) /\ Len(node[c].log) = 1
    /\ ~Waiting(b) /\ ~Waiting(c) /\ ~Waiting(d)

\* c has applied an entry it does not have.  It restarts after a and follows it.
Following_a ==
    /\ node[c].applied > 1
    /\ node[a].life # "up" => ~Up(c)
    /\ node[c].life = "boot" => Up(a)
    /\ ~node[b].joining /\ ~node[d].joining
    /\ ~Waiting(b) /\ ~Waiting(d)

Course == Up(b) /\ Up(d) /\ (Leading \/ Following_a)
=============================================================================
