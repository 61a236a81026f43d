----------------------------- MODULE RaftProofs -----------------------------
(***************************************************************************)
(* Proofs about Raft, for any number of servers and any of its bounds.     *)
(*                                                                         *)
(* The handlers of Raft take a world to a world.  So do the lemmas: a      *)
(* world that is Fine stays so under every operator of the model, and the  *)
(* proofs of the steps follow the way the handlers compose them.  Fine     *)
(* has four parts: the types (Ok), what connections say of logs (Held),    *)
(* that nobody's vote was undone since the step began (Keeps), and where   *)
(* entries and executed writes come from (Echo).                           *)
(***************************************************************************)
EXTENDS Raft, OrderLemmas, SequenceTheorems, FiniteSetTheorems

-----------------------------------------------------------------------------
(* Types.  No log is longer than W, the number of writes so far.               *)

Idx == 0..MaxWrites
Tables(S) == UNION {[D -> S] : D \in SUBSET Server}
Others(s) == Server \ {s}

Stages(s) == IF s \in Writers THEN {"no", "checked", "appended"} ELSE {"no"}

JoinType(s) == [to : Others(s) \cup {Null}, term : Terms, commit : Idx, loop : BOOLEAN]

NodeType(s, W) ==
    [life : {"up", "boot", "down"}, role : {"Leader", "Follower", "Candidate"},
     term : Terms, voted : BOOLEAN, votes : Nat, nodes : SUBSET Others(s),
     leader : Others(s) \cup {Null}, log : {q \in Seq(Entry) : Len(q) <= W},
     commit : Idx, applied : Idx, peers : SUBSET Others(s),
     next : Tables(0..(MaxWrites + 1)), match : Tables(Idx),
     writing : Stages(s), join : JoinType(s), joining : BOOLEAN,
     exec : Seq(1..MaxWrites), won : SUBSET [term : Terms, votes : Nat],
     strayed : BOOLEAN]

AppendType(W) ==
    {m \in [type : {"append"}, term : Terms, prev : Idx, prev_term : Terms,
            entries : Seq(Entry), commit : Idx] :
        m.entries # <<>> => m.prev + Len(m.entries) <= W}
DownType(W) ==
    AppendType(W) \cup [type : {"new_node", "leave"}, addr : Server]
                  \cup [type : {"query"}, leader : Server \cup {Null}]
UpType == [term : Terms, success : BOOLEAN, index : Idx]

ConnType(s, W) ==
    [to : Others(s) \cup {Null}, open : BOOLEAN, down : Seq(DownType(W)), up : Seq(UpType)]

Request == [type : {"request"}, from : Server, to : Server, term : Terms,
            index : Idx, last : Terms]
Vote == [type : {"vote"}, from : Server, to : Server, term : Terms, granted : BOOLEAN]
Notice == [type : {"elected"}, from : Server, term : Terms]
NewMaster == [type : {"new_master"}, from : Server, to : Server, term : Terms]
Heard == [type : {"heard"}, from : Server, to : Server, term : Terms, higher : BOOLEAN]
Asking == [type : {"join"}, from : Server, to : Server, term : Terms, index : Idx, live : BOOLEAN]
Run == [type : {"due"}, from : Server] \cup [type : {"asking"}, from : Server, term : Terms]
Msg == {m \in Request \cup Vote \cup NewMaster \cup Heard \cup Asking : m.from # m.to}
       \cup Notice \cup Run

Wd(nf, cf, ms) == [node |-> nf, conn |-> cf, msgs |-> ms]

Ok(w, W) ==
    /\ w = Wd(w.node, w.conn, w.msgs)
    /\ w.node = [s \in Server |-> w.node[s]] /\ w.conn = [s \in Server |-> w.conn[s]]
    /\ \A s \in Server : w.node[s] \in NodeType(s, W) /\ w.conn[s] \in ConnType(s, W)
    /\ w.msgs \subseteq Msg

-----------------------------------------------------------------------------
(* What the messages on a connection and match_index_ say of the log at its end,   *)
(* for the servers G.                                                              *)

Sound(w, f) ==
    w.conn[f].open =>
        /\ w.node[f].role # "Leader"
        /\ \A i \in DOMAIN w.conn[f].up : w.conn[f].up[i].index <= Len(w.node[f].log)
        /\ \A l \in Server : w.conn[f].to = l /\ f \in w.node[l].peers =>
              At(w.node[l].match, f) <= Len(w.node[f].log)

Held(w, G) == \A f \in G : Sound(w, f)

-----------------------------------------------------------------------------
(* What votes rest on: no election forgotten, no term taken back unnoticed, no     *)
(* vote withdrawn in a term, no candidate and no request or vote that is new.      *)

Later(n, m) ==
    /\ m.won = n.won /\ (n.strayed => m.strayed) /\ m.votes <= n.votes
    /\ m.role = "Candidate" => n.role = "Candidate"
    /\ \/ m.strayed \/ n.term < m.term
       \/ m.term = n.term /\ (n.voted => m.voted)

IsBallot(m) == m.type \in {"request", "asking"} \/ (m.type = "vote" /\ m.granted)

Keeps(v, w) ==
    /\ \A s \in Server : Later(v.node[s], w.node[s])
                       /\ v.node[s].term \in Nat /\ v.node[s].votes \in Nat
    /\ \A m \in w.msgs : IsBallot(m) => m \in v.msgs

-----------------------------------------------------------------------------
(* Logs.  As long as one server writes, every log, and what every message sends, is  *)
(* taken from one log L, and no step but a write needs a longer one.                 *)

Copy(q, L) == Len(q) <= Len(L) /\ \A i \in 1..Len(q) : q[i] = L[i]
Excerpt(m, L) ==
    m.type = "append" => \A k \in DOMAIN m.entries :
                             m.prev + k <= Len(L) /\ m.entries[k] = L[m.prev + k]
Copied(w, L) ==
    /\ \A s \in Server : Copy(w.node[s].log, L)
    /\ \A f \in Server : \A i \in DOMAIN w.conn[f].down : Excerpt(w.conn[f].down[i], L)

(* What ran is the beginning of the log; unless something was applied that is not   *)
(* in the log.                                                                      *)
Runs(n) ==
    /\ n.applied = Len(n.exec) /\ n.applied <= Len(n.log)
    /\ \A i \in 1..Len(n.exec) : n.exec[i] = n.log[i].id
Over(n) == n.applied > Len(n.log)
Tidy(n) == Runs(n) \/ Over(n)

Echo(v, w) ==
    /\ \A L \in Seq(Entry) : Copied(v, L) => Copied(w, L)
    /\ \A s \in Server : Runs(v.node[s]) => Tidy(w.node[s])
    /\ \A s \in Server \ Joiners : Len(v.node[s].log) <= Len(w.node[s].log)

(* A message, a connection and a server that can take part in that. *)
Cites(v, m) == \A L \in Seq(Entry) : Copied(v, L) => Excerpt(m, L)
Quotes(v, c) == \A i \in DOMAIN c.down : Cites(v, c.down[i])
Apt(v, s, n) ==
    /\ \A L \in Seq(Entry) : Copied(v, L) => Copy(n.log, L)
    /\ Runs(v.node[s]) => Tidy(n)
    /\ s \notin Joiners => Len(v.node[s].log) <= Len(n.log)

-----------------------------------------------------------------------------
(* All of it. *)

Fine(v, w, W, G) == Ok(w, W) /\ Held(w, G) /\ Keeps(v, w) /\ Echo(v, w) /\ G \subseteq Server

(* A change of a server that types, connections and votes do not mind, *)
Gentle(n, m) ==
    /\ Later(n, m) /\ Len(n.log) <= Len(m.log)
    /\ \A f \in m.peers : \/ At(m.match, f) = 0
                          \/ f \in n.peers /\ At(m.match, f) <= At(n.match, f)

(* nor the logs. *)
Mild(n, m) == Gentle(n, m) /\ m.log = n.log /\ (Tidy(n) => Tidy(m))

-----------------------------------------------------------------------------
(* Changing one server or one connection. *)

SetNode(w, s, n) == [w EXCEPT !.node[s] = n]
SetConn(w, s, c) == [w EXCEPT !.conn[s] = c]
SetMsgs(w, ms) == [w EXCEPT !.msgs = ms]

NodeSet(w, u, s, n) ==
    /\ u.node = [w.node EXCEPT ![s] = n] /\ u.conn = w.conn /\ u.msgs = w.msgs
    /\ u.node[s] = n /\ \A x \in Server \ {s} : u.node[x] = w.node[x]
ConnSet(w, u, s, c) ==
    /\ u.conn = [w.conn EXCEPT ![s] = c] /\ u.node = w.node /\ u.msgs = w.msgs
    /\ u.conn[s] = c /\ \A x \in Server \ {s} : u.conn[x] = w.conn[x]

LEMMA PutNodeIs ==
    ASSUME NEW W, NEW w, Ok(w, W), NEW s \in Server, NEW n
    PROVE  [w EXCEPT !.node[s] = n] = Wd([w.node EXCEPT ![s] = n], w.conn, w.msgs)
<1>1. [w EXCEPT !.node[s] = n] = [w EXCEPT !.node = [w.node EXCEPT ![s] = n]]  OBVIOUS
<1>2. PICK nf, cf, ms : nf = w.node /\ cf = w.conn /\ ms = w.msgs  OBVIOUS
<1>3. w = Wd(nf, cf, ms)  BY <1>2 DEF Ok
<1>4. [Wd(nf, cf, ms) EXCEPT !.node = [nf EXCEPT ![s] = n]] = Wd([nf EXCEPT ![s] = n], cf, ms)
  BY DEF Wd
<1> QED  BY <1>1, <1>2, <1>3, <1>4

LEMMA PutConnIs ==
    ASSUME NEW W, NEW w, Ok(w, W), NEW s \in Server, NEW c
    PROVE  [w EXCEPT !.conn[s] = c] = Wd(w.node, [w.conn EXCEPT ![s] = c], w.msgs)
<1>1. [w EXCEPT !.conn[s] = c] = [w EXCEPT !.conn = [w.conn EXCEPT ![s] = c]]  OBVIOUS
<1>2. PICK nf, cf, ms : nf = w.node /\ cf = w.conn /\ ms = w.msgs  OBVIOUS
<1>3. w = Wd(nf, cf, ms)  BY <1>2 DEF Ok
<1>4. [Wd(nf, cf, ms) EXCEPT !.conn = [cf EXCEPT ![s] = c]] = Wd(nf, [cf EXCEPT ![s] = c], ms)
  BY DEF Wd
<1> QED  BY <1>1, <1>2, <1>3, <1>4

LEMMA WdParts ==
    ASSUME NEW nf, NEW cf, NEW ms
    PROVE  Wd(nf, cf, ms).node = nf /\ Wd(nf, cf, ms).conn = cf /\ Wd(nf, cf, ms).msgs = ms
BY DEF Wd

LEMMA SafeNode ==
    ASSUME NEW W, NEW G \in SUBSET Server, NEW w, Ok(w, W), Held(w, G), NEW s \in Server,
           NEW n \in NodeType(s, W),
           w.conn[s].open => /\ n.role = "Leader" => w.node[s].role = "Leader"
                             /\ Len(w.node[s].log) <= Len(n.log),
           \A f \in n.peers \cap G : w.conn[f].to = s /\ w.conn[f].open =>
               At(n.match, f) <= Len(w.node[f].log)
    PROVE  /\ Ok(SetNode(w, s, n), W) /\ Held(SetNode(w, s, n), G)
           /\ NodeSet(w, SetNode(w, s, n), s, n)
<1> DEFINE u == SetNode(w, s, n)
<1>1. PICK nf, cf, ms : nf = w.node /\ cf = w.conn /\ ms = w.msgs  OBVIOUS
<1>2. u = Wd([nf EXCEPT ![s] = n], cf, ms)  BY <1>1, PutNodeIs DEF SetNode
<1> HIDE DEF u
<1>3. u.node = [nf EXCEPT ![s] = n] /\ u.conn = cf /\ u.msgs = ms  BY <1>2, WdParts
<1>4. /\ nf = [x \in Server |-> nf[x]] /\ cf = [x \in Server |-> cf[x]] /\ ms \subseteq Msg
      /\ \A x \in Server : nf[x] \in NodeType(x, W) /\ cf[x] \in ConnType(x, W)
  BY <1>1 DEF Ok
<1>5. u.node[s] = n /\ \A x \in Server : x # s => u.node[x] = nf[x]  BY <1>3, <1>4
<1>6. Ok(u, W)
  <2>1. u = Wd(u.node, u.conn, u.msgs)  BY <1>2, <1>3
  <2>2. u.node = [x \in Server |-> u.node[x]]  BY <1>3, <1>4
  <2>3. \A x \in Server : u.node[x] \in NodeType(x, W) /\ u.conn[x] \in ConnType(x, W)
    BY <1>3, <1>4, <1>5
  <2> QED  BY <2>1, <2>2, <2>3, <1>3, <1>4 DEF Ok
<1>8. Held(u, G)
  <2> SUFFICES ASSUME NEW f \in G, cf[f].open
               PROVE  /\ u.node[f].role # "Leader"
                      /\ \A i \in DOMAIN cf[f].up : cf[f].up[i].index <= Len(u.node[f].log)
                      /\ \A l \in Server : cf[f].to = l /\ f \in u.node[l].peers =>
                            At(u.node[l].match, f) <= Len(u.node[f].log)
    BY <1>3 DEF Held, Sound
  <2>0. /\ nf[f].role # "Leader"
        /\ \A i \in DOMAIN cf[f].up : cf[f].up[i].index <= Len(nf[f].log)
        /\ \A l \in Server : cf[f].to = l /\ f \in nf[l].peers =>
              At(nf[l].match, f) <= Len(nf[f].log)
    BY <1>1 DEF Held, Sound
  <2>1. f \in Server  OBVIOUS
  <2>2. Len(nf[f].log) \in Nat /\ Len(u.node[f].log) \in Nat /\ Len(nf[f].log) <= Len(u.node[f].log)
    <3>1. Len(nf[f].log) \in Nat  BY <2>1, <1>4 DEF NodeType
    <3>2. Len(n.log) \in Nat  BY DEF NodeType
    <3> QED  BY <3>1, <3>2, <1>1, <1>5, <2>1
  <2>3. u.node[f].role # "Leader"  BY <1>1, <1>5, <2>0, <2>1
  <2>4. ASSUME NEW i \in DOMAIN cf[f].up PROVE cf[f].up[i].index <= Len(u.node[f].log)
    <3>1. cf[f].up \in Seq(UpType)  BY <1>4, <2>1 DEF ConnType
    <3>2. cf[f].up[i] \in UpType  BY <3>1
    <3>3. cf[f].up[i].index \in Nat  BY <3>2 DEF UpType, Idx
    <3> QED  BY <3>3, <2>0, <2>2
  <2>5. ASSUME NEW l \in Server, cf[f].to = l, f \in u.node[l].peers
        PROVE  At(u.node[l].match, f) <= Len(u.node[f].log)
    <3>1. CASE l = s
      <4>1. f # s
        <5>1. n.peers \subseteq Others(s)  BY DEF NodeType
        <5> QED  BY <5>1, <3>1, <2>5, <1>5 DEF Others
      <4>2. u.node[f] = nf[f] /\ u.node[l] = n  BY <4>1, <3>1, <1>5, <2>1
      <4> QED  BY <4>2, <3>1, <2>5, <1>1
    <3>2. CASE l # s
      <4>1. u.node[l] = nf[l]  BY <3>2, <1>5
      <4>2. nf[l].match \in Tables(Idx)  BY <1>4 DEF NodeType
      <4>3. At(nf[l].match, f) \in Int  BY <4>2 DEF Tables, At, Idx
      <4> QED  BY <4>1, <4>3, <2>0, <2>2, <2>5
    <3> QED  BY <3>1, <3>2
  <2> QED  BY <2>3, <2>4, <2>5
<1> QED  BY <1>1, <1>3, <1>4, <1>5, <1>6, <1>8 DEF u, NodeSet

LEMMA PutAnyNode ==
    ASSUME NEW W, NEW G, NEW v, NEW w, Fine(v, w, W, G), NEW s \in Server,
           NEW n \in NodeType(s, W), Later(w.node[s], n), Apt(v, s, n),
           w.conn[s].open => /\ n.role = "Leader" => w.node[s].role = "Leader"
                             /\ Len(w.node[s].log) <= Len(n.log),
           \A f \in n.peers \cap G : w.conn[f].to = s /\ w.conn[f].open =>
               At(n.match, f) <= Len(w.node[f].log)
    PROVE  Fine(v, SetNode(w, s, n), W, G) /\ NodeSet(w, SetNode(w, s, n), s, n)
<1> DEFINE u == SetNode(w, s, n)
<1>1. Ok(w, W) /\ Held(w, G) /\ Keeps(v, w) /\ G \in SUBSET Server  BY DEF Fine
<1>2. Ok(u, W) /\ Held(u, G) /\ NodeSet(w, u, s, n)  BY <1>1, SafeNode
<1> HIDE DEF u
<1>3. Keeps(v, u)
  <2>0. \A x \in Server : Later(v.node[x], w.node[x])  BY <1>1 DEF Keeps
  <2>1. Later(v.node[s], n)
    <3>1. Later(v.node[s], w.node[s]) /\ Later(w.node[s], n)  BY <2>0
    <3>2. v.node[s].term \in Nat /\ v.node[s].votes \in Nat  BY <1>1 DEF Keeps
    <3>3. w.node[s] \in NodeType(s, W)  BY <1>1 DEF Ok
    <3>4. w.node[s].term \in Nat /\ w.node[s].votes \in Nat  BY <3>3 DEF NodeType, Terms
    <3>5. n.term \in Nat /\ n.votes \in Nat  BY DEF NodeType, Terms
    <3> QED  BY <3>1, <3>2, <3>4, <3>5 DEF Later
  <2> QED  BY <2>0, <2>1, <1>1, <1>2 DEF Keeps, NodeSet
<1>4. Echo(v, u)
  <2>1. Echo(v, w)  BY DEF Fine
  <2>2. /\ u.conn = w.conn /\ u.node[s] = n
        /\ \A x \in Server \ {s} : u.node[x] = w.node[x]
    BY <1>2 DEF NodeSet
  <2>3. ASSUME NEW L \in Seq(Entry), Copied(v, L) PROVE Copied(u, L)
    <3>1. Copied(w, L) /\ Copy(n.log, L)  BY <2>1, <2>3 DEF Echo, Apt
    <3> QED  BY <2>2, <3>1 DEF Copied
  <2>4. ASSUME NEW x \in Server, Runs(v.node[x]) PROVE Tidy(u.node[x])
    BY <2>1, <2>2, <2>4 DEF Echo, Apt
  <2>5. ASSUME NEW x \in Server \ Joiners PROVE Len(v.node[x].log) <= Len(u.node[x].log)
    BY <2>1, <2>2 DEF Echo, Apt
  <2> QED  BY <2>3, <2>4, <2>5 DEF Echo
<1> QED  BY <1>1, <1>2, <1>3, <1>4 DEF Fine, u

LEMMA PutGentle ==
    ASSUME NEW W, NEW G, NEW v, NEW w, Fine(v, w, W, G), NEW s \in Server,
           NEW n \in NodeType(s, W), Gentle(w.node[s], n), Apt(v, s, n),
           w.conn[s].open => (n.role = "Leader" => w.node[s].role = "Leader")
    PROVE  Fine(v, SetNode(w, s, n), W, G) /\ NodeSet(w, SetNode(w, s, n), s, n)
<1>1. ASSUME NEW f \in n.peers \cap G, w.conn[f].to = s, w.conn[f].open
      PROVE  At(n.match, f) <= Len(w.node[f].log)
  <2>1. f \in Server  BY DEF Fine
  <2>2. w.node[f] \in NodeType(f, W) /\ w.node[s] \in NodeType(s, W)  BY <2>1 DEF Fine, Ok
  <2>3. Len(w.node[f].log) \in Nat  BY <2>2 DEF NodeType
  <2>4. CASE At(n.match, f) = 0  BY <2>3, <2>4
  <2>5. CASE f \in w.node[s].peers /\ At(n.match, f) <= At(w.node[s].match, f)
    <3>1. At(w.node[s].match, f) <= Len(w.node[f].log)  BY <2>5, <1>1 DEF Fine, Held, Sound
    <3>2. w.node[s].match \in Tables(Idx) /\ n.match \in Tables(Idx)  BY <2>2 DEF NodeType
    <3>3. At(w.node[s].match, f) \in Int /\ At(n.match, f) \in Int
      BY <3>2 DEF Tables, At, Idx
    <3> QED  BY <3>1, <3>3, <2>3, <2>5
  <2> QED  BY <2>4, <2>5 DEF Gentle
<1>2. Later(w.node[s], n) /\ Len(w.node[s].log) <= Len(n.log)  BY DEF Gentle
<1> QED  BY <1>1, <1>2, PutAnyNode

(* A server with the log, and what ran, of one that can take part. *)
LEMMA AptIs ==
    ASSUME NEW W, NEW G, NEW v, NEW w, Fine(v, w, W, G), NEW s \in Server, NEW n,
           n.log = w.node[s].log, Tidy(w.node[s]) => Tidy(n)
    PROVE  Apt(v, s, n)
<1>1. Echo(v, w)  BY DEF Fine
<1>2. ASSUME NEW L \in Seq(Entry), Copied(v, L) PROVE Copy(n.log, L)
  BY <1>1, <1>2 DEF Echo, Copied
<1>3. Runs(v.node[s]) => Tidy(n)  BY <1>1 DEF Echo
<1>4. s \notin Joiners => Len(v.node[s].log) <= Len(n.log)  BY <1>1 DEF Echo
<1> QED  BY <1>2, <1>3, <1>4 DEF Apt

LEMMA PutNode ==
    ASSUME NEW W, NEW G, NEW v, NEW w, Fine(v, w, W, G), NEW s \in Server,
           NEW n \in NodeType(s, W), Mild(w.node[s], n),
           w.conn[s].open => (n.role = "Leader" => w.node[s].role = "Leader")
    PROVE  Fine(v, SetNode(w, s, n), W, G) /\ NodeSet(w, SetNode(w, s, n), s, n)
<1>1. Gentle(w.node[s], n) /\ n.log = w.node[s].log /\ (Tidy(w.node[s]) => Tidy(n))  BY DEF Mild
<1>2. Apt(v, s, n)  BY <1>1, AptIs
<1> QED  BY <1>1, <1>2, PutGentle

(* A connection that is not newly opened and brings no answer about entries that    *)
(* the server does not have.                                                        *)
Narrow(w, f, c) ==
    c.open => /\ w.conn[f].open /\ c.to = w.conn[f].to
              /\ \A i \in DOMAIN c.up : c.up[i].index <= Len(w.node[f].log)

LEMMA PutConns ==
    ASSUME NEW W, NEW G, NEW v, NEW w, Fine(v, w, W, G), NEW u, NEW cf,
           u = Wd(w.node, cf, w.msgs), cf = [f \in Server |-> cf[f]],
           \A f \in Server : /\ cf[f] \in ConnType(f, W) /\ (f \in G => Narrow(w, f, cf[f]))
                            /\ Quotes(v, cf[f])
    PROVE  Fine(v, u, W, G) /\ u.node = w.node /\ u.conn = cf /\ u.msgs = w.msgs
<1>1. u.node = w.node /\ u.conn = cf /\ u.msgs = w.msgs  BY WdParts
<1>2. Ok(u, W)  BY <1>1 DEF Fine, Ok
<1>3. Held(u, G)
  <2> SUFFICES ASSUME NEW f \in G PROVE Sound(u, f)
    BY DEF Held
  <2>1. f \in Server /\ Sound(w, f)  BY DEF Fine, Held
  <2>2. Narrow(w, f, cf[f])  BY <2>1
  <2> QED  BY <1>1, <2>1, <2>2 DEF Sound, Narrow
<1>4. Keeps(v, u)  BY <1>1 DEF Fine, Keeps
<1>5. Echo(v, u)
  <2>1. Echo(v, w)  BY DEF Fine
  <2>2. ASSUME NEW L \in Seq(Entry), Copied(v, L) PROVE Copied(u, L)
    <3>1. \A s \in Server : Copy(u.node[s].log, L)  BY <1>1, <2>1, <2>2 DEF Echo, Copied
    <3>2. ASSUME NEW f \in Server, NEW i \in DOMAIN u.conn[f].down
          PROVE  Excerpt(u.conn[f].down[i], L)
      <4>1. Quotes(v, cf[f]) /\ u.conn[f] = cf[f]  BY <1>1
      <4>2. Cites(v, u.conn[f].down[i])  BY <4>1 DEF Quotes
      <4> QED  BY <4>2, <2>2 DEF Cites
    <3> QED  BY <3>1, <3>2 DEF Copied
  <2>3. \A s \in Server : Runs(v.node[s]) => Tidy(u.node[s])  BY <1>1, <2>1 DEF Echo
  <2>4. \A s \in Server \ Joiners : Len(v.node[s].log) <= Len(u.node[s].log)
    BY <1>1, <2>1 DEF Echo
  <2> QED  BY <2>2, <2>3, <2>4 DEF Echo
<1> QED  BY <1>1, <1>2, <1>3, <1>4, <1>5 DEF Fine

LEMMA OldQuotes ==
    ASSUME NEW W, NEW G, NEW v, NEW w, Fine(v, w, W, G), NEW f \in Server
    PROVE  Quotes(v, w.conn[f])
<1> SUFFICES ASSUME NEW i \in DOMAIN w.conn[f].down, NEW L \in Seq(Entry), Copied(v, L)
             PROVE  Excerpt(w.conn[f].down[i], L)
  BY DEF Quotes, Cites
<1>1. Copied(w, L)  BY DEF Fine, Echo
<1> QED  BY <1>1 DEF Copied

LEMMA PutConn ==
    ASSUME NEW W, NEW G, NEW v, NEW w, Fine(v, w, W, G), NEW s \in Server, NEW c \in ConnType(s, W),
           s \in G => Narrow(w, s, c), Quotes(v, c)
    PROVE  Fine(v, SetConn(w, s, c), W, G) /\ ConnSet(w, SetConn(w, s, c), s, c)
<1> DEFINE u == SetConn(w, s, c)
           cf == [w.conn EXCEPT ![s] = c]
<1>1. u = Wd(w.node, cf, w.msgs)  BY PutConnIs DEF Fine, SetConn
<1>2. w.conn = [f \in Server |-> w.conn[f]] /\ \A f \in Server : w.conn[f] \in ConnType(f, W)
  BY DEF Fine, Ok
<1>3. cf = [f \in Server |-> cf[f]] /\ cf[s] = c /\ \A f \in Server : f # s => cf[f] = w.conn[f]
  BY <1>2
<1>4. \A f \in Server : /\ cf[f] \in ConnType(f, W) /\ (f \in G => Narrow(w, f, cf[f]))
                        /\ Quotes(v, cf[f])
  <2>1. \A f \in Server : Quotes(v, w.conn[f])  BY OldQuotes
  <2> QED  BY <2>1, <1>2, <1>3 DEF Fine, Held, Sound, Narrow
<1> HIDE DEF u, cf
<1>5. Fine(v, u, W, G) /\ u.node = w.node /\ u.conn = cf /\ u.msgs = w.msgs
  BY <1>1, <1>3, <1>4, PutConns
<1> QED  BY <1>3, <1>5 DEF u, cf, ConnSet

(* Messages other than requests and votes may come; any message may go. *)
LEMMA PutMsgs ==
    ASSUME NEW W, NEW G, NEW v, NEW w, Fine(v, w, W, G), NEW ms, ms \subseteq Msg,
           \A m \in ms : IsBallot(m) => m \in w.msgs
    PROVE  LET u == SetMsgs(w, ms)
           IN  Fine(v, u, W, G) /\ u.node = w.node /\ u.conn = w.conn /\ u.msgs = ms
<1> DEFINE u == SetMsgs(w, ms)
<1>1. PICK nf, cf, m0 : nf = w.node /\ cf = w.conn /\ m0 = w.msgs  OBVIOUS
<1>2. w = Wd(nf, cf, m0)  BY <1>1 DEF Fine, Ok
<1>3. [Wd(nf, cf, m0) EXCEPT !.msgs = ms] = Wd(nf, cf, ms)  BY DEF Wd
<1>4. u = Wd(nf, cf, ms)  BY <1>2, <1>3 DEF SetMsgs
<1> HIDE DEF u
<1>5. u.node = w.node /\ u.conn = w.conn /\ u.msgs = ms  BY <1>1, <1>4, WdParts
<1>6. Ok(u, W)  BY <1>1, <1>4, <1>5 DEF Fine, Ok
<1>7. Held(u, G)
  <2> SUFFICES ASSUME NEW f \in G PROVE Sound(u, f)
    BY DEF Held
  <2>1. f \in Server /\ Sound(w, f)  BY DEF Fine, Held
  <2> QED  BY <1>5, <2>1 DEF Sound
<1>8. Keeps(v, u)  BY <1>5 DEF Fine, Keeps
<1>9. Echo(v, u)  BY <1>5 DEF Fine, Echo, Copied
<1> QED  BY <1>5, <1>6, <1>7, <1>8, <1>9 DEF Fine, u


-----------------------------------------------------------------------------
(* Tables keyed by servers, and the log. *)

LEMMA Constants ==
    /\ IsFiniteSet(Server) /\ Null \notin Server /\ Members \subseteq Server
    /\ MaxWrites \in Nat /\ MaxTerm \in Nat /\ Batch \in Nat /\ Batch > 0 /\ Master \in Server
    /\ Idx \subseteq Nat /\ Terms \subseteq Nat /\ 0 \in Idx /\ 0 \in Terms
BY RaftAssumption DEF Idx, Terms

LEMMA NoMapIs ==
    ASSUME NEW S PROVE NoMap \in Tables(S) /\ \A f : At(NoMap, f) = 0
<1>1. NoMap \in [{} -> S]  BY DEF NoMap
<1>2. {} \in SUBSET Server  OBVIOUS
<1> QED  BY <1>1, <1>2 DEF Tables, At

LEMMA AtIs ==
    ASSUME NEW S \in SUBSET Nat, NEW m \in Tables(S), NEW f
    PROVE  At(m, f) \in S \cup {0} /\ At(m, f) \in Nat /\ DOMAIN m \subseteq Server
<1>1. PICK D \in SUBSET Server : m \in [D -> S]  BY DEF Tables
<1> QED  BY <1>1 DEF At

LEMMA WithIs ==
    ASSUME NEW S \in SUBSET Nat, NEW m \in Tables(S), NEW f \in Server, NEW x \in S
    PROVE  /\ With(m, f, x) \in Tables(S)
           /\ \A g : At(With(m, f, x), g) = IF g = f THEN x ELSE At(m, g)
<1>1. PICK D \in SUBSET Server : m \in [D -> S]  BY DEF Tables
<1>2. With(m, f, x) \in [D \cup {f} -> S]  BY <1>1 DEF With
<1>3. D \cup {f} \in SUBSET Server  OBVIOUS
<1>4. With(m, f, x) \in Tables(S)  BY <1>2, <1>3 DEF Tables
<1>5. ASSUME NEW g PROVE At(With(m, f, x), g) = IF g = f THEN x ELSE At(m, g)
  BY <1>1 DEF With, At
<1> QED  BY <1>4, <1>5

LEMMA WithoutIs ==
    ASSUME NEW S \in SUBSET Nat, NEW m \in Tables(S), NEW f
    PROVE  /\ Without(m, f) \in Tables(S) /\ \A g : At(Without(m, f), g) <= At(m, g)
           /\ \A g : At(Without(m, f), g) = IF g = f THEN 0 ELSE At(m, g)
<1>1. PICK D \in SUBSET Server : m \in [D -> S]  BY DEF Tables
<1>2. Without(m, f) \in [D \ {f} -> S]  BY <1>1 DEF Without, Restrict
<1>3. D \ {f} \in SUBSET Server  OBVIOUS
<1>4. Without(m, f) \in Tables(S)  BY <1>2, <1>3 DEF Tables
<1>5. ASSUME NEW g
      PROVE  /\ At(Without(m, f), g) = IF g = f THEN 0 ELSE At(m, g)
             /\ At(Without(m, f), g) <= At(m, g)
  <2>1. At(m, g) \in Nat  BY AtIs
  <2>2. At(Without(m, f), g) = IF g = f THEN 0 ELSE At(m, g)
    BY <1>1 DEF Without, Restrict, At
  <2> QED  BY <2>1, <2>2
<1> QED  BY <1>4, <1>5

LEMMA GetTermIs ==
    ASSUME NEW log \in Seq(Entry), NEW i
    PROVE  get_term(log, i) \in Terms
<1>1. CASE i \in DOMAIN log
  <2>1. log[i] \in Entry  BY <1>1
  <2> QED  BY <1>1, <2>1 DEF get_term, Entry
<1>2. CASE i \notin DOMAIN log  BY <1>2, Constants DEF get_term
<1> QED  BY <1>1, <1>2

(* What a leader sends: entries of its log, at most Batch of them. *)
LEMMA EntriesFrom ==
    ASSUME NEW log \in Seq(Entry), NEW i \in Nat
    PROVE  LET es == get_entries_from(log, i)
           IN  /\ es \in Seq(Entry)
               /\ es # <<>> => i > 0 /\ i - 1 + Len(es) <= Len(log)
               /\ \A j \in DOMAIN es : i + j - 1 \in DOMAIN log /\ es[j] = log[i + j - 1]
<1>1. CASE i = 0  BY <1>1, EmptySeq DEF get_entries_from
<1>2. CASE i # 0
  <2> DEFINE m == Min({i + Batch - 1, Len(log)})
             es == SubSeq(log, i, m)
  <2>1. i + Batch - 1 \in Nat /\ Len(log) \in Nat  BY <1>2, Constants
  <2>2. m \in Nat /\ m <= Len(log)  BY <2>1, OfTwo
  <2>3. get_entries_from(log, i) = es  BY <1>2 DEF get_entries_from
  <2> HIDE DEF m
  <2>4. es \in Seq(Entry) /\ Len(es) = (IF i <= m THEN m - i + 1 ELSE 0)
        /\ \A j \in 1..Len(es) : es[j] = log[i + j - 1]
    <3>1. \A j \in i..m : log[j] \in Entry  BY <1>2, <2>2
    <3> QED  BY <1>2, <2>2, <3>1
  <2>5. DOMAIN es = 1..Len(es)  BY <2>4
  <2>6. es # <<>> => Len(es) > 0  BY <2>4
  <2>7. \A j \in 1..Len(es) : i + j - 1 \in DOMAIN log  BY <1>2, <2>2, <2>4
  <2> HIDE DEF es
  <2> QED  BY <1>2, <2>2, <2>3, <2>4, <2>5, <2>6, <2>7
<1> QED  BY <1>1, <1>2

LEMMA AppendEntriesIs ==
    ASSUME NEW W \in Idx, NEW s, NEW n \in NodeType(s, W), NEW f
    PROVE  AppendEntries(n, f) \in AppendType(W)
<1> DEFINE next == At(n.next, f)
           prev == IF next > 0 THEN next - 1 ELSE 0
           es == get_entries_from(n.log, next)
<1>1. n.log \in Seq(Entry) /\ Len(n.log) <= W /\ n.next \in Tables(0..(MaxWrites + 1))
      /\ n.term \in Terms /\ n.commit \in Idx
  BY DEF NodeType
<1>2. next \in 0..(MaxWrites + 1)
  <2>1. 0..(MaxWrites + 1) \subseteq Nat /\ 0 \in 0..(MaxWrites + 1)  BY Constants
  <2> QED  BY <2>1, <1>1, AtIs
<1>3. prev \in Idx /\ next \in Nat  BY <1>2, Constants DEF Idx
<1>4. es \in Seq(Entry) /\ (es # <<>> => prev + Len(es) <= W)
  <2>1. es \in Seq(Entry) /\ (es # <<>> => next > 0 /\ next - 1 + Len(es) <= Len(n.log))
    BY <1>1, <1>3, EntriesFrom
  <2>2. Len(es) \in Nat /\ Len(n.log) \in Nat /\ W \in Nat  BY <2>1, <1>1, Constants
  <2> HIDE DEF es, next
  <2> QED  BY <1>1, <1>3, <2>1, <2>2
<1>5. get_term(n.log, prev) \in Terms  BY <1>1, GetTermIs
<1>6. AppendEntries(n, f) = [type |-> "append", term |-> n.term, prev |-> prev,
          prev_term |-> get_term(n.log, prev), entries |-> es, commit |-> n.commit]
  BY DEF AppendEntries
<1> HIDE DEF es, prev
<1> QED  BY <1>1, <1>3, <1>4, <1>5, <1>6 DEF AppendType


-----------------------------------------------------------------------------
(* Committing and executing touch three fields. *)

Ran(n, m) ==
    \E c, a \in Idx : \E e \in Seq(1..MaxWrites) :
        m = [n EXCEPT !.commit = c, !.applied = a, !.exec = e]

RanWell(n, m) == Ran(n, m) /\ (Tidy(n) => Tidy(m))

LEMMA RanIs ==
    ASSUME NEW W \in Idx, NEW s, NEW n \in NodeType(s, W), NEW m, Ran(n, m)
    PROVE  /\ m \in NodeType(s, W) /\ Gentle(n, m)
           /\ m.role = n.role /\ m.life = n.life /\ m.term = n.term /\ m.voted = n.voted
           /\ m.votes = n.votes /\ m.nodes = n.nodes /\ m.leader = n.leader /\ m.log = n.log
           /\ m.peers = n.peers /\ m.next = n.next /\ m.match = n.match /\ m.join = n.join
           /\ m.joining = n.joining /\ m.writing = n.writing /\ m.won = n.won
           /\ m.strayed = n.strayed
<1>1. PICK c \in Idx, a \in Idx, e \in Seq(1..MaxWrites) :
          m = [n EXCEPT !.commit = c, !.applied = a, !.exec = e]
  BY DEF Ran
<1>2. m \in NodeType(s, W)  BY <1>1 DEF NodeType
<1>3. /\ m.role = n.role /\ m.life = n.life /\ m.term = n.term /\ m.voted = n.voted
      /\ m.votes = n.votes /\ m.nodes = n.nodes /\ m.leader = n.leader /\ m.log = n.log
      /\ m.peers = n.peers /\ m.next = n.next /\ m.match = n.match /\ m.join = n.join
      /\ m.joining = n.joining /\ m.writing = n.writing /\ m.won = n.won
      /\ m.strayed = n.strayed
  BY <1>1 DEF NodeType
<1>4. /\ Len(n.log) \in Nat /\ n.votes \in Nat /\ n.match \in Tables(Idx)  BY DEF NodeType
<1>5. Idx \in SUBSET Nat  BY Constants
<1>6. \A f : At(n.match, f) \in Nat  BY <1>4, <1>5, AtIs
<1>7. Gentle(n, m)  BY <1>3, <1>4, <1>6 DEF Gentle, Later
<1> QED  BY <1>2, <1>3, <1>7

LEMMA RanSelf ==
    ASSUME NEW W \in Idx, NEW s, NEW n \in NodeType(s, W)
    PROVE  Ran(n, n)
<1>1. n = [n EXCEPT !.commit = n.commit, !.applied = n.applied, !.exec = n.exec]
  BY DEF NodeType
<1>2. n.commit \in Idx /\ n.applied \in Idx /\ n.exec \in Seq(1..MaxWrites)  BY DEF NodeType
<1> QED  BY <1>1, <1>2 DEF Ran

LEMMA ExecuteRan ==
    ASSUME NEW W \in Idx, NEW s, NEW n \in NodeType(s, W), NEW upto \in Idx
    PROVE  Ran(n, Execute(n, upto))
<1> DEFINE k == Min({upto, Len(n.log)}) - n.applied
           new == [i \in 1..k |-> n.log[n.applied + i].id]
           e == n.exec \o new
<1>0. /\ n.log \in Seq(Entry) /\ n.applied \in Idx /\ n.commit \in Idx
      /\ n.exec \in Seq(1..MaxWrites)
  BY DEF NodeType
<1>1. /\ n.log \in Seq(Entry) /\ Len(n.log) \in Nat /\ n.applied \in Idx /\ n.commit \in Idx
      /\ n.exec \in Seq(1..MaxWrites) /\ upto \in Nat /\ n.applied \in Nat
  <2>1. Idx \subseteq Nat  BY Constants
  <2>2. Len(n.log) \in Nat  BY <1>0
  <2> QED  BY <1>0, <2>1, <2>2
<1>2. k \in Int /\ k <= Len(n.log) - n.applied
  <2>1. Min({upto, Len(n.log)}) \in Nat /\ Min({upto, Len(n.log)}) <= Len(n.log)
    BY <1>1, OfTwo
  <2>2. PICK l \in Nat : l = Min({upto, Len(n.log)})  BY <2>1
  <2> QED  BY <2>1, <2>2, <1>1
<1> HIDE DEF k
<1>3. \A i \in 1..k : n.log[n.applied + i].id \in 1..MaxWrites
  <2> SUFFICES ASSUME NEW i \in 1..k PROVE n.log[n.applied + i].id \in 1..MaxWrites
    OBVIOUS
  <2>1. n.applied + i \in 1..Len(n.log)  BY <1>1, <1>2
  <2>2. n.log[n.applied + i] \in Entry  BY <2>1, <1>1
  <2> QED  BY <2>2 DEF Entry
<1>4. new \in Seq(1..MaxWrites)
  <2>1. CASE k >= 0
    <3>1. k \in Nat  BY <2>1, <1>2
    <3> QED  BY <3>1, <1>3, IsASeq
  <2>2. CASE ~(k >= 0)
    <3>1. new = <<>>  BY <2>2, <1>2
    <3> QED  BY <3>1, EmptySeq
  <2> QED  BY <2>1, <2>2
<1>5. e \in Seq(1..MaxWrites)
  <2> HIDE DEF new
  <2> QED  BY <1>1, <1>4, ConcatProperties
<1>6. Execute(n, upto) = [n EXCEPT !.applied = upto, !.exec = e]  BY DEF Execute, k
<1> HIDE DEF e
<1>7. [n EXCEPT !.applied = upto, !.exec = e]
      = [n EXCEPT !.commit = n.commit, !.applied = upto, !.exec = e]
  BY DEF NodeType
<1> QED  BY <1>1, <1>5, <1>6, <1>7 DEF Ran

LEMMA SameTidy ==
    ASSUME NEW n, NEW m, m.log = n.log, m.exec = n.exec, m.applied = n.applied
    PROVE  (Runs(n) => Runs(m)) /\ (Over(n) => Over(m)) /\ (Tidy(n) => Tidy(m))
BY DEF Runs, Over, Tidy

LEMMA ExecuteTidy ==
    ASSUME NEW W \in Idx, NEW s, NEW n \in NodeType(s, W), NEW upto \in Idx, n.applied <= upto
    PROVE  Tidy(n) => Tidy(Execute(n, upto))
<1> DEFINE last == Len(n.log)
           k == Min({upto, last}) - n.applied
           new == [i \in 1..k |-> n.log[n.applied + i].id]
           e == n.exec \o new
           m == [n EXCEPT !.applied = upto, !.exec = e]
<1>1. Execute(n, upto) = m  BY DEF Execute
<1>2. n.applied \in Nat /\ upto \in Nat /\ last \in Nat
  <2>1. n.applied \in Idx /\ n.log \in Seq(Entry)  BY DEF NodeType
  <2>2. Len(n.log) \in Nat  BY <2>1
  <2> QED  BY <2>1, <2>2, Constants
<1>3. n.exec \in Seq(1..MaxWrites)  BY DEF NodeType
<1>4. m.applied = upto /\ m.exec = e /\ m.log = n.log  BY DEF NodeType
<1> HIDE DEF m, e
<1>5. CASE upto > last  BY <1>1, <1>4, <1>5 DEF Tidy, Over
<1>6. CASE ~(upto > last) /\ Over(n)  BY <1>2, <1>6 DEF Over
<1>7. CASE ~(upto > last) /\ Runs(n)
  <2>1. Min({upto, last}) = upto
    <3>1. PICK x : x = Min({upto, last})  OBVIOUS
    <3>2. x \in {upto, last} /\ x <= upto /\ x <= last  BY <1>2, <3>1, OfTwo
    <3> QED  BY <3>1, <3>2, <1>2, <1>7
  <2>2. k = upto - n.applied /\ k \in Nat  BY <2>1, <1>2
  <2> HIDE DEF k
  <2>3. new \in Seq(1..MaxWrites) /\ Len(new) = k
    <3>1. \A i \in 1..k : n.log[n.applied + i].id \in 1..MaxWrites
      <4> SUFFICES ASSUME NEW i \in 1..k PROVE n.log[n.applied + i].id \in 1..MaxWrites
        OBVIOUS
      <4>1. n.applied + i \in 1..last  BY <1>2, <1>7, <2>2
      <4>2. n.log \in Seq(Entry)  BY DEF NodeType
      <4>3. n.log[n.applied + i] \in Entry  BY <4>1, <4>2
      <4> QED  BY <4>3 DEF Entry
    <3>2. k \in Nat  BY <2>2
    <3>3. new \in Seq(1..MaxWrites)  BY <3>1, <3>2, IsASeq
    <3> QED  BY <3>2, <3>3
  <2>4. \A i \in 1..k : new[i] = n.log[n.applied + i].id  OBVIOUS
  <2> HIDE DEF new
  <2>5. n.applied = Len(n.exec) /\ \A i \in 1..Len(n.exec) : n.exec[i] = n.log[i].id
    BY <1>7 DEF Runs
  <2>6. /\ Len(e) = Len(n.exec) + Len(new)
        /\ \A i \in 1..Len(e) : e[i] = IF i <= Len(n.exec) THEN n.exec[i]
                                       ELSE new[i - Len(n.exec)]
    BY <1>3, <2>3, ConcatProperties DEF e
  <2>7. Len(e) = upto  BY <1>2, <2>2, <2>3, <2>5, <2>6
  <2>8. ASSUME NEW i \in 1..upto PROVE e[i] = n.log[i].id
    <3>1. CASE i <= n.applied
      <4>1. i \in 1..Len(n.exec) /\ i \in 1..Len(e)  BY <1>2, <2>5, <2>7, <3>1
      <4>2. e[i] = n.exec[i]  BY <2>6, <4>1
      <4> QED  BY <2>5, <4>1, <4>2
    <3>2. CASE ~(i <= n.applied)
      <4>1. e[i] = new[i - n.applied]  BY <1>2, <2>5, <2>6, <2>7, <3>2
      <4>2. i - n.applied \in 1..k /\ n.applied + (i - n.applied) = i  BY <1>2, <2>2, <3>2
      <4>3. new[i - n.applied] = n.log[n.applied + (i - n.applied)].id  BY <2>4, <4>2
      <4> QED  BY <4>1, <4>2, <4>3
    <3> QED  BY <3>1, <3>2
  <2>9. Runs(m)  BY <1>2, <1>4, <1>7, <2>7, <2>8 DEF Runs
  <2> QED  BY <1>1, <2>9 DEF Tidy
<1> QED  BY <1>5, <1>6, <1>7 DEF Tidy

(* Ran, after the commit index was set. *)
LEMMA RanAfter ==
    ASSUME NEW W \in Idx, NEW s, NEW n \in NodeType(s, W), NEW c \in Idx, NEW m,
           Ran([n EXCEPT !.commit = c], m)
    PROVE  Ran(n, m)
<1>1. PICK d \in Idx, a \in Idx, e \in Seq(1..MaxWrites) :
          m = [[n EXCEPT !.commit = c] EXCEPT !.commit = d, !.applied = a, !.exec = e]
  BY DEF Ran
<1>2. m = [n EXCEPT !.commit = d, !.applied = a, !.exec = e]  BY <1>1 DEF NodeType
<1> QED  BY <1>2 DEF Ran

LEMMA ApplyRan ==
    ASSUME NEW W \in Idx, NEW s, NEW n \in NodeType(s, W)
    PROVE  /\ RanWell(n, apply_committed_entries(n))
           /\ apply_committed_entries(n).commit = n.commit
<1>1. n.commit \in Idx /\ n.applied \in Idx  BY DEF NodeType
<1>2. CASE n.applied >= n.commit  BY <1>2, RanSelf DEF apply_committed_entries, RanWell
<1>3. CASE ~(n.applied >= n.commit)
  <2>1. apply_committed_entries(n) = Execute(n, n.commit)  BY <1>3 DEF apply_committed_entries
  <2>2. Execute(n, n.commit).commit = n.commit  BY DEF Execute, NodeType
  <2>3. n.applied <= n.commit
    <3>1. n.applied \in Nat /\ n.commit \in Nat  BY <1>1, Constants
    <3> QED  BY <3>1, <1>3
  <2>4. Ran(n, Execute(n, n.commit))  BY <1>1, ExecuteRan
  <2>5. Tidy(n) => Tidy(Execute(n, n.commit))  BY <1>1, <2>3, ExecuteTidy
  <2> QED  BY <2>1, <2>2, <2>4, <2>5 DEF RanWell
<1> QED  BY <1>2, <1>3

LEMMA CommitType ==
    ASSUME NEW W \in Idx, NEW s, NEW n \in NodeType(s, W), NEW c \in Idx
    PROVE  [n EXCEPT !.commit = c] \in NodeType(s, W) /\ [n EXCEPT !.commit = c].commit = c
BY DEF NodeType

LEMMA LogLength ==
    ASSUME NEW W \in Idx, NEW s, NEW n \in NodeType(s, W)
    PROVE  Len(n.log) \in Idx /\ n.log \in Seq(Entry) /\ Len(n.log) <= W
<1>1. n.log \in Seq(Entry) /\ Len(n.log) <= W  BY DEF NodeType
<1> QED  BY <1>1, Constants DEF Idx

LEMMA CommitEntriesRan ==
    ASSUME NEW W \in Idx, NEW s, NEW n \in NodeType(s, W)
    PROVE  Ran(n, commit_entries(n)) /\ (Runs(n) => Tidy(commit_entries(n)))
<1> DEFINE n1 == [n EXCEPT !.commit = Len(n.log)]
<1>1. Len(n.log) \in Idx  BY LogLength
<1>2. n1 \in NodeType(s, W)  BY <1>1, CommitType
<1>6. n1.log = n.log /\ n1.exec = n.exec /\ n1.applied = n.applied  BY DEF NodeType
<1> HIDE DEF n1
<1>3. Ran(n1, Execute(n1, Len(n.log)))  BY <1>1, <1>2, ExecuteRan
<1>4. Ran(n, Execute(n1, Len(n.log)))  BY <1>1, <1>3, RanAfter DEF n1
<1>5. commit_entries(n) \in {n, Execute(n1, Len(n.log))}  BY DEF commit_entries, n1
<1>7. Runs(n) => Tidy(Execute(n1, Len(n.log)))
  <2> SUFFICES ASSUME Runs(n) PROVE Tidy(Execute(n1, Len(n.log)))
    OBVIOUS
  <2>1. Runs(n1) /\ n1.applied <= Len(n.log)  BY <1>6 DEF Runs
  <2>2. Tidy(n1)  BY <2>1 DEF Tidy
  <2> QED  BY <1>1, <1>2, <2>1, <2>2, ExecuteTidy
<1>8. Runs(n) => Tidy(n)  BY DEF Tidy
<1> QED  BY <1>4, <1>5, <1>7, <1>8, RanSelf


(* Some index is held by a majority of the leader and its followers; the code takes  *)
(* the greatest of these.                                                            *)
Holders(n, v) ==
    Cardinality({g \in DOMAIN n.match : n.match[g] >= v}) + IF Len(n.log) >= v THEN 1 ELSE 0

LEMMA MajorityIs ==
    ASSUME NEW W \in Idx, NEW s, NEW n \in NodeType(s, W)
    PROVE  /\ MajorityIndex(n) \in Idx
           /\ Holders(n, MajorityIndex(n)) > (Cardinality(DOMAIN n.match) + 1) \div 2
<1> DEFINE last == Len(n.log)
           V == Range(n.match) \cup {last}
           S == {v \in V : Holders(n, v) > (Cardinality(DOMAIN n.match) + 1) \div 2}
<1>1. n.match \in Tables(Idx) /\ last \in Idx  BY LogLength DEF NodeType
<1>2. PICK D \in SUBSET Server : n.match \in [D -> Idx]  BY <1>1 DEF Tables
<1>3. DOMAIN n.match = D /\ V = {n.match[f] : f \in D} \cup {last}  BY <1>2 DEF Range
<1>4. V \in SUBSET Idx /\ last \in V /\ \A f \in D : n.match[f] \in V  BY <1>1, <1>2, <1>3
<1>5. Idx \in SUBSET Nat /\ \A v \in Idx : v <= MaxWrites  BY Constants DEF Idx
<1> HIDE DEF V
<1>6. PICK v \in V : \A y \in V : v <= y
  <2>1. V \in SUBSET Nat /\ V # {}  BY <1>4, <1>5
  <2>2. \E x \in V : \A y \in V : x <= y  BY <2>1, NatMin
  <2> QED  BY <2>2
<1>7. v \in S
  <2>1. {f \in DOMAIN n.match : n.match[f] >= v} = D  BY <1>3, <1>4, <1>5, <1>6
  <2>2. IsFiniteSet(D)  BY Constants, FS_Subset
  <2>3. Cardinality(D) \in Nat  BY <2>2, FS_CardinalityType
  <2>4. last >= v  BY <1>4, <1>5, <1>6
  <2>5. Holders(n, v) = Cardinality(D) + 1  BY <2>1, <2>4 DEF Holders
  <2>6. Cardinality(D) + 1 > (Cardinality(D) + 1) \div 2  BY <2>3
  <2> QED  BY <1>3, <2>5, <2>6
<1>8. S \in SUBSET Nat /\ S # {} /\ \A y \in S : y <= MaxWrites  BY <1>4, <1>5, <1>7
<1>9. MajorityIndex(n) = Max(S)  BY DEF MajorityIndex, Holders, V
<1>10. Max(S) \in S
  <2> HIDE DEF S
  <2> QED  BY <1>8, MaxIs, Constants
<1> QED  BY <1>4, <1>9, <1>10

LEMMA TryCommitRan ==
    ASSUME NEW W \in Idx, NEW s, NEW n \in NodeType(s, W)
    PROVE  LET m == try_commit_entries(n)
           IN  /\ RanWell(n, m)
               /\ m.commit = n.commit \/ m.commit = MajorityIndex(n)
<1> DEFINE i == MajorityIndex(n)
           n1 == [n EXCEPT !.commit = i]
           m == try_commit_entries(n)
<1>1. i \in Idx  BY MajorityIs
<1>2. n1 \in NodeType(s, W) /\ n1.commit = i
  <2> HIDE DEF i
  <2> QED  BY <1>1, CommitType
<1>8. Tidy(n) => Tidy(n1)
  <2>1. n1.log = n.log /\ n1.exec = n.exec /\ n1.applied = n.applied  BY DEF NodeType
  <2> HIDE DEF n1
  <2> QED  BY <2>1, SameTidy
<1>3. m \in {n, apply_committed_entries(n), apply_committed_entries(n1)}
  BY DEF try_commit_entries
<1> HIDE DEF n1, m, i
<1>4. RanWell(n, apply_committed_entries(n)) /\ apply_committed_entries(n).commit = n.commit
  BY ApplyRan
<1>5. RanWell(n1, apply_committed_entries(n1)) /\ apply_committed_entries(n1).commit = i
  BY <1>2, ApplyRan
<1>6. RanWell(n, apply_committed_entries(n1))
  <2>1. PICK a : a = apply_committed_entries(n1)  OBVIOUS
  <2>2. Ran(n1, a) /\ (Tidy(n1) => Tidy(a))  BY <1>5, <2>1 DEF RanWell
  <2>3. Ran(n, a)  BY <1>1, <2>2, RanAfter DEF n1
  <2> QED  BY <1>8, <2>1, <2>2, <2>3 DEF RanWell
<1>9. RanWell(n, n)  BY RanSelf DEF RanWell
<1>7. RanWell(n, m) /\ (m.commit = n.commit \/ m.commit = i)
  BY <1>3, <1>4, <1>5, <1>6, <1>9
<1> QED  BY <1>7 DEF m, i

-----------------------------------------------------------------------------
(* Sending: the connections change, no server does. *)

LEMMA SomeOk ==
    ASSUME NEW W, NEW G, NEW v, NEW w, Fine(v, w, W, G)
    PROVE  /\ w = Wd(w.node, w.conn, w.msgs) /\ w.msgs \subseteq Msg
           /\ w.node = [x \in Server |-> w.node[x]] /\ w.conn = [x \in Server |-> w.conn[x]]
           /\ \A x \in Server : w.node[x] \in NodeType(x, W) /\ w.conn[x] \in ConnType(x, W)
           /\ \A x \in G : x \in Server /\ Narrow(w, x, w.conn[x])
BY DEF Fine, Ok, Held, Sound, Narrow

LEMMA QueueIs ==
    ASSUME NEW W, NEW f, NEW c \in ConnType(f, W), NEW v, NEW m \in DownType(W)
    PROVE  LET d == Queue(c, m)
           IN  /\ d \in ConnType(f, W) /\ d.to = c.to /\ d.open = c.open /\ d.up = c.up
               /\ Quotes(v, c) /\ Cites(v, m) => Quotes(v, d)
<1> DEFINE d == Queue(c, m)
<1>1. c.down \in Seq(DownType(W))  BY DEF ConnType
<1>2. PICK q : q = Append(c.down, m)  OBVIOUS
<1>3. q \in Seq(DownType(W)) /\ \A i \in DOMAIN q : q[i] = m \/
          (i \in DOMAIN c.down /\ q[i] = c.down[i])
  BY <1>1, <1>2, AppendProperties
<1>4. d \in ConnType(f, W) /\ d.to = c.to /\ d.open = c.open /\ d.up = c.up /\ d.down = q
  BY <1>2, <1>3 DEF ConnType, Queue
<1> HIDE DEF d
<1>5. Quotes(v, c) /\ Cites(v, m) => Quotes(v, d)  BY <1>3, <1>4 DEF Quotes
<1> QED  BY <1>4, <1>5 DEF d

(* No server changes, and no connection but for what is on its way down. *)
SameLinks(w, u) ==
    /\ u.node = w.node /\ u.msgs = w.msgs
    /\ \A f \in Server : /\ u.conn[f].to = w.conn[f].to
                         /\ u.conn[f].open = w.conn[f].open
                         /\ u.conn[f].up = w.conn[f].up

(* Some connections get one message more. *)
LEMMA SendMany ==
    ASSUME NEW W, NEW G, NEW v, NEW w, Fine(v, w, W, G), NEW fs, NEW l, NEW g,
           \A f \in fs \cap Server : g[f] \in DownType(W) /\ Cites(v, g[f])
    PROVE  LET u == [w EXCEPT !.conn = [f \in Server |->
                        IF f \in fs /\ Connected(w, f, l)
                        THEN Queue(@[f], g[f]) ELSE @[f]]]
           IN  Fine(v, u, W, G) /\ SameLinks(w, u)
<1> DEFINE cf == [f \in Server |-> IF f \in fs /\ Connected(w, f, l)
                     THEN Queue(w.conn[f], g[f]) ELSE w.conn[f]]
           u == [w EXCEPT !.conn = [f \in Server |->
                        IF f \in fs /\ Connected(w, f, l)
                        THEN Queue(@[f], g[f]) ELSE @[f]]]
<1>1. u = [w EXCEPT !.conn = cf]  OBVIOUS
<1>2. PICK nf, c0, ms : nf = w.node /\ c0 = w.conn /\ ms = w.msgs  OBVIOUS
<1>3. w = Wd(nf, c0, ms)
  <2>1. w = Wd(w.node, w.conn, w.msgs)  BY DEF Fine, Ok
  <2> QED  BY <2>1, <1>2
<1>5. \A f \in Server : /\ cf[f] \in ConnType(f, W) /\ (f \in G => Narrow(w, f, cf[f]))
                        /\ cf[f].to = w.conn[f].to /\ cf[f].open = w.conn[f].open
                        /\ cf[f].up = w.conn[f].up /\ Quotes(v, cf[f])
  <2> SUFFICES ASSUME NEW f \in Server
               PROVE  /\ cf[f] \in ConnType(f, W) /\ (f \in G => Narrow(w, f, cf[f]))
                      /\ cf[f].to = w.conn[f].to /\ cf[f].open = w.conn[f].open
                      /\ cf[f].up = w.conn[f].up /\ Quotes(v, cf[f])
    OBVIOUS
  <2>1. w.conn[f] \in ConnType(f, W) /\ (f \in G => Narrow(w, f, w.conn[f]))  BY SomeOk
  <2>4. Quotes(v, w.conn[f])  BY OldQuotes
  <2>2. CASE f \in fs /\ Connected(w, f, l)
    <3>1. cf[f] = Queue(w.conn[f], g[f])  BY <2>2
    <3>2. g[f] \in DownType(W) /\ Cites(v, g[f])  BY <2>2
    <3> HIDE DEF cf, u
    <3>3. PICK d : d = cf[f]  OBVIOUS
    <3>4. /\ d \in ConnType(f, W) /\ d.to = w.conn[f].to /\ d.open = w.conn[f].open
          /\ d.up = w.conn[f].up /\ Quotes(v, d)
      BY <2>1, <2>4, <3>1, <3>2, <3>3, QueueIs
    <3> QED  BY <2>1, <3>3, <3>4 DEF Narrow
  <2>3. CASE ~(f \in fs /\ Connected(w, f, l))
    <3>1. cf[f] = w.conn[f]  BY <2>3
    <3> QED  BY <2>1, <2>4, <3>1
  <2> QED  BY <2>2, <2>3
<1>6. cf = [f \in Server |-> cf[f]]  OBVIOUS
<1> HIDE DEF cf, u
<1>4. u = Wd(w.node, cf, w.msgs)
  <2>1. [Wd(nf, c0, ms) EXCEPT !.conn = cf] = Wd(nf, cf, ms)  BY DEF Wd
  <2> QED  BY <2>1, <1>1, <1>2, <1>3
<1>7. Fine(v, u, W, G) /\ u.node = w.node /\ u.conn = cf /\ u.msgs = w.msgs
  BY <1>4, <1>5, <1>6, PutConns
<1> QED  BY <1>5, <1>7 DEF u, SameLinks

LEMMA Parts ==
    ASSUME NEW W, NEW G, NEW v, NEW w, Fine(v, w, W, G), NEW s \in Server
    PROVE  w.node[s] \in NodeType(s, W) /\ w.conn[s] \in ConnType(s, W)
BY DEF Fine, Ok

(* Other messages send no entries. *)
LEMMA CitesIs ==
    ASSUME NEW v, NEW m, m.type # "append"
    PROVE  Cites(v, m)
BY DEF Cites, Excerpt

LEMMA SendFine ==
    ASSUME NEW W, NEW G, NEW v, NEW w, Fine(v, w, W, G), NEW f \in Server, NEW l,
           NEW m \in DownType(W), Cites(v, m)
    PROVE  Fine(v, send(w, f, l, m), W, G) /\ SameLinks(w, send(w, f, l, m))
<1> DEFINE c == Queue(w.conn[f], m)
           u == SetConn(w, f, c)
<1>1. CASE Connected(w, f, l)
  <2>1. send(w, f, l, m) = u  BY <1>1 DEF send, SetConn
  <2>2. w.conn[f] \in ConnType(f, W)  BY Parts
  <2>7. Quotes(v, w.conn[f])  BY OldQuotes
  <2>3. c \in ConnType(f, W) /\ c.to = w.conn[f].to /\ c.open = w.conn[f].open
        /\ c.up = w.conn[f].up /\ Quotes(v, c)
    BY <2>2, <2>7, QueueIs
  <2> HIDE DEF c
  <2>4. f \in G => Narrow(w, f, w.conn[f])  BY SomeOk
  <2>5. f \in G => Narrow(w, f, c)  BY <2>3, <2>4 DEF Narrow
  <2>6. Fine(v, u, W, G) /\ ConnSet(w, u, f, c)  BY <2>3, <2>5, PutConn
  <2> HIDE DEF u
  <2> QED  BY <2>1, <2>3, <2>6 DEF SameLinks, ConnSet
<1>2. CASE ~Connected(w, f, l)  BY <1>2 DEF send, SameLinks
<1> QED  BY <1>1, <1>2

LEMMA SendAllFine ==
    ASSUME NEW W, NEW G, NEW v, NEW w, Fine(v, w, W, G), NEW l, NEW fs, NEW m \in DownType(W),
           Cites(v, m)
    PROVE  Fine(v, SendAll(w, l, fs, m), W, G) /\ SameLinks(w, SendAll(w, l, fs, m))
<1> DEFINE g == [f \in Server |-> m]
<1>1. \A f \in fs \cap Server : g[f] \in DownType(W) /\ Cites(v, g[f])  OBVIOUS
<1>2. SendAll(w, l, fs, m) = [w EXCEPT !.conn = [f \in Server |->
          IF f \in fs /\ Connected(w, f, l) THEN Queue(@[f], g[f]) ELSE @[f]]]
  BY DEF SendAll
<1> HIDE DEF g
<1> QED  BY <1>1, <1>2, SendMany

LEMMA BroadcastFine ==
    ASSUME NEW W, NEW G, NEW v, NEW w, Fine(v, w, W, G), NEW l, NEW m \in DownType(W),
           Cites(v, m)
    PROVE  /\ Fine(v, broadcast_to_followers(w, l, m), W, G)
           /\ SameLinks(w, broadcast_to_followers(w, l, m))
BY SendAllFine DEF broadcast_to_followers, SameLinks

LEMMA AppendDown ==
    ASSUME NEW W \in Idx, NEW s, NEW n \in NodeType(s, W), NEW f
    PROVE  AppendEntries(n, f) \in DownType(W)
BY AppendEntriesIs DEF DownType

LEMMA AppendExcerpt ==
    ASSUME NEW W \in Idx, NEW l, NEW n \in NodeType(l, W), NEW f,
           NEW L \in Seq(Entry), Copy(n.log, L)
    PROVE  Excerpt(AppendEntries(n, f), L)
<1> DEFINE log == n.log
           next == At(n.next, f)
           m == AppendEntries(n, f)
           es == get_entries_from(log, next)
<1>1. log \in Seq(Entry) /\ next \in Nat
  <2>1. n.log \in Seq(Entry) /\ n.next \in Tables(0..(MaxWrites + 1))  BY DEF NodeType
  <2>2. 0..(MaxWrites + 1) \in SUBSET Nat  BY Constants
  <2> QED  BY <2>1, <2>2, AtIs
<1>2. m.entries = es /\ m.prev = (IF next > 0 THEN next - 1 ELSE 0)  BY DEF AppendEntries
<1> HIDE DEF m, next
<1>3. /\ es \in Seq(Entry) /\ (es # <<>> => next > 0)
      /\ \A j \in DOMAIN es : next + j - 1 \in DOMAIN log /\ es[j] = log[next + j - 1]
  BY <1>1, EntriesFrom
<1> HIDE DEF es
<1>4. ASSUME NEW k \in DOMAIN es
      PROVE  m.prev + k <= Len(L) /\ m.entries[k] = L[m.prev + k]
  <2>1. k \in Nat /\ es # <<>>  BY <1>3
  <2>2. m.prev = next - 1  BY <2>1, <1>2, <1>3
  <2>3. m.prev + k = next + k - 1  BY <1>1, <2>1, <2>2
  <2>4. PICK i : i = next + k - 1  OBVIOUS
  <2>5. i \in 1..Len(log) /\ es[k] = log[i]  BY <1>1, <1>3, <2>4
  <2>6. Len(log) \in Nat /\ Len(L) \in Nat  BY <1>1
  <2>7. i <= Len(L) /\ log[i] = L[i]  BY <2>5, <2>6 DEF Copy
  <2> QED  BY <1>2, <2>3, <2>4, <2>5, <2>7
<1> QED  BY <1>2, <1>4 DEF Excerpt, m

LEMMA AppendCites ==
    ASSUME NEW W \in Idx, NEW G, NEW v, NEW w, Fine(v, w, W, G), NEW l \in Server, NEW f
    PROVE  Cites(v, AppendEntries(w.node[l], f))
<1>1. w.node[l] \in NodeType(l, W)  BY Parts
<1>2. ASSUME NEW L \in Seq(Entry), Copied(v, L) PROVE Excerpt(AppendEntries(w.node[l], f), L)
  <2>1. Copy(w.node[l].log, L)  BY <1>2 DEF Fine, Echo, Copied
  <2> QED  BY <1>1, <2>1, AppendExcerpt
<1> QED  BY <1>2 DEF Cites

LEMMA SendEntriesFine ==
    ASSUME NEW W \in Idx, NEW G, NEW v, NEW w, Fine(v, w, W, G), NEW l \in Server,
           NEW f \in Server
    PROVE  /\ Fine(v, send_append_entries(w, l, f), W, G)
           /\ SameLinks(w, send_append_entries(w, l, f))
<1>1. w.node[l] \in NodeType(l, W)  BY Parts
<1>2. PICK m \in DownType(W) : m = AppendEntries(w.node[l], f)  BY <1>1, AppendDown
<1>6. Cites(v, m)  BY <1>2, AppendCites
<1>3. Fine(v, send(w, f, l, m), W, G) /\ SameLinks(w, send(w, f, l, m))  BY <1>6, SendFine
<1>4. send_append_entries(w, l, f) \in {w, send(w, f, l, m)}  BY <1>2 DEF send_append_entries
<1>5. SameLinks(w, w)  BY DEF SameLinks
<1> QED  BY <1>3, <1>4, <1>5

LEMMA SendEntriesToFine ==
    ASSUME NEW W \in Idx, NEW G, NEW v, NEW w, Fine(v, w, W, G), NEW l \in Server, NEW fs
    PROVE  /\ Fine(v, send_append_to(w, l, fs), W, G)
           /\ SameLinks(w, send_append_to(w, l, fs))
<1> DEFINE g == [f \in Server |-> AppendEntries(w.node[l], f)]
           u == [w EXCEPT !.conn = [f \in Server |->
                    IF f \in fs /\ Connected(w, f, l) THEN Queue(@[f], g[f]) ELSE @[f]]]
<1>1. w.node[l] \in NodeType(l, W)  BY Parts
<1>2. \A f \in Server : g[f] \in DownType(W) /\ Cites(v, g[f])
  BY <1>1, AppendDown, AppendCites
<1>3. w.node[l].role = "Leader" => send_append_to(w, l, fs) = u  BY DEF send_append_to
<1>4. w.node[l].role # "Leader" => send_append_to(w, l, fs) = w  BY DEF send_append_to
<1> HIDE DEF g
<1>5. Fine(v, u, W, G) /\ SameLinks(w, u)  BY <1>2, SendMany
<1> HIDE DEF u
<1> QED  BY <1>3, <1>4, <1>5 DEF SameLinks


-----------------------------------------------------------------------------
(* Changing role. *)

LEMMA NoConnIs ==
    ASSUME NEW W, NEW s
    PROVE  NoConn \in ConnType(s, W) /\ ~NoConn.open /\ NoConn.down = <<>>
<1>1. NoConn = [to |-> Null, open |-> FALSE, down |-> <<>>, up |-> <<>>]  BY DEF NoConn
<1>2. <<>> \in Seq(DownType(W)) /\ <<>> \in Seq(UpType)  OBVIOUS
<1> QED  BY <1>1, <1>2 DEF ConnType

LEMMA ClosedIs ==
    ASSUME NEW W, NEW s, NEW t \in Others(s) \cup {Null}
    PROVE  /\ [NoConn EXCEPT !.to = t] \in ConnType(s, W)
           /\ ~[NoConn EXCEPT !.to = t].open /\ [NoConn EXCEPT !.to = t].down = <<>>
           /\ [NoConn EXCEPT !.to = t].to = t
           /\ [NoConn EXCEPT !.to = t, !.open = TRUE] \in ConnType(s, W)
           /\ [NoConn EXCEPT !.to = t, !.open = TRUE].to = t
           /\ [NoConn EXCEPT !.to = t, !.open = TRUE].up = <<>>
           /\ [NoConn EXCEPT !.to = t, !.open = TRUE].down = <<>>
<1>1. NoConn = [to |-> Null, open |-> FALSE, down |-> <<>>, up |-> <<>>]  BY DEF NoConn
<1>2. <<>> \in Seq(DownType(W)) /\ <<>> \in Seq(UpType)  OBVIOUS
<1> QED  BY <1>1, <1>2 DEF ConnType

LEMMA EmptyQuotes ==
    ASSUME NEW v, NEW c, c.down = <<>>
    PROVE  Quotes(v, c)
BY DEF Quotes

LEMMA CloseFine ==
    ASSUME NEW W, NEW G, NEW v, NEW w, Fine(v, w, W, G), NEW s \in Server,
           NEW c \in ConnType(s, W), ~c.open, c.down = <<>>
    PROVE  Fine(v, SetConn(w, s, c), W, G) /\ ConnSet(w, SetConn(w, s, c), s, c)
<1>1. Narrow(w, s, c)  BY DEF Narrow
<1>2. Quotes(v, c)  BY EmptyQuotes
<1> QED  BY <1>1, <1>2, PutConn

LEMMA GentleIs ==
    ASSUME NEW W, NEW s, NEW n \in NodeType(s, W), NEW m,
           m.won = n.won, n.strayed => m.strayed, m.votes <= n.votes,
           m.role = "Candidate" => n.role = "Candidate",
           m.strayed \/ n.term < m.term \/ (m.term = n.term /\ (n.voted => m.voted)),
           Len(n.log) <= Len(m.log),
           m.match = NoMap \/ (m.peers = n.peers /\ m.match = n.match)
    PROVE  Gentle(n, m)
<1>1. n.match \in Tables(Idx)  BY DEF NodeType
<1>2. \A f : At(n.match, f) \in Int  BY <1>1 DEF Tables, At, Idx
<1>3. \A f : At(NoMap, f) = 0  BY DEF At, NoMap
<1>4. \A f \in m.peers : \/ At(m.match, f) = 0
                         \/ f \in n.peers /\ At(m.match, f) <= At(n.match, f)
  BY <1>2, <1>3
<1>5. Later(n, m)  BY DEF Later
<1> QED  BY <1>4, <1>5 DEF Gentle

LEMMA LenNat ==
    ASSUME NEW W, NEW s, NEW n \in NodeType(s, W)
    PROVE  /\ Len(n.log) \in Nat /\ Len(n.log) <= Len(n.log) /\ n.votes \in Nat /\ n.votes <= n.votes
           /\ n.term \in Nat
<1>1. n.log \in Seq(Entry) /\ n.votes \in Nat /\ n.term \in Terms  BY DEF NodeType
<1>2. n.term \in Nat  BY <1>1, Constants
<1>3. Len(n.log) \in Nat  BY <1>1
<1> QED  BY <1>1, <1>2, <1>3

LEMMA MildIs ==
    ASSUME NEW W, NEW s, NEW n \in NodeType(s, W), NEW m,
           m.won = n.won, n.strayed => m.strayed, m.votes <= n.votes,
           m.role = "Candidate" => n.role = "Candidate",
           m.strayed \/ n.term < m.term \/ (m.term = n.term /\ (n.voted => m.voted)),
           m.log = n.log, m.exec = n.exec, m.applied = n.applied,
           m.match = NoMap \/ (m.peers = n.peers /\ m.match = n.match)
    PROVE  Mild(n, m)
<1>1. Len(n.log) <= Len(m.log)  BY LenNat
<1>2. Gentle(n, m)  BY <1>1, GentleIs
<1>3. Tidy(n) => Tidy(m)  BY SameTidy
<1> QED  BY <1>2, <1>3 DEF Mild

Lead(n) == [n EXCEPT !.role = "Leader", !.nodes = {}]

LEMMA BecomeLeaderFine ==
    ASSUME NEW W \in Idx, NEW G, NEW v, NEW w, Fine(v, w, W, G), NEW s \in Server
    PROVE  /\ Fine(v, become_leader(w, s), W, G)
           /\ become_leader(w, s).node[s] = Lead(w.node[s]) /\ become_leader(w, s).msgs = w.msgs
           /\ \A x \in Server \ {s} : become_leader(w, s).node[x] = w.node[x]
<1> DEFINE w1 == SetConn(w, s, NoConn)
           n == [w.node[s] EXCEPT !.role = "Leader", !.nodes = {}]
           u == SetNode(w1, s, n)
<1>1. become_leader(w, s) = u
  <2>1. [w EXCEPT !.node[s].role = "Leader", !.node[s].nodes = {}, !.conn[s] = NoConn]
        = [[w EXCEPT !.conn[s] = NoConn] EXCEPT !.node[s] =
              [w.node[s] EXCEPT !.role = "Leader", !.nodes = {}]]
    BY DEF Fine, Ok, Wd
  <2> QED  BY <2>1 DEF become_leader, SetConn, SetNode
<1>2. Fine(v, w1, W, G) /\ ConnSet(w, w1, s, NoConn) /\ ~NoConn.open
  BY NoConnIs, CloseFine
<1> HIDE DEF w1
<1>3. w.node[s] \in NodeType(s, W)  BY Parts
<1>4. n \in NodeType(s, W) /\ Mild(w.node[s], n)
  <2>1. n \in NodeType(s, W)  BY <1>3 DEF NodeType
  <2>2. /\ n.won = w.node[s].won /\ n.strayed = w.node[s].strayed /\ n.votes = w.node[s].votes
        /\ n.term = w.node[s].term /\ n.voted = w.node[s].voted /\ n.log = w.node[s].log
        /\ n.peers = w.node[s].peers /\ n.match = w.node[s].match /\ n.role = "Leader"
        /\ n.exec = w.node[s].exec /\ n.applied = w.node[s].applied
    BY <1>3 DEF NodeType
  <2> HIDE DEF n
  <2> QED  BY <1>3, <2>1, <2>2, LenNat, MildIs
<1> HIDE DEF n
<1>5. Fine(v, u, W, G) /\ NodeSet(w1, u, s, n)
  <2>1. Mild(w1.node[s], n) /\ ~w1.conn[s].open  BY <1>2, <1>4 DEF ConnSet
  <2> QED  BY <2>1, <1>2, <1>4, PutNode
<1> HIDE DEF u
<1> QED  BY <1>1, <1>2, <1>5 DEF n, NodeSet, ConnSet, Lead

(* The fields that messages, elections and match_index_ depend on. *)
Alike(n, m) ==
    /\ m.won = n.won /\ m.strayed = n.strayed /\ m.votes = n.votes /\ m.role = n.role
    /\ m.term = n.term /\ m.voted = n.voted /\ m.log = n.log
    /\ m.peers = n.peers /\ m.match = n.match /\ (Tidy(n) => Tidy(m))

LEMMA AlikeMild ==
    ASSUME NEW W, NEW s, NEW n \in NodeType(s, W), NEW m, Alike(n, m)
    PROVE  Mild(n, m)
<1>1. Gentle(n, m)  BY LenNat, GentleIs DEF Alike
<1> QED  BY <1>1 DEF Alike, Mild

LEMMA BecomeFollowerFine ==
    ASSUME NEW W \in Idx, NEW G, NEW v, NEW w, Fine(v, w, W, G), NEW s \in Server,
           NEW addr \in Others(s) \cup {Null}, NEW term \in Terms, NEW commit \in Idx,
           NEW loop \in BOOLEAN
    PROVE  Fine(v, become_follower(w, s, addr, term, commit, loop), W, G)
<1> DEFINE j == [to |-> addr, term |-> term, commit |-> commit, loop |-> loop]
           n == [w.node[s] EXCEPT !.joining = TRUE, !.join = j]
<1>1. become_follower(w, s, addr, term, commit, loop) = SetNode(w, s, n)
  <2>1. \A x : [w EXCEPT !.node[s].joining = TRUE, !.node[s].join = x]
               = [w EXCEPT !.node[s] = [w.node[s] EXCEPT !.joining = TRUE, !.join = x]]
    BY DEF Fine, Ok, Wd
  <2> QED  BY <2>1 DEF become_follower, SetNode
<1>2. w.node[s] \in NodeType(s, W)  BY Parts
<1>3. j \in JoinType(s)  BY DEF JoinType
<1> HIDE DEF j
<1>4. n \in NodeType(s, W) /\ Alike(w.node[s], n) /\ n.role = w.node[s].role
  BY <1>2, <1>3 DEF NodeType, Alike, Tidy, Runs, Over
<1> HIDE DEF n
<1>5. Mild(w.node[s], n)  BY <1>2, <1>4, AlikeMild
<1> QED  BY <1>1, <1>4, <1>5, PutNode

LEMMA ReturnFine ==
    ASSUME NEW W \in Idx, NEW G, NEW v, NEW w, Fine(v, w, W, G), NEW s \in Server
    PROVE  Fine(v, Return(w, s), W, G)
<1> DEFINE n == [w.node[s] EXCEPT !.joining = FALSE, !.join = NoJoin]
           c == Min({n.commit, Len(n.log)})
           booted == [n EXCEPT !.life = "up", !.commit = c]
           m == IF n.life = "boot" THEN apply_committed_entries(booted) ELSE n
<1>1. Return(w, s) = SetNode(w, s, m)  BY DEF Return, SetNode
<1>2. w.node[s] \in NodeType(s, W)  BY Parts
<1>3. NoJoin \in JoinType(s)  BY Constants DEF JoinType, NoJoin
<1>4. n \in NodeType(s, W) /\ Alike(w.node[s], n) /\ n.role = w.node[s].role
  BY <1>2, <1>3 DEF NodeType, Alike, Tidy, Runs, Over
<1> HIDE DEF n
<1>5. c \in Idx
  <2>1. Len(n.log) \in Idx  BY <1>4, LogLength
  <2>2. n.commit \in Idx  BY <1>4 DEF NodeType
  <2>3. n.commit \in Nat /\ Len(n.log) \in Nat  BY <2>1, <2>2, Constants
  <2>4. c \in Nat /\ c <= Len(n.log)  BY <2>3, OfTwo
  <2> HIDE DEF c
  <2>5. PICK k : k = Len(n.log)  OBVIOUS
  <2>6. k \in Nat /\ k <= MaxWrites  BY <2>1, <2>3, <2>5 DEF Idx
  <2> QED  BY <2>4, <2>5, <2>6, Constants DEF Idx
<1> HIDE DEF c
<1>6. booted \in NodeType(s, W) /\ Alike(n, booted) /\ booted.role = n.role
  BY <1>4, <1>5 DEF NodeType, Alike, Tidy, Runs, Over
<1> HIDE DEF booted
<1>7. m \in NodeType(s, W) /\ Alike(w.node[s], m) /\ m.role = w.node[s].role
  <2>1. RanWell(booted, apply_committed_entries(booted))  BY <1>6, ApplyRan
  <2>2. PICK z : z = apply_committed_entries(booted)  OBVIOUS
  <2>5. Ran(booted, z) /\ (Tidy(booted) => Tidy(z))  BY <2>1, <2>2 DEF RanWell
  <2>3. z \in NodeType(s, W) /\ Alike(booted, z) /\ z.role = booted.role
    BY <2>5, <1>6, RanIs DEF Alike
  <2>4. m \in {n, z}  BY <2>2
  <2> HIDE DEF m
  <2> QED  BY <2>3, <2>4, <1>4, <1>6 DEF Alike
<1> HIDE DEF m
<1>8. Mild(w.node[s], m)  BY <1>2, <1>7, AlikeMild
<1> QED  BY <1>1, <1>7, <1>8, PutNode

LEMMA AbandonedIs ==
    ASSUME NEW m \in Msg, m.type = "join"
    PROVE  Abandoned(m) \in Msg /\ ~IsBallot(Abandoned(m)) /\ m \in Asking /\ m.from # m.to
<1>1. m \in Asking /\ m.from # m.to
  BY DEF Msg, Request, Vote, NewMaster, Heard, Asking, Notice, Run
<1>2. Abandoned(m) \in Asking /\ Abandoned(m).from = m.from /\ Abandoned(m).to = m.to
  BY <1>1 DEF Abandoned, Asking
<1> QED  BY <1>1, <1>2 DEF Msg, IsBallot, Asking

LEMMA DieFine ==
    ASSUME NEW W \in Idx, NEW G, NEW v, NEW w, Fine(v, w, W, G), NEW s \in Server
    PROVE  Fine(v, Die(w, s), W, G)
<1> DEFINE n == [w.node[s] EXCEPT
                    !.life = "down", !.role = "Leader", !.votes = 0, !.peers = {}, !.next = NoMap,
                    !.match = NoMap, !.writing = "no", !.joining = FALSE, !.join = NoJoin]
           cf == [f \in Server |->
                    IF f = s THEN NoConn
                    ELSE IF w.conn[f].to = s THEN [NoConn EXCEPT !.to = s] ELSE w.conn[f]]
           left == {m \in w.msgs :
                      m.from # s /\ (m.type \in {"vote", "heard", "join"} => m.to # s)}
           ms == left \cup {Abandoned(m) : m \in {x \in Joins(w) : x.from = s /\ x.to # s}}
           w1 == Wd(w.node, cf, w.msgs)
           w2 == SetNode(w1, s, n)
<1>1. Die(w, s) = Wd([w.node EXCEPT ![s] = n], cf, ms)  BY DEF Die, Wd
<1>2. \A f \in Server : /\ cf[f] \in ConnType(f, W) /\ (f \in G => Narrow(w, f, cf[f]))
                        /\ Quotes(v, cf[f])
  <2> SUFFICES ASSUME NEW f \in Server
               PROVE  /\ cf[f] \in ConnType(f, W) /\ (f \in G => Narrow(w, f, cf[f]))
                      /\ Quotes(v, cf[f])
    OBVIOUS
  <2>1. CASE f = s
    <3>1. cf[f] = NoConn  BY <2>1
    <3> HIDE DEF cf
    <3> QED  BY <3>1, NoConnIs, EmptyQuotes DEF Narrow
  <2>2. CASE f # s /\ w.conn[f].to = s
    <3>1. s \in Others(f) \cup {Null}  BY <2>2 DEF Others
    <3>2. PICK c : c = [NoConn EXCEPT !.to = s]  OBVIOUS
    <3>3. c \in ConnType(f, W) /\ ~c.open /\ c.down = <<>>  BY <3>1, <3>2, ClosedIs
    <3>4. cf[f] = c  BY <3>2, <2>2
    <3>5. Quotes(v, c)  BY <3>3, EmptyQuotes
    <3> HIDE DEF cf
    <3> QED  BY <3>3, <3>4, <3>5 DEF Narrow
  <2>3. CASE f # s /\ w.conn[f].to # s
    <3>1. cf[f] = w.conn[f]  BY <2>3
    <3> HIDE DEF cf
    <3>2. f \in G => Narrow(w, f, w.conn[f])  BY SomeOk
    <3>3. w.conn[f] \in ConnType(f, W)  BY Parts
    <3>4. Quotes(v, w.conn[f])  BY OldQuotes
    <3> QED  BY <3>1, <3>2, <3>3, <3>4
  <2> QED  BY <2>1, <2>2, <2>3
<1>3. cf = [f \in Server |-> cf[f]] /\ cf[s] = NoConn  OBVIOUS
<1> HIDE DEF cf
<1>4. Fine(v, w1, W, G) /\ w1.node = w.node /\ w1.conn = cf /\ w1.msgs = w.msgs
  BY <1>2, <1>3, PutConns
<1> HIDE DEF w1
<1>5. w.node[s] \in NodeType(s, W)  BY Parts
<1>6. n \in NodeType(s, W) /\ n.won = w.node[s].won /\ n.strayed = w.node[s].strayed
      /\ n.votes = 0 /\ n.term = w.node[s].term /\ n.voted = w.node[s].voted
      /\ n.log = w.node[s].log /\ n.match = NoMap /\ n.role = "Leader"
      /\ n.exec = w.node[s].exec /\ n.applied = w.node[s].applied
  <2>1. NoJoin \in JoinType(s)  BY Constants DEF JoinType, NoJoin
  <2>2. \A S : NoMap \in Tables(S)  BY NoMapIs
  <2>3. "no" \in Stages(s)  BY DEF Stages
  <2> QED  BY <1>5, <2>1, <2>2, <2>3 DEF NodeType
<1> HIDE DEF n
<1>7. Mild(w.node[s], n)
  <2>1. n.votes <= w.node[s].votes  BY <1>5, <1>6, LenNat
  <2> QED  BY <1>5, <1>6, <2>1, LenNat, MildIs
<1>8. Fine(v, w2, W, G) /\ NodeSet(w1, w2, s, n)
  <2>1. ~w1.conn[s].open  BY <1>3, <1>4, NoConnIs
  <2>2. Mild(w1.node[s], n)  BY <1>4, <1>7
  <2> QED  BY <2>1, <2>2, <1>4, <1>6, PutNode
<1> HIDE DEF w2
<1>9. w2.node = [w.node EXCEPT ![s] = n] /\ w2.conn = cf /\ w2.msgs = w.msgs
  BY <1>4, <1>8 DEF NodeSet
<1>10. ms \subseteq Msg /\ \A m \in ms : IsBallot(m) => m \in w.msgs
  <2>1. w.msgs \subseteq Msg  BY SomeOk
  <2>2. ASSUME NEW m \in {x \in Joins(w) : x.from = s /\ x.to # s}
        PROVE  Abandoned(m) \in Msg /\ ~IsBallot(Abandoned(m))
    BY <2>1, AbandonedIs DEF Joins
  <2> QED  BY <2>1, <2>2
<1> HIDE DEF ms
<1>11. Fine(v, SetMsgs(w2, ms), W, G)  BY <1>8, <1>9, <1>10, PutMsgs
<1>12. SetMsgs(w2, ms) = Wd([w.node EXCEPT ![s] = n], cf, ms)
  <2>1. w2 = Wd(w2.node, w2.conn, w2.msgs)  BY <1>8 DEF Fine, Ok
  <2>2. PICK nf, c0, m0 : nf = w2.node /\ c0 = w2.conn /\ m0 = w2.msgs  OBVIOUS
  <2>3. [Wd(nf, c0, m0) EXCEPT !.msgs = ms] = Wd(nf, c0, ms)  BY DEF Wd
  <2> QED  BY <2>1, <2>2, <2>3, <1>9 DEF SetMsgs
<1> QED  BY <1>1, <1>11, <1>12


-----------------------------------------------------------------------------
(* Joining. *)

LEMMA FollowIs ==
    ASSUME NEW W \in Idx, NEW s, NEW n \in NodeType(s, W)
    PROVE  LET m == Follow(n)
           IN  /\ m \in NodeType(s, W) /\ Mild(n, m) /\ m.role = "Follower"
               /\ m.match = NoMap /\ m.join = n.join /\ m.log = n.log /\ m.peers = n.peers
<1> DEFINE j == n.join
           t == IF j.term > n.term THEN j.term ELSE n.term
           d == IF j.term > n.term THEN FALSE ELSE n.voted
           m == [n EXCEPT !.role = "Follower", !.leader = j.to, !.nodes = {}, !.commit = j.commit,
                          !.term = t, !.voted = d, !.next = NoMap, !.match = NoMap]
<1>1. Follow(n) = m  BY DEF Follow
<1>2. j \in JoinType(s) /\ n.term \in Terms /\ n.voted \in BOOLEAN  BY DEF NodeType
<1>3. j.to \in Others(s) \cup {Null} /\ j.commit \in Idx /\ j.term \in Terms
  BY <1>2 DEF JoinType
<1>4. t \in Terms /\ d \in BOOLEAN /\ (n.term < t \/ (t = n.term /\ d = n.voted))
  <2>1. j.term \in Nat /\ n.term \in Nat  BY <1>2, <1>3, Constants
  <2> QED  BY <1>2, <1>3, <2>1
<1> HIDE DEF t, d, j
<1>5. m \in NodeType(s, W)
  <2>1. \A S : NoMap \in Tables(S)  BY NoMapIs
  <2> QED  BY <1>3, <1>4, <2>1 DEF NodeType
<1>6. /\ m.role = "Follower" /\ m.match = NoMap /\ m.join = n.join /\ m.log = n.log
      /\ m.peers = n.peers /\ m.won = n.won /\ m.strayed = n.strayed /\ m.votes = n.votes
      /\ m.term = t /\ m.voted = d /\ m.exec = n.exec /\ m.applied = n.applied
  BY DEF NodeType
<1> HIDE DEF m
<1>7. Mild(n, m)  BY <1>4, <1>6, LenNat, MildIs
<1> QED  BY <1>1, <1>5, <1>6, <1>7

LEMMA ThrowsFine ==
    ASSUME NEW W \in Idx, NEW G, NEW v, NEW w, Fine(v, w, W, G), NEW s \in Server,
           NEW p \in Server
    PROVE  Fine(v, Throws(w, s, p), W, G)
<1> DEFINE m == [type |-> "query", leader |-> w.node[s].leader]
           told == send(w, p, s, m)
<1>1. m \in DownType(W)
  <2>1. w.node[s] \in NodeType(s, W)  BY Parts
  <2>2. w.node[s].leader \in Server \cup {Null}  BY <2>1 DEF NodeType, Others
  <2> QED  BY <2>2 DEF DownType
<1>2. Throws(w, s, p) \in {Die(told, s), Return(told, s)}  BY DEF Throws
<1>5. Cites(v, m)  BY CitesIs
<1> HIDE DEF m
<1>3. Fine(v, told, W, G)  BY <1>1, <1>5, SendFine
<1> HIDE DEF told
<1>4. Fine(v, Die(told, s), W, G) /\ Fine(v, Return(told, s), W, G)
  BY <1>3, DieFine, ReturnFine
<1> QED  BY <1>2, <1>4

(* The leader takes the follower in: it thinks nothing of its log yet. *)
LEMMA JoinFine ==
    ASSUME NEW W \in Idx, NEW G, NEW v, NEW w, Fine(v, w, W, G), NEW l \in Server,
           NEW f \in Server, f # l, NEW k, k \in Asking, k.from = f, k.to = l, NEW back \in BOOLEAN
    PROVE  LET u == handle_join_cluster(w, k, back)
           IN  /\ Fine(v, u, W, G) /\ u.node[f] = w.node[f] /\ At(u.node[l].match, f) = 0
               /\ u.conn[f].to = w.conn[f].to /\ u.conn[f].up = w.conn[f].up
               /\ u.conn[f].open = w.conn[f].open
<1> DEFINE n == w.node[l]
           c == k.index
           next == IF back THEN Without(n.next, f) ELSE With(n.next, f, c + 1)
           match == IF back THEN Without(n.match, f) ELSE With(n.match, f, 0)
           peers == IF back THEN n.peers ELSE n.peers \cup {f}
           jn == Readmit(n, f, c, back)
           w2 == SetNode(w, l, jn)
           u == send_append_entries(w2, l, f)
<1>3. handle_join_cluster(w, k, back) = u  BY DEF handle_join_cluster, SetNode
<1>4. n \in NodeType(l, W)  BY Parts
<1>5. c + 1 \in 0..(MaxWrites + 1)
  <2>1. c \in Idx  BY DEF Asking
  <2> HIDE DEF c
  <2> QED  BY <2>1, Constants DEF Idx
<1> HIDE DEF c
<1>6. next \in Tables(0..(MaxWrites + 1)) /\ match \in Tables(Idx)
      /\ \A g : At(match, g) = IF g = f THEN 0 ELSE At(n.match, g)
  <2>1. n.next \in Tables(0..(MaxWrites + 1)) /\ n.match \in Tables(Idx)  BY <1>4 DEF NodeType
  <2>2. 0..(MaxWrites + 1) \in SUBSET Nat /\ Idx \in SUBSET Nat /\ 0 \in Idx  BY Constants
  <2>3. CASE ~back
    <3>1. next = With(n.next, f, c + 1) /\ match = With(n.match, f, 0)  BY <2>3
    <3> HIDE DEF next, match, n
    <3>2. next \in Tables(0..(MaxWrites + 1))  BY <2>1, <2>2, <3>1, <1>5, WithIs
    <3>3. match \in Tables(Idx) /\ \A g : At(match, g) = IF g = f THEN 0 ELSE At(n.match, g)
      <4>1. PICK S, x, y : S = Idx /\ x = 0 /\ y = n.match  OBVIOUS
      <4>2. S \in SUBSET Nat /\ x \in S /\ y \in Tables(S)  BY <2>1, <2>2, <4>1
      <4>3. /\ With(y, f, x) \in Tables(S)
            /\ \A g : At(With(y, f, x), g) = IF g = f THEN x ELSE At(y, g)
        BY <4>2, WithIs
      <4> QED  BY <3>1, <4>1, <4>3
    <3> QED  BY <3>2, <3>3
  <2>4. CASE back
    <3>1. next = Without(n.next, f) /\ match = Without(n.match, f)  BY <2>4
    <3> HIDE DEF next, match, n
    <3>2. next \in Tables(0..(MaxWrites + 1))  BY <2>1, <2>2, <3>1, WithoutIs
    <3>3. match \in Tables(Idx) /\ \A g : At(match, g) = IF g = f THEN 0 ELSE At(n.match, g)
      BY <2>1, <2>2, <3>1, WithoutIs
    <3> QED  BY <3>2, <3>3
  <2> QED  BY <2>3, <2>4
<1>0. jn = [n EXCEPT !.next = next, !.match = match, !.nodes = n.nodes \cup {f},
                     !.peers = peers]
  <2>1. CASE back
    <3>1. jn = [n EXCEPT !.next = next, !.match = match, !.nodes = n.nodes \cup {f}]
      BY <2>1 DEF Readmit
    <3>2. peers = n.peers  BY <2>1
    <3> HIDE DEF jn, next, match, n, peers
    <3>3. PICK x, y, z : x = next /\ y = match /\ z = n.nodes \cup {f}  OBVIOUS
    <3> QED  BY <3>1, <3>2, <3>3, <1>4 DEF NodeType
  <2>2. CASE ~back  BY <2>2 DEF Readmit, Admit
  <2> QED  BY <2>1, <2>2
<1>1. peers \subseteq n.peers \cup {f} /\ peers \in SUBSET Others(l)
  <2>1. f \in Others(l)  BY DEF Others
  <2>2. n.peers \in SUBSET Others(l)  BY <1>4 DEF NodeType
  <2> QED  BY <2>1, <2>2
<1> HIDE DEF next, match, jn, peers
<1>7. jn \in NodeType(l, W)
  <2>1. n.nodes \cup {f} \in SUBSET Others(l)  BY <1>4 DEF NodeType, Others
  <2>2. PICK d : d = n.nodes \cup {f}  OBVIOUS
  <2>3. jn = [n EXCEPT !.next = next, !.match = match, !.nodes = d, !.peers = peers]
    BY <1>0, <2>2
  <2> HIDE DEF n
  <2>4. PICK n1 : n1 = [n EXCEPT !.next = next]  OBVIOUS
  <2>5. n1 \in NodeType(l, W)  BY <1>4, <1>6, <2>4 DEF NodeType
  <2>6. PICK n2 : n2 = [n1 EXCEPT !.match = match]  OBVIOUS
  <2>7. n2 \in NodeType(l, W)  BY <1>6, <2>5, <2>6 DEF NodeType
  <2>8. PICK n3 : n3 = [n2 EXCEPT !.nodes = d]  OBVIOUS
  <2>9. n3 \in NodeType(l, W)  BY <2>1, <2>2, <2>7, <2>8 DEF NodeType
  <2>10. [n3 EXCEPT !.peers = peers] \in NodeType(l, W)  BY <1>1, <2>9 DEF NodeType
  <2> QED  BY <2>3, <2>4, <2>6, <2>8, <2>10
<1>8. /\ jn.won = n.won /\ jn.strayed = n.strayed /\ jn.votes = n.votes /\ jn.term = n.term
      /\ jn.voted = n.voted /\ jn.log = n.log /\ jn.peers \subseteq n.peers \cup {f}
      /\ jn.match = match /\ jn.role = n.role /\ jn.exec = n.exec /\ jn.applied = n.applied
  BY <1>0, <1>1, <1>4 DEF NodeType
<1>9. Mild(n, jn)
  <2>1. \A g : At(n.match, g) \in Nat
    <3>1. n.match \in Tables(Idx) /\ Idx \in SUBSET Nat  BY <1>4, Constants DEF NodeType
    <3> QED  BY <3>1, AtIs
  <2>2. \A g \in jn.peers : \/ At(jn.match, g) = 0
                            \/ g \in n.peers /\ At(jn.match, g) <= At(n.match, g)
    BY <2>1, <1>6, <1>8
  <2>3. Later(n, jn) /\ Len(n.log) <= Len(jn.log)  BY <1>4, <1>8, LenNat DEF Later
  <2>4. Tidy(n) => Tidy(jn)  BY <1>8, SameTidy
  <2> QED  BY <2>2, <2>3, <2>4, <1>8 DEF Mild, Gentle
<1> HIDE DEF n
<1>10. Fine(v, w2, W, G) /\ NodeSet(w, w2, l, jn)  BY <1>7, <1>8, <1>9, PutNode DEF n
<1> HIDE DEF w2
<1>11. Fine(v, u, W, G) /\ SameLinks(w2, u)  BY <1>10, SendEntriesFine
<1> HIDE DEF u
<1>12. u.node[f] = w.node[f] /\ u.node[l] = jn
  <2>1. u.node[f] = w2.node[f] /\ u.node[l] = jn  BY <1>10, <1>11 DEF SameLinks, NodeSet
  <2>2. w2.node[f] = w.node[f]  BY <1>10 DEF NodeSet
  <2> QED  BY <2>1, <2>2
<1>13. u.conn[f].to = w.conn[f].to /\ u.conn[f].up = w.conn[f].up /\ u.conn[f].open = w.conn[f].open
  BY <1>10, <1>11 DEF SameLinks, NodeSet
<1> QED  BY <1>3, <1>6, <1>8, <1>11, <1>12, <1>13

LEMMA RedirectFine ==
    ASSUME NEW W \in Idx, NEW G, NEW v, NEW w, Fine(v, w, W, G), NEW s \in Server,
           NEW addr \in Server \cup {Null}, NEW loop \in BOOLEAN
    PROVE  Fine(v, handle_query_leader_response(w, s, addr, loop), W, G)
<1>1. CASE addr = Null  BY <1>1, ReturnFine DEF handle_query_leader_response
<1>2. CASE addr = s
  <2>1. Fine(v, become_leader(w, s), W, G)  BY BecomeLeaderFine
  <2>2. Fine(v, Return(become_leader(w, s), s), W, G)  BY <2>1, ReturnFine
  <2> QED  BY <1>2, <2>2, Constants DEF handle_query_leader_response
<1>3. CASE addr # Null /\ addr # s
  <2>1. addr \in Others(s) \cup {Null}  BY <1>3 DEF Others
  <2>2. Fine(v, become_follower(w, s, addr, 0, 0, loop), W, G)
    BY <2>1, Constants, BecomeFollowerFine
  <2> QED  BY <1>3, <2>2 DEF handle_query_leader_response
<1> QED  BY <1>1, <1>2, <1>3

-----------------------------------------------------------------------------
(* Replication. *)

LEMMA StoreIs ==
    ASSUME NEW W \in Idx, NEW log \in Seq(Entry), Len(log) <= W, NEW m \in AppendType(W),
           m.prev > 0 => m.prev \in DOMAIN log
    PROVE  Store(log, m) \in Seq(Entry) /\ Len(log) <= Len(Store(log, m)) /\ Len(Store(log, m)) <= W
<1> DEFINE es == m.entries
           k == Len(log) - m.prev
           new == SubSeq(es, k + 1, Len(es))
<1>1. es \in Seq(Entry) /\ m.prev \in Idx /\ (es # <<>> => m.prev + Len(es) <= W)
  BY DEF AppendType
<1>2. Len(log) \in Nat /\ Len(es) \in Nat /\ m.prev \in Nat /\ W \in Nat
  <2>1. Len(es) \in Nat  BY <1>1
  <2>2. m.prev \in Nat /\ W \in Nat  BY <1>1, Constants
  <2> QED  BY <2>1, <2>2
<1>3. k \in Nat /\ Len(log) = m.prev + k
  <2>1. m.prev <= Len(log)
    <3>1. DOMAIN log = 1..Len(log)  OBVIOUS
    <3> QED  BY <1>2, <3>1
  <2> QED  BY <1>2, <2>1
<1> HIDE DEF k
<1>4. new \in Seq(Entry) /\ Len(new) = (IF k + 1 <= Len(es) THEN Len(es) - k ELSE 0)
  <2> HIDE DEF es
  <2>1. \A j \in (k + 1)..Len(es) : es[j] \in Entry  BY <1>1, <1>2, <1>3
  <2> QED  BY <1>2, <1>3, <2>1
<1>5. Store(log, m) = log \o new  BY DEF Store, k
<1>6. es = <<>> => Len(es) = 0  OBVIOUS
<1> HIDE DEF new, es
<1>7. log \o new \in Seq(Entry) /\ Len(log \o new) = Len(log) + Len(new)
  BY <1>4, ConcatProperties
<1>8. Len(new) \in Nat /\ Len(log) + Len(new) <= W  BY <1>1, <1>2, <1>3, <1>4, <1>6
<1> QED  BY <1>2, <1>5, <1>7, <1>8

(* What is stored comes from where the log and the message come from. *)
LEMMA StoreCopies ==
    ASSUME NEW W \in Idx, NEW log \in Seq(Entry), NEW m \in AppendType(W),
           m.prev > 0 => m.prev \in DOMAIN log
    PROVE  LET new == Store(log, m)
           IN  /\ \A i \in 1..Len(log) : new[i] = log[i]
               /\ \A L \in Seq(Entry) : Copy(log, L) /\ Excerpt(m, L) => Copy(new, L)
<1> DEFINE es == m.entries
           k == Len(log) - m.prev
           end == SubSeq(es, k + 1, Len(es))
           new == log \o end
<1>1. es \in Seq(Entry) /\ m.prev \in Idx /\ m.type = "append"  BY DEF AppendType
<1>2. Len(log) \in Nat /\ Len(es) \in Nat /\ m.prev \in Nat
  <2>1. Len(es) \in Nat  BY <1>1
  <2>2. m.prev \in Nat  BY <1>1, Constants
  <2> QED  BY <2>1, <2>2
<1>3. k \in Nat /\ Len(log) = m.prev + k
  <2>1. m.prev <= Len(log)
    <3>1. DOMAIN log = 1..Len(log)  OBVIOUS
    <3> QED  BY <1>2, <3>1
  <2>2. PICK x \in Nat, y \in Nat : x = Len(log) /\ y = m.prev  BY <1>2
  <2>3. x - y \in Nat /\ x = y + (x - y)  BY <2>1, <2>2
  <2> QED  BY <2>2, <2>3
<1>4. Store(log, m) = new  BY DEF Store
<1> HIDE DEF k
<1>5. /\ end \in Seq(Entry) /\ Len(end) = (IF k + 1 <= Len(es) THEN Len(es) - k ELSE 0)
      /\ \A j \in 1..Len(end) : end[j] = es[k + j]
  <2> HIDE DEF es
  <2>1. \A j \in (k + 1)..Len(es) : es[j] \in Entry  BY <1>1, <1>2, <1>3
  <2>2. end \in Seq(Entry) /\ Len(end) = (IF k + 1 <= Len(es) THEN Len(es) - k ELSE 0)
    BY <1>2, <1>3, <2>1
  <2>4. PICK q, x : q = end /\ x = Len(es)  OBVIOUS
  <2>5. q = SubSeq(es, k + 1, x) /\ Len(q) = (IF k + 1 <= x THEN x - k ELSE 0) /\ x \in Nat
    BY <1>2, <2>2, <2>4
  <2>6. ASSUME NEW j \in 1..Len(q) PROVE q[j] = es[k + j]
    <3>1. j \in 1..(x + 1 - (k + 1)) /\ (k + 1) + j - 1 = k + j  BY <1>3, <2>5
    <3>2. SubSeq(es, k + 1, x)[j] = es[(k + 1) + j - 1]  BY <1>3, <2>5, <3>1 DEF SubSeq
    <3> QED  BY <2>5, <3>1, <3>2
  <2>3. \A j \in 1..Len(end) : end[j] = es[k + j]  BY <2>4, <2>6
  <2> QED  BY <2>2, <2>3
<1> HIDE DEF end, es
<1>6. /\ Len(new) = Len(log) + Len(end) /\ Len(end) \in Nat
      /\ \A i \in 1..Len(new) : new[i] = IF i <= Len(log) THEN log[i] ELSE end[i - Len(log)]
  BY <1>5, ConcatProperties
<1> HIDE DEF new
<1>7. ASSUME NEW i \in 1..Len(log) PROVE new[i] = log[i]
  <2>1. i \in 1..Len(new) /\ i <= Len(log)  BY <1>2, <1>6
  <2> QED  BY <1>6, <2>1
<1>8. ASSUME NEW L \in Seq(Entry), Copy(log, L), Excerpt(m, L) PROVE Copy(new, L)
  <2>1. Len(log) <= Len(L) /\ \A i \in 1..Len(log) : log[i] = L[i]  BY <1>8 DEF Copy
  <2>2. \A j \in 1..Len(es) : m.prev + j <= Len(L) /\ es[j] = L[m.prev + j]
    <3>1. DOMAIN es = 1..Len(es)  BY <1>1
    <3> QED  BY <3>1, <1>1, <1>8 DEF Excerpt, es
  <2>3. ASSUME NEW j \in 1..Len(end)
        PROVE  Len(log) + j <= Len(L) /\ end[j] = L[Len(log) + j]
    <3>1. k + j \in 1..Len(es) /\ m.prev + (k + j) = Len(log) + j  BY <1>2, <1>3, <1>5
    <3>2. end[j] = es[k + j]  BY <1>5
    <3>3. m.prev + (k + j) <= Len(L) /\ es[k + j] = L[m.prev + (k + j)]  BY <2>2, <3>1
    <3> QED  BY <3>1, <3>2, <3>3
  <2>4. Len(L) \in Nat  OBVIOUS
  <2>5. Len(new) <= Len(L)
    <3>1. CASE Len(end) = 0  BY <1>2, <1>6, <2>1, <3>1
    <3>2. CASE Len(end) > 0
      <4>1. Len(end) \in 1..Len(end)  BY <1>6, <3>2
      <4> QED  BY <4>1, <1>6, <2>3
    <3> QED  BY <3>1, <3>2, <1>6
  <2>6. ASSUME NEW i \in 1..Len(new) PROVE new[i] = L[i]
    <3>1. CASE i <= Len(log)  BY <1>2, <1>6, <2>1, <3>1
    <3>2. CASE ~(i <= Len(log))
      <4>1. i - Len(log) \in 1..Len(end) /\ Len(log) + (i - Len(log)) = i
        BY <1>2, <1>6, <3>2
      <4>2. new[i] = end[i - Len(log)]  BY <1>6, <3>2
      <4>3. end[i - Len(log)] = L[Len(log) + (i - Len(log))]  BY <2>3, <4>1
      <4> QED  BY <4>1, <4>2, <4>3
    <3> QED  BY <3>1, <3>2
  <2> QED  BY <2>5, <2>6 DEF Copy
<1> QED  BY <1>4, <1>7, <1>8

LEMMA AppendFine ==
    ASSUME NEW W \in Idx, NEW G, NEW v, NEW w, Fine(v, w, W, G), NEW f \in Server,
           NEW m \in AppendType(W), w.conn[f].open, Cites(v, m), v.node[f] = w.node[f]
    PROVE  Fine(v, handle_append_entries(w, f, m), W, G)
<1> DEFINE n == w.node[f]
           old == m.term < n.term
           matches == m.prev > 0 => m.prev \in DOMAIN n.log /\ n.log[m.prev].term = m.prev_term
           heard == [n EXCEPT !.role = "Follower", !.term = m.term]
           log == Store(n.log, m)
           commit == CommitHeard(n, log, m)
           stored == [heard EXCEPT !.log = log, !.commit = commit]
           after == IF old THEN n ELSE IF matches THEN stored ELSE heard
           response == [term |-> after.term, success |-> ~old /\ matches, index |-> Len(after.log)]
           w1 == SetNode(w, f, after)
           c == [w1.conn[f] EXCEPT !.up = Append(w1.conn[f].up, response)]
           w2 == SetConn(w1, f, c)
<1>1. handle_append_entries(w, f, m) \in {Die(w, f), w2}
  <2>1. \A a, r : [w EXCEPT !.node[f] = a, !.conn[f].up = Append(@, r)]
                  = SetConn(SetNode(w, f, a), f, [SetNode(w, f, a).conn[f] EXCEPT
                        !.up = Append(SetNode(w, f, a).conn[f].up, r)])
    BY DEF SetNode, SetConn, Fine, Ok, Wd
  <2>2. [w EXCEPT !.node[f] = after, !.conn[f].up = Append(@, response)] = w2
    <3> HIDE DEF after, response
    <3> QED  BY <2>1
  <2> QED  BY <2>2 DEF handle_append_entries
<1>2. n \in NodeType(f, W) /\ w.conn[f] \in ConnType(f, W)  BY Parts
<1>3. m.term \in Terms /\ m.commit \in Idx  BY DEF AppendType
<1> HIDE DEF n
<1>4. ~old => heard \in NodeType(f, W)  BY <1>2, <1>3 DEF NodeType
<1>5. /\ heard.won = n.won /\ heard.strayed = n.strayed /\ heard.votes = n.votes
      /\ heard.voted = n.voted /\ heard.log = n.log /\ heard.peers = n.peers
      /\ heard.match = n.match /\ heard.role = "Follower" /\ heard.term = m.term
      /\ heard.exec = n.exec /\ heard.applied = n.applied
  BY <1>2 DEF NodeType
<1>6. ~old => m.term \in Nat /\ (n.term < m.term \/ n.term = m.term)
  <2>1. m.term \in Nat  BY <1>3, Constants
  <2>2. n.term \in Nat  BY <1>2, LenNat
  <2> QED  BY <2>1, <2>2
<1> HIDE DEF heard
<1>7. ASSUME ~old, matches
      PROVE  /\ stored \in NodeType(f, W) /\ Len(n.log) <= Len(stored.log)
             /\ stored.won = heard.won /\ stored.strayed = heard.strayed
             /\ stored.votes = heard.votes /\ stored.voted = heard.voted
             /\ stored.term = heard.term /\ stored.peers = heard.peers
             /\ stored.match = heard.match /\ stored.role = "Follower"
             /\ stored.log = log /\ stored.exec = n.exec /\ stored.applied = n.applied
  <2>1. n.log \in Seq(Entry) /\ Len(n.log) <= W  BY <1>2 DEF NodeType
  <2>4. heard \in NodeType(f, W) /\ n.commit \in Idx  BY <1>2, <1>7, <1>4 DEF NodeType
  <2>2. log \in Seq(Entry) /\ Len(n.log) <= Len(log) /\ Len(log) <= W  BY <1>7, <2>1, StoreIs
  <2> HIDE DEF log
  <2>3. commit \in Idx
    <3>1. n.commit \in Nat /\ m.commit \in Nat  BY <2>4, <1>3, Constants
    <3>6. Len(log) \in Nat  BY <2>2
    <3>2. PICK k : k = Min({m.commit, Len(log)})  OBVIOUS
    <3>3. k \in Nat /\ k <= m.commit  BY <3>1, <3>2, <3>6, OfTwo
    <3>4. commit \in {n.commit, k} /\ commit \in Nat  BY <3>1, <3>2, <3>3, OfTwo DEF CommitHeard
    <3> HIDE DEF commit
    <3>5. n.commit <= MaxWrites /\ m.commit <= MaxWrites /\ MaxWrites \in Nat
      BY <2>4, <1>3, Constants DEF Idx
    <3> QED  BY <3>1, <3>3, <3>4, <3>5 DEF Idx
  <2> HIDE DEF commit
  <2> QED  BY <2>2, <2>3, <2>4, <1>5 DEF NodeType
<1> HIDE DEF stored, matches
<1>14. ASSUME ~old, matches PROVE Apt(v, f, stored)
  <2>1. n.log \in Seq(Entry) /\ n.exec \in Seq(1..MaxWrites) /\ n.applied \in Idx
    BY <1>2 DEF NodeType
  <2>2. m.prev > 0 => m.prev \in DOMAIN n.log  BY <1>14 DEF matches
  <2>3. /\ \A i \in 1..Len(n.log) : log[i] = n.log[i]
        /\ \A L \in Seq(Entry) : Copy(n.log, L) /\ Excerpt(m, L) => Copy(log, L)
    BY <2>1, <2>2, StoreCopies
  <2> HIDE DEF log
  <2>4. ASSUME NEW L \in Seq(Entry), Copied(v, L) PROVE Copy(log, L)
    <3>1. Copied(w, L)  BY <2>4 DEF Fine, Echo
    <3>2. Copy(n.log, L)  BY <3>1 DEF Copied, n
    <3>3. Excerpt(m, L)  BY <2>4 DEF Cites
    <3> QED  BY <2>3, <3>2, <3>3
  <2>5. stored.log = log /\ stored.exec = n.exec /\ stored.applied = n.applied
        /\ Len(n.log) <= Len(log)
    BY <1>7, <1>14
  <2>6. Len(n.log) \in Nat /\ Len(log) \in Nat /\ n.applied \in Nat /\ Len(n.exec) \in Nat
    <3>1. Len(stored.log) \in Nat  BY <1>7, <1>14, LenNat
    <3>2. n.applied \in Nat  BY <2>1, Constants
    <3> QED  BY <2>1, <2>5, <3>1, <3>2
  <2>7. ASSUME Runs(n) PROVE Runs(stored)
    <3>1. n.applied = Len(n.exec) /\ n.applied <= Len(n.log)  BY <2>7 DEF Runs
    <3>2. n.applied <= Len(log)  BY <2>5, <2>6, <3>1
    <3>3. ASSUME NEW i \in 1..Len(n.exec) PROVE n.exec[i] = log[i].id
      <4>1. i \in 1..Len(n.log)  BY <2>6, <3>1
      <4>2. n.exec[i] = n.log[i].id  BY <2>7 DEF Runs
      <4> QED  BY <2>3, <4>1, <4>2
    <3> QED  BY <2>5, <3>1, <3>2, <3>3 DEF Runs
  <2> QED  BY <2>4, <2>5, <2>7 DEF Apt, Tidy, n
<1>8. /\ after \in NodeType(f, W) /\ Gentle(n, after) /\ Apt(v, f, after)
      /\ after.role = "Leader" => n.role = "Leader"
  <2>1. CASE old
    <3>1. after = n  BY <2>1
    <3>2. Alike(n, n)  BY DEF Alike
    <3>3. Mild(n, n)  BY <3>2, <1>2, AlikeMild
    <3>4. Apt(v, f, n)  BY AptIs DEF n
    <3> QED  BY <3>1, <3>3, <3>4, <1>2 DEF Mild
  <2>2. CASE ~old /\ matches
    <3>1. after = stored  BY <2>2
    <3>2. Gentle(n, stored)  BY <2>2, <1>2, <1>5, <1>6, <1>7, LenNat, GentleIs
    <3> QED  BY <3>1, <3>2, <2>2, <1>7, <1>14
  <2>3. CASE ~old /\ ~matches
    <3>1. after = heard  BY <2>3
    <3>2. Mild(n, heard)  BY <2>3, <1>2, <1>5, <1>6, LenNat, MildIs
    <3>3. Tidy(n) => Tidy(heard)  BY <1>5, SameTidy
    <3>4. Apt(v, f, heard)  BY <3>3, <1>5, AptIs DEF n
    <3> QED  BY <3>1, <3>2, <3>4, <2>3, <1>4, <1>5 DEF Mild
  <2> QED  BY <2>1, <2>2, <2>3
<1>9. response \in UpType /\ response.index = Len(after.log)
  <2>1. Len(after.log) \in Idx  BY <1>8, LogLength
  <2>2. after.term \in Terms  BY <1>8 DEF NodeType
  <2> HIDE DEF after
  <2> QED  BY <2>1, <2>2 DEF UpType
<1> HIDE DEF after, response
<1>10. Fine(v, w1, W, G) /\ NodeSet(w, w1, f, after)  BY <1>8, PutGentle DEF n
<1> HIDE DEF w1
<1>11. c \in ConnType(f, W) /\ (f \in G => Narrow(w1, f, c)) /\ Quotes(v, c)
  <2>1. w1.conn[f] \in ConnType(f, W) /\ w1.node[f] = after /\ w1.conn[f].open
    BY <1>10, Parts DEF NodeSet
  <2>2. PICK q : q = Append(w1.conn[f].up, response)  OBVIOUS
  <2>3. q \in Seq(UpType) /\ \A i \in DOMAIN q : q[i] = response \/
            (i \in DOMAIN w1.conn[f].up /\ q[i] = w1.conn[f].up[i])
    <3>1. w1.conn[f].up \in Seq(UpType)  BY <2>1 DEF ConnType
    <3> QED  BY <2>2, <3>1, <1>9, AppendProperties
  <2>4. c \in ConnType(f, W) /\ c.up = q /\ c.to = w1.conn[f].to /\ c.open = w1.conn[f].open
        /\ c.down = w1.conn[f].down
    BY <2>1, <2>2, <2>3 DEF ConnType
  <2>5. f \in G => Narrow(w1, f, w1.conn[f])  BY <1>10, SomeOk
  <2>6. Len(after.log) \in Nat  BY <1>8, LenNat
  <2>7. Quotes(v, w1.conn[f])  BY <1>10, OldQuotes
  <2> HIDE DEF c
  <2>8. Quotes(v, c)  BY <2>4, <2>7 DEF Quotes
  <2> QED  BY <2>1, <2>3, <2>4, <2>5, <2>6, <2>8, <1>9 DEF Narrow
<1> HIDE DEF c
<1>12. Fine(v, w2, W, G)  BY <1>10, <1>11, PutConn
<1>13. Fine(v, Die(w, f), W, G)  BY DieFine
<1> HIDE DEF w2
<1> QED  BY <1>1, <1>12, <1>13


LEMMA NodesFine ==
    ASSUME NEW W \in Idx, NEW G, NEW v, NEW w, Fine(v, w, W, G), NEW s \in Server,
           NEW nodes \in SUBSET Others(s)
    PROVE  Fine(v, SetNode(w, s, [w.node[s] EXCEPT !.nodes = nodes]), W, G)
<1> DEFINE n == [w.node[s] EXCEPT !.nodes = nodes]
<1>1. w.node[s] \in NodeType(s, W)  BY Parts
<1>2. n \in NodeType(s, W) /\ Alike(w.node[s], n) /\ n.role = w.node[s].role
  BY <1>1 DEF NodeType, Alike, Tidy, Runs, Over
<1> HIDE DEF n
<1>3. Mild(w.node[s], n)  BY <1>1, <1>2, AlikeMild
<1>4. Fine(v, SetNode(w, s, n), W, G)  BY <1>2, <1>3, PutNode
<1> QED  BY <1>4 DEF n

LEMMA MemberFine ==
    ASSUME NEW W \in Idx, NEW G, NEW v, NEW w, Fine(v, w, W, G), NEW f \in Server,
           NEW m, m.addr \in Server
    PROVE  /\ Fine(v, handle_new_node_join(w, f, m), W, G)
           /\ Fine(v, handle_leave_node(w, f, m), W, G)
<1>1. w.node[f] \in NodeType(f, W)  BY Parts
<1>2. w.node[f].nodes \in SUBSET Others(f)  BY <1>1 DEF NodeType
<1> DEFINE more == w.node[f].nodes \cup {m.addr}
           less == w.node[f].nodes \ {m.addr}
<1>3. ASSUME m.addr # f PROVE Fine(v, SetNode(w, f, [w.node[f] EXCEPT !.nodes = more]), W, G)
  <2>1. more \in SUBSET Others(f)  BY <1>2, <1>3 DEF Others
  <2> HIDE DEF more
  <2> QED  BY <2>1, NodesFine
<1>4. Fine(v, SetNode(w, f, [w.node[f] EXCEPT !.nodes = less]), W, G)
  <2>1. less \in SUBSET Others(f)  BY <1>2
  <2> HIDE DEF less
  <2> QED  BY <2>1, NodesFine
<1>5. \A x : [w EXCEPT !.node[f].nodes = x] = SetNode(w, f, [w.node[f] EXCEPT !.nodes = x])
  BY DEF SetNode
<1>6. Fine(v, handle_new_node_join(w, f, m), W, G)
  <2>1. m.addr # f => handle_new_node_join(w, f, m)
                      = SetNode(w, f, [w.node[f] EXCEPT !.nodes = more])
    BY <1>5 DEF handle_new_node_join
  <2>2. m.addr = f => handle_new_node_join(w, f, m) = w  BY DEF handle_new_node_join
  <2> HIDE DEF more
  <2> QED  BY <2>1, <2>2, <1>3
<1>7. Fine(v, handle_leave_node(w, f, m), W, G)
  <2>1. m.addr # f => handle_leave_node(w, f, m)
                      = SetNode(w, f, [w.node[f] EXCEPT !.nodes = less])
    BY <1>5 DEF handle_leave_node
  <2>2. m.addr = f => handle_leave_node(w, f, m) = become_leader(w, f)  BY DEF handle_leave_node
  <2>3. Fine(v, become_leader(w, f), W, G)  BY BecomeLeaderFine
  <2> HIDE DEF less
  <2> QED  BY <2>1, <2>2, <2>3, <1>4
<1> QED  BY <1>6, <1>7

-----------------------------------------------------------------------------
(* Steps that change a world as above. *)

UsedType == [writes : Idx, drops : Nat, restarts : Nat, commands : Nat]

Sane == used \in UsedType /\ Ok(World, used.writes) /\ Held(World, Server)

Steady == /\ Fine(World, World', used.writes, Server)
          /\ used' \in UsedType /\ used'.writes = used.writes

LEMMA WorldIs ==
    /\ World.node = node /\ World.conn = conn /\ World.msgs = msgs
    /\ World = Wd(node, conn, msgs)
BY DEF World, Wd

LEMMA SaneFine ==
    ASSUME Sane
    PROVE  Fine(World, World, used.writes, Server) /\ used.writes \in Idx
<1>1. Ok(World, used.writes) /\ Held(World, Server) /\ used \in UsedType  BY DEF Sane
<1>2. used.writes \in Idx  BY <1>1 DEF UsedType
<1>3. Keeps(World, World)
  <2> SUFFICES ASSUME NEW s \in Server
               PROVE  /\ Later(World.node[s], World.node[s]) /\ World.node[s].term \in Nat
                      /\ World.node[s].votes \in Nat
    BY DEF Keeps
  <2>1. World.node[s] \in NodeType(s, used.writes)  BY <1>1 DEF Ok
  <2>2. PICK n : n = World.node[s]  OBVIOUS
  <2>3. n.votes \in Nat /\ n.votes <= n.votes /\ n.term \in Nat  BY <2>1, <2>2, LenNat
  <2> QED  BY <2>2, <2>3 DEF Later
<1>4. Echo(World, World)
  <2>1. ASSUME NEW s \in Server PROVE Len(World.node[s].log) <= Len(World.node[s].log)
    <3>1. World.node[s] \in NodeType(s, used.writes)  BY <1>1 DEF Ok
    <3>2. PICK n : n = World.node[s]  OBVIOUS
    <3>3. Len(n.log) <= Len(n.log)  BY <3>1, <3>2, LenNat
    <3> QED  BY <3>2, <3>3
  <2> QED  BY <2>1 DEF Echo, Tidy
<1> QED  BY <1>1, <1>2, <1>3, <1>4 DEF Fine

LEMMA BecomesIs ==
    ASSUME NEW W, NEW G, NEW v, NEW w, Fine(v, w, W, G), Becomes(w)
    PROVE  World' = w
<1>1. w = Wd(w.node, w.conn, w.msgs)  BY DEF Fine, Ok
<1>2. node' = w.node /\ conn' = w.conn /\ msgs' = w.msgs  BY DEF Becomes
<1> QED  BY <1>1, <1>2 DEF World, Wd

LEMMA UseIs ==
    ASSUME used \in UsedType, NEW what \in {"drops", "restarts", "commands"}, Use(what)
    PROVE  used' \in UsedType /\ used'.writes = used.writes
BY DEF UsedType, Use

LEMMA SteadyIs ==
    ASSUME Sane, NEW w, Fine(World, w, used.writes, Server), Becomes(w),
           UNCHANGED used \/ Use("drops") \/ Use("restarts") \/ Use("commands")
    PROVE  Steady
<1>1. World' = w  BY BecomesIs
<1>2. used \in UsedType  BY DEF Sane
<1>3. used' \in UsedType /\ used'.writes = used.writes  BY <1>2, UseIs
<1> QED  BY <1>1, <1>3 DEF Steady

LEMMA RefusedSteady ==
    ASSUME Sane, NEW s \in Server, Refused(s)
    PROVE  Steady
<1> DEFINE w == SetConn(World, s, NoConn)
<1>1. Fine(World, World, used.writes, Server) /\ used.writes \in Idx  BY SaneFine
<1>2. Fine(World, w, used.writes, Server)  BY <1>1, NoConnIs, CloseFine
<1>3. Becomes(Return(w, s)) /\ (UNCHANGED used \/ Use("drops"))  BY DEF Refused, SetConn
<1> HIDE DEF w
<1>4. Fine(World, Return(w, s), used.writes, Server)  BY <1>1, <1>2, ReturnFine
<1> QED  BY <1>3, <1>4, SteadyIs

LEMMA Typed ==
    ASSUME Sane, NEW s \in Server
    PROVE  /\ node[s] \in NodeType(s, used.writes) /\ conn[s] \in ConnType(s, used.writes)
           /\ node[s].leader \in Others(s) \cup {Null} /\ node[s].join \in JoinType(s)
           /\ node[s].term \in Terms /\ node[s].commit \in Idx
           /\ node[s].nodes \subseteq Others(s) /\ node[s].peers \subseteq Others(s)
<1>1. World.node[s] \in NodeType(s, used.writes) /\ World.conn[s] \in ConnType(s, used.writes)
  BY DEF Sane, Ok
<1>2. node[s] \in NodeType(s, used.writes) /\ conn[s] \in ConnType(s, used.writes)
  BY <1>1, WorldIs
<1> QED  BY <1>2 DEF NodeType

LEMMA AskSteady ==
    ASSUME Sane, NEW s \in Server, Ask(s)
    PROVE  Steady
<1> DEFINE t == node[s].join.to
           d == [type |-> "new_node", addr |-> s]
           told == SendAll(World, t, node[t].peers \ {s}, d)
           m == [type |-> "join", from |-> s, to |-> t, term |-> node[t].term,
                 index |-> node[s].join.commit, live |-> TRUE]
           w == SetMsgs(told, told.msgs \cup {m})
<1>1. Fine(World, World, used.writes, Server)  BY SaneFine
<1>2. t \in Server /\ t # s  BY DEF Ask
<1>3. d \in DownType(used.writes) /\ Cites(World, d)  BY CitesIs DEF DownType
<1>4. m \in Msg /\ m.type = "join"
  <2>1. node[t].term \in Terms /\ node[s].join \in JoinType(s)  BY <1>2, Typed
  <2>2. node[s].join.commit \in Idx  BY <2>1 DEF JoinType
  <2> QED  BY <1>2, <2>1, <2>2 DEF Msg, Asking
<1>5. [told EXCEPT !.msgs = @ \cup {m}] = w  BY DEF SetMsgs
<1>6. Becomes(w) /\ UNCHANGED used  BY <1>5 DEF Ask
<1> HIDE DEF d, t
<1>7. Fine(World, told, used.writes, Server)  BY <1>1, <1>3, SendAllFine
<1> HIDE DEF told, m
<1>8. Fine(World, w, used.writes, Server)
  <2>1. told.msgs \subseteq Msg  BY <1>7, SomeOk
  <2>2. told.msgs \cup {m} \subseteq Msg  BY <2>1, <1>4
  <2>3. ~IsBallot(m)  BY <1>4 DEF IsBallot
  <2> QED  BY <2>2, <2>3, <1>7, PutMsgs
<1> HIDE DEF w
<1> QED  BY <1>6, <1>8, SteadyIs

LEMMA NoAnswerSteady ==
    ASSUME Sane, NEW s \in Server, NoAnswer(s)
    PROVE  Steady
<1>1. PICK m \in Asked(s) :
         /\ Becomes(Return([World EXCEPT !.conn[s] = [NoConn EXCEPT !.to = m.to],
                                         !.msgs = (@ \ {m}) \cup {Abandoned(m)}], s))
         /\ UNCHANGED used \/ Use("drops")
  BY DEF NoAnswer
<1> DEFINE c == [NoConn EXCEPT !.to = m.to]
           w1 == SetConn(World, s, c)
           ms == (msgs \ {m}) \cup {Abandoned(m)}
           w == SetMsgs(w1, ms)
<1>2. Fine(World, World, used.writes, Server) /\ used.writes \in Idx  BY SaneFine
<1>3. m \in msgs /\ m.type = "join" /\ m.from = s /\ msgs \subseteq Msg
  BY <1>2, WorldIs, SomeOk DEF Asked, Joins
<1>4. Abandoned(m) \in Msg /\ ~IsBallot(Abandoned(m)) /\ m.to \in Others(s) \cup {Null}
  <2>1. m \in Msg  BY <1>3
  <2>2. m \in Asking /\ m.from # m.to  BY <2>1, <1>3, AbandonedIs
  <2> QED  BY <2>1, <2>2, <1>3, AbandonedIs DEF Asking, Others
<1>5. c \in ConnType(s, used.writes) /\ ~c.open /\ c.down = <<>>  BY <1>4, ClosedIs
<1>6. [World EXCEPT !.conn[s] = c, !.msgs = (@ \ {m}) \cup {Abandoned(m)}] = w
  BY WorldIs DEF SetMsgs, SetConn
<1>7. Becomes(Return(w, s))  BY <1>1, <1>6
<1> HIDE DEF c
<1>8. Fine(World, w1, used.writes, Server) /\ w1.msgs = msgs
  <2>1. Fine(World, w1, used.writes, Server) /\ ConnSet(World, w1, s, c)
    BY <1>2, <1>5, CloseFine
  <2> HIDE DEF w1
  <2> QED  BY <2>1, WorldIs DEF ConnSet
<1> HIDE DEF w1
<1>9. Fine(World, w, used.writes, Server)
  <2>1. ms \subseteq Msg /\ \A x \in ms : IsBallot(x) => x \in w1.msgs  BY <1>3, <1>4, <1>8
  <2> HIDE DEF ms
  <2> QED  BY <2>1, <1>8, PutMsgs
<1> HIDE DEF w
<1>10. Fine(World, Return(w, s), used.writes, Server)  BY <1>2, <1>9, ReturnFine
<1> QED  BY <1>1, <1>7, <1>10, SteadyIs

LEMMA RedirectedSteady ==
    ASSUME Sane, NEW s \in Server, Redirected(s)
    PROVE  Steady
<1> DEFINE t == node[s].join.to
           c == [NoConn EXCEPT !.to = t]
           w1 == SetNode(World, s, Follow(node[s]))
           w == SetConn(w1, s, c)
<1>1. Fine(World, World, used.writes, Server) /\ used.writes \in Idx  BY SaneFine
<1>2. t \in Server /\ node[s].joining  BY DEF Redirected
<1>3. [World EXCEPT !.node[s] = Follow(@), !.conn[s] = c] = w
  <2>1. \A a, b, d : [d EXCEPT !.node[s] = a, !.conn[s] = b] = SetConn(SetNode(d, s, a), s, b)
    BY DEF SetNode, SetConn
  <2>2. World.node[s] = node[s]  BY WorldIs
  <2> HIDE DEF c
  <2> QED  BY <2>1, <2>2
<1>4. /\ UNCHANGED used
      /\ \/ Becomes(handle_query_leader_response(w, s, node[t].leader, node[s].join.loop))
         \/ \E p \in node[s].peers : Becomes(Throws(w, s, p))
  BY <1>3 DEF Redirected
<1>5. /\ node[s] \in NodeType(s, used.writes) /\ node[s].join \in JoinType(s)
      /\ node[s].peers \subseteq Server
  BY Typed DEF Others
<1>6. t \in Others(s) \cup {Null} /\ node[s].join.loop \in BOOLEAN  BY <1>5 DEF JoinType
<1>7. node[t].leader \in Server \cup {Null}  BY <1>2, Typed DEF Others
<1> HIDE DEF t
<1>8. c \in ConnType(s, used.writes) /\ ~c.open /\ c.down = <<>>  BY <1>6, ClosedIs
<1> HIDE DEF c
<1>9. Fine(World, w1, used.writes, Server)
  <2>1. PICK n : n = Follow(node[s])  OBVIOUS
  <2>2. n \in NodeType(s, used.writes) /\ Mild(World.node[s], n) /\ n.role # "Leader"
    BY <2>1, <1>1, <1>5, FollowIs, WorldIs
  <2> QED  BY <2>1, <2>2, <1>1, PutNode
<1> HIDE DEF w1
<1>10. Fine(World, w, used.writes, Server)  BY <1>8, <1>9, CloseFine
<1> HIDE DEF w
<1>11. CASE Becomes(handle_query_leader_response(w, s, node[t].leader, node[s].join.loop))
  <2>1. Fine(World, handle_query_leader_response(w, s, node[t].leader, node[s].join.loop),
             used.writes, Server)
    BY <1>1, <1>6, <1>7, <1>10, RedirectFine
  <2> QED  BY <1>4, <1>11, <2>1, SteadyIs
<1>12. CASE \E p \in node[s].peers : Becomes(Throws(w, s, p))
  <2>1. PICK p \in Server : Becomes(Throws(w, s, p))  BY <1>5, <1>12
  <2>2. Fine(World, Throws(w, s, p), used.writes, Server)  BY <1>1, <1>10, ThrowsFine
  <2> QED  BY <1>4, <2>1, <2>2, SteadyIs
<1> QED  BY <1>4, <1>11, <1>12

(* The joining server is left out of Held until it has become a follower: until   *)
(* then it may have the role of a leader and the leader an old match_index_ of it. *)
LEMMA AcceptedSteady ==
    ASSUME Sane, NEW m \in msgs, Accepted(m)
    PROVE  Steady
<1> DEFINE s == m.from
           t == m.to
           c == [NoConn EXCEPT !.to = t, !.open = TRUE]
           W == used.writes
           G == Others(s)
           ms == msgs \ {m}
           fore == SetMsgs(World, ms)
           link == SetConn(fore, s, c)
           w1 == handle_join_cluster(link, m, FALSE)
           f == Follow(w1.node[s])
           w == SetNode(w1, s, f)
           n == handle_join_cluster_response(f, s, t, m.term, node[t].nodes)
           w2 == SetNode(w, s, n)
<1>1. Fine(World, World, W, Server) /\ W \in Idx  BY SaneFine
<1>0. m \in Asking /\ m.from # m.to /\ msgs \subseteq Msg
  <2>1. msgs \subseteq Msg /\ m.type = "join"  BY WorldIs DEF Sane, Ok, Accepted
  <2> QED  BY <2>1, AbandonedIs
<1>2. /\ s \in Server /\ t \in Server /\ t # s /\ t \in Others(s) \cup {Null}
      /\ m.term \in Terms
  BY <1>0 DEF Asking, Others
<1> HIDE DEF s, t
<1>3. /\ node[s] \in NodeType(s, W) /\ node[s].peers \subseteq Server
      /\ node[t].nodes \subseteq Server
  BY <1>2, Typed DEF Others
<1>4. c \in ConnType(s, W) /\ c.to = t /\ c.up = <<>> /\ c.down = <<>>  BY <1>2, ClosedIs
<1>5. Fine(World, link, W, G) /\ ConnSet(fore, link, s, c) /\ fore.node = node
  <2>4. Fine(World, fore, W, Server) /\ fore.node = node
    <3>1. ms \subseteq Msg /\ \A x \in ms : IsBallot(x) => x \in World.msgs  BY <1>0, WorldIs
    <3> HIDE DEF ms
    <3> QED  BY <3>1, <1>1, WorldIs, PutMsgs
  <2> HIDE DEF fore
  <2>1. Fine(World, fore, W, G)  BY <2>4 DEF Fine, Held, Others
  <2>2. s \notin G  BY DEF Others
  <2> HIDE DEF c, G
  <2>3. Quotes(World, c)  BY <1>4, EmptyQuotes
  <2> QED  BY <2>1, <2>2, <2>3, <2>4, <1>2, <1>4, PutConn
<1>6. [World EXCEPT !.conn[s] = c, !.msgs = @ \ {m}] = link
  BY WorldIs DEF SetConn, SetMsgs
<1> HIDE DEF link, fore
<1>7. /\ Fine(World, w1, W, G) /\ w1.node[s] = node[s] /\ At(w1.node[t].match, s) = 0
      /\ w1.conn[s].to = t /\ w1.conn[s].up = <<>>
  <2>1. link.node[s] = node[s] /\ link.conn[s] = c  BY <1>5 DEF ConnSet
  <2>3. m.from = s /\ m.to = t  BY DEF s, t
  <2> HIDE DEF c, G, W
  <2>4. ASSUME NEW back \in BOOLEAN, NEW u, u = handle_join_cluster(link, m, back)
        PROVE  /\ Fine(World, u, W, G) /\ u.node[s] = link.node[s] /\ At(u.node[t].match, s) = 0
               /\ u.conn[s].to = link.conn[s].to /\ u.conn[s].up = link.conn[s].up
    <3>1. Fine(World, link, W, G) /\ W \in Idx /\ m \in Asking /\ s # t
      BY <1>0, <1>1, <1>2, <1>5
    <3> QED  BY <3>1, <2>3, <2>4, <1>2, JoinFine
  <2>2. /\ Fine(World, w1, W, G) /\ w1.node[s] = link.node[s] /\ At(w1.node[t].match, s) = 0
        /\ w1.conn[s].to = link.conn[s].to /\ w1.conn[s].up = link.conn[s].up
    BY <2>4
  <2> QED  BY <1>4, <2>1, <2>2
<1>8. [w1 EXCEPT !.node[s] = Follow(@)] = w
  <2> HIDE DEF w1
  <2> QED  BY DEF SetNode
<1> HIDE DEF w1, G
<1>9. f \in NodeType(s, W) /\ Mild(w1.node[s], f) /\ f.role = "Follower"
  BY <1>1, <1>3, <1>7, FollowIs
<1> HIDE DEF f
<1>10. Fine(World, w, W, G) /\ NodeSet(w1, w, s, f)  BY <1>2, <1>7, <1>9, PutNode
<1> HIDE DEF w
<1>11. Fine(World, w, W, Server)
  <2>1. Sound(w, s)
    <3>1. w.node[s] = f /\ w.conn[s] = w1.conn[s] /\ w.node[t] = w1.node[t]
      BY <1>2, <1>10 DEF NodeSet
    <3>2. \A i \in DOMAIN <<>> : FALSE  OBVIOUS
    <3>3. Len(f.log) \in Nat  BY <1>9, LenNat
    <3> QED  BY <3>1, <3>2, <3>3, <1>7, <1>9 DEF Sound
  <2> QED  BY <2>1, <1>10 DEF Fine, Held, G, Others
<1>12. [w EXCEPT !.node[s] = handle_join_cluster_response(@, s, t, m.term, node[t].nodes)]
       = w2
  <2>1. w.node[s] = f  BY <1>10 DEF NodeSet
  <2> QED  BY <2>1 DEF SetNode
<1>13. /\ UNCHANGED used
       /\ \/ Becomes(Return(w2, s))
          \/ \E p \in node[s].peers : Becomes(Throws(w, s, p))
  BY <1>6, <1>8, <1>12 DEF Accepted, w1, s, t, c
<1>14. n \in NodeType(s, W) /\ Mild(f, n) /\ n.role = "Follower"
  <2> DEFINE nodes == (node[t].nodes \cup {t}) \ {s}
             strayed == f.strayed \/ m.term < f.term
  <2>1. nodes \in SUBSET Others(s)  BY <1>2, <1>3 DEF Others
  <2>2. n = [f EXCEPT !.term = m.term, !.strayed = strayed, !.nodes = nodes]
    BY DEF handle_join_cluster_response
  <2>3. f.term \in Nat /\ m.term \in Nat /\ f.strayed \in BOOLEAN /\ f.voted \in BOOLEAN
    <3>1. f.strayed \in BOOLEAN /\ f.voted \in BOOLEAN  BY <1>9 DEF NodeType
    <3>2. f.term \in Nat  BY <1>9, LenNat
    <3>3. m.term \in Nat  BY <1>2, Constants
    <3> QED  BY <3>1, <3>2, <3>3
  <2>4. strayed \in BOOLEAN /\ (f.strayed => strayed)
        /\ (strayed \/ f.term < m.term \/ f.term = m.term)
    <3>1. PICK x : x = m.term  OBVIOUS
    <3>2. PICK y : y = f.term  OBVIOUS
    <3>3. x \in Nat /\ y \in Nat  BY <2>3, <3>1, <3>2
    <3>4. y < x \/ y = x \/ x < y  BY <3>3
    <3>5. strayed = (f.strayed \/ x < y)  BY <3>1, <3>2
    <3> HIDE DEF strayed
    <3> QED  BY <2>3, <3>1, <3>2, <3>4, <3>5
  <2> HIDE DEF nodes, strayed, n
  <2>5. n \in NodeType(s, W)  BY <1>2, <1>9, <2>1, <2>2, <2>4 DEF NodeType
  <2>6. /\ n.won = f.won /\ n.strayed = strayed /\ n.votes = f.votes /\ n.term = m.term
        /\ n.voted = f.voted /\ n.log = f.log /\ n.peers = f.peers /\ n.match = f.match
        /\ n.role = f.role /\ n.exec = f.exec /\ n.applied = f.applied
    BY <1>9, <2>2 DEF NodeType
  <2>7. Mild(f, n)  BY <1>9, <2>4, <2>6, LenNat, MildIs
  <2> QED  BY <2>5, <2>6, <2>7, <1>9
<1> HIDE DEF n
<1>15. Fine(World, w2, W, Server)
  <2>1. w.node[s] = f  BY <1>10 DEF NodeSet
  <2> QED  BY <2>1, <1>2, <1>11, <1>14, PutNode
<1> HIDE DEF w2
<1>16. CASE Becomes(Return(w2, s))
  <2>1. Fine(World, Return(w2, s), W, Server)  BY <1>1, <1>2, <1>15, ReturnFine
  <2> QED  BY <1>13, <1>16, <2>1, SteadyIs
<1>17. CASE \E p \in node[s].peers : Becomes(Throws(w, s, p))
  <2>1. PICK p \in Server : Becomes(Throws(w, s, p))  BY <1>3, <1>17
  <2>2. Fine(World, Throws(w, s, p), W, Server)  BY <1>1, <1>2, <1>11, ThrowsFine
  <2> QED  BY <1>13, <2>1, <2>2, SteadyIs
<1> QED  BY <1>13, <1>16, <1>17

LEMMA AcceptedLateSteady ==
    ASSUME Sane, NEW m \in msgs, AcceptedLate(m)
    PROVE  Steady
<1> DEFINE W == used.writes
           ms == msgs \ {m}
           fore == SetMsgs(World, ms)
           back == Connected(World, m.from, m.to)
           w == handle_join_cluster(fore, m, back)
<1>1. Fine(World, World, W, Server) /\ W \in Idx  BY SaneFine
<1>2. m \in Asking /\ m.from # m.to /\ msgs \subseteq Msg
  <2>1. msgs \subseteq Msg /\ m.type = "join"  BY WorldIs DEF Sane, Ok, AcceptedLate
  <2> QED  BY <2>1, AbandonedIs
<1>3. Fine(World, fore, W, Server)
  <2>1. ms \subseteq Msg /\ \A x \in ms : IsBallot(x) => x \in World.msgs  BY <1>2, WorldIs
  <2> HIDE DEF ms
  <2> QED  BY <2>1, <1>1, PutMsgs
<1>4. [World EXCEPT !.msgs = @ \ {m}] = fore  BY WorldIs DEF SetMsgs
<1>5. Becomes(w) /\ UNCHANGED used  BY <1>4 DEF AcceptedLate
<1> HIDE DEF fore
<1>6. m.from \in Server /\ m.to \in Server  BY <1>2 DEF Asking
<1>7. back \in BOOLEAN
  <2>1. conn[m.from] \in ConnType(m.from, W)  BY <1>6, Typed
  <2>2. conn[m.from].open \in BOOLEAN  BY <2>1 DEF ConnType
  <2> QED  BY <2>2, WorldIs DEF Connected
<1> HIDE DEF back
<1>8. Fine(World, w, W, Server)  BY <1>1, <1>2, <1>3, <1>6, <1>7, JoinFine
<1> HIDE DEF w
<1> QED  BY <1>5, <1>8, SteadyIs

LEMMA MessageSteady ==
    ASSUME Sane, NEW f \in Server, handle_leader_message(f)
    PROVE  Steady
<1> DEFINE W == used.writes
           m == Head(conn[f].down)
           c == [conn[f] EXCEPT !.down = Tail(conn[f].down)]
           w == SetConn(World, f, c)
<1>1. Fine(World, World, W, Server) /\ W \in Idx  BY SaneFine
<1>2. conn[f].open /\ conn[f].down # <<>>  BY DEF handle_leader_message
<1>3. conn[f] \in ConnType(f, W) /\ conn[f].down \in Seq(DownType(W))  BY Typed DEF ConnType
<1>4. m \in DownType(W) /\ Tail(conn[f].down) \in Seq(DownType(W))
      /\ \A i \in DOMAIN Tail(conn[f].down) :
             i + 1 \in DOMAIN conn[f].down /\ Tail(conn[f].down)[i] = conn[f].down[i + 1]
  <2>1. PICK q, T : q = conn[f].down /\ T = DownType(W) /\ q \in Seq(T) /\ q # <<>>
    BY <1>2, <1>3
  <2>2. /\ Head(q) \in T /\ Tail(q) \in Seq(T)
        /\ \A i \in DOMAIN Tail(q) : i + 1 \in DOMAIN q /\ Tail(q)[i] = q[i + 1]
    <3>1. /\ Head(q) \in T /\ Tail(q) \in Seq(T) /\ Len(Tail(q)) = Len(q) - 1
          /\ \A i \in 1..Len(Tail(q)) : Tail(q)[i] = q[i + 1]
      BY <2>1, HeadTailProperties
    <3>2. DOMAIN Tail(q) = 1..Len(Tail(q)) /\ DOMAIN q = 1..Len(q) /\ Len(q) \in Nat
      BY <2>1, <3>1
    <3> QED  BY <3>1, <3>2
  <2> QED  BY <2>1, <2>2
<1>12. Cites(World, m) /\ \A i \in DOMAIN Tail(conn[f].down) : Cites(World, Tail(conn[f].down)[i])
  <2>1. Quotes(World, conn[f])  BY <1>1, OldQuotes, WorldIs
  <2>2. 1 \in DOMAIN conn[f].down /\ m = conn[f].down[1]  BY <1>2, <1>3
  <2>3. Cites(World, m)  BY <2>1, <2>2 DEF Quotes
  <2>4. ASSUME NEW i \in DOMAIN Tail(conn[f].down) PROVE Cites(World, Tail(conn[f].down)[i])
    <3>1. i + 1 \in DOMAIN conn[f].down /\ Tail(conn[f].down)[i] = conn[f].down[i + 1]  BY <1>4
    <3> QED  BY <2>1, <3>1 DEF Quotes
  <2> QED  BY <2>3, <2>4
<1>5. c \in ConnType(f, W) /\ c.to = conn[f].to /\ c.up = conn[f].up /\ c.open = conn[f].open
      /\ c.down = Tail(conn[f].down)
  BY <1>3, <1>4 DEF ConnType
<1>6. [World EXCEPT !.conn[f].down = Tail(@)] = w
  <2>1. \A x, d : [d EXCEPT !.conn[f].down = x] = SetConn(d, f, [d.conn[f] EXCEPT !.down = x])
    BY DEF SetConn
  <2> QED  BY <2>1, WorldIs
<1>7. /\ UNCHANGED used
      /\ Becomes(CASE m.type = "append"   -> handle_append_entries(w, f, m)
                   [] m.type = "new_node" -> handle_new_node_join(w, f, m)
                   [] m.type = "leave"    -> handle_leave_node(w, f, m)
                   [] m.type = "query"    -> handle_query_leader_response(w, f, m.leader, TRUE))
  BY <1>6 DEF handle_leader_message
<1> HIDE DEF c, m
<1>8. Fine(World, w, W, Server) /\ ConnSet(World, w, f, c)
  <2>1. Narrow(World, f, World.conn[f])  BY <1>1, SomeOk
  <2>2. Narrow(World, f, c)  BY <2>1, <1>5, WorldIs DEF Narrow
  <2>3. Quotes(World, c)  BY <1>5, <1>12 DEF Quotes
  <2> QED  BY <2>2, <2>3, <1>1, <1>5, PutConn
<1> HIDE DEF w
<1>9. CASE m \in AppendType(W)
  <2>1. w.conn[f].open /\ World.node[f] = w.node[f]  BY <1>2, <1>5, <1>8 DEF ConnSet
  <2>2. Fine(World, handle_append_entries(w, f, m), W, Server)
    BY <1>1, <1>8, <1>9, <1>12, <2>1, AppendFine
  <2>3. m.type = "append"  BY <1>9 DEF AppendType
  <2>4. Becomes(handle_append_entries(w, f, m))  BY <1>7, <2>3
  <2> QED  BY <1>7, <2>2, <2>4, SteadyIs
<1>10. CASE m \in [type : {"new_node", "leave"}, addr : Server]
  <2>1. m.addr \in Server /\ m.type \in {"new_node", "leave"}  BY <1>10
  <2>2. /\ Fine(World, handle_new_node_join(w, f, m), W, Server)
        /\ Fine(World, handle_leave_node(w, f, m), W, Server)
    BY <1>1, <1>8, <2>1, MemberFine
  <2>3. \/ Becomes(handle_new_node_join(w, f, m)) \/ Becomes(handle_leave_node(w, f, m))
    BY <1>7, <2>1
  <2> QED  BY <1>7, <2>2, <2>3, SteadyIs
<1>11. CASE m \in [type : {"query"}, leader : Server \cup {Null}]
  <2>1. m.leader \in Server \cup {Null} /\ m.type = "query"  BY <1>11
  <2>2. Fine(World, handle_query_leader_response(w, f, m.leader, TRUE), W, Server)
    BY <1>1, <1>8, <2>1, RedirectFine
  <2>3. Becomes(handle_query_leader_response(w, f, m.leader, TRUE))  BY <1>7, <2>1
  <2> QED  BY <1>7, <2>2, <2>3, SteadyIs
<1> QED  BY <1>4, <1>9, <1>10, <1>11 DEF DownType

LEMMA NodeStep ==
    ASSUME Sane, NEW s \in Server, NEW n \in NodeType(s, used.writes), Mild(node[s], n),
           n.role = "Leader" => node[s].role = "Leader",
           node' = [node EXCEPT ![s] = n], UNCHANGED <<conn, msgs, used>>
    PROVE  Steady
<1> DEFINE w == SetNode(World, s, n)
<1>1. Fine(World, World, used.writes, Server)  BY SaneFine
<1>2. Fine(World, w, used.writes, Server) /\ NodeSet(World, w, s, n)
  BY <1>1, WorldIs, PutNode
<1> HIDE DEF w
<1>3. Becomes(w)  BY <1>2, WorldIs DEF NodeSet, Becomes
<1> QED  BY <1>2, <1>3, SteadyIs

LEMMA ReconnectSteady ==
    ASSUME Sane, NEW f \in Server, Reconnect(f)
    PROVE  Steady
<1> DEFINE w == become_follower(World, f, node[f].leader, node[f].term, node[f].commit, TRUE)
<1>1. Fine(World, World, used.writes, Server) /\ used.writes \in Idx  BY SaneFine
<1>2. Fine(World, w, used.writes, Server)  BY <1>1, Typed, BecomeFollowerFine
<1>3. Becomes(w) /\ UNCHANGED used  BY DEF Reconnect
<1> HIDE DEF w
<1> QED  BY <1>2, <1>3, SteadyIs

LEMMA RanMild ==
    ASSUME NEW W \in Idx, NEW s, NEW n \in NodeType(s, W), NEW m, RanWell(n, m)
    PROVE  m \in NodeType(s, W) /\ Mild(n, m) /\ m.role = n.role
<1>1. Ran(n, m) /\ (Tidy(n) => Tidy(m))  BY DEF RanWell
<1> QED  BY <1>1, RanIs DEF Mild

LEMMA ApplySteady ==
    ASSUME Sane, NEW s \in Server, Apply(s)
    PROVE  Steady
<1>1. used.writes \in Idx /\ node[s] \in NodeType(s, used.writes)  BY SaneFine, Typed
<1>2. PICK n : n = apply_committed_entries(node[s])  OBVIOUS
<1>3. RanWell(node[s], n)  BY <1>1, <1>2, ApplyRan
<1>4. n \in NodeType(s, used.writes) /\ Mild(node[s], n) /\ n.role = node[s].role
  BY <1>1, <1>3, RanMild
<1>5. node' = [node EXCEPT ![s] = n] /\ UNCHANGED <<conn, msgs, used>>  BY <1>2 DEF Apply
<1> QED  BY <1>4, <1>5, NodeStep

LEMMA SubmitCheckSteady ==
    ASSUME Sane, NEW s \in Server, SubmitCheck(s)
    PROVE  Steady
<1> DEFINE n == [node[s] EXCEPT !.writing = "checked"]
<1>1. node[s] \in NodeType(s, used.writes)  BY Typed
<1>5. "checked" \in Stages(s)  BY DEF SubmitCheck, Stages
<1>2. n \in NodeType(s, used.writes) /\ Alike(node[s], n) /\ n.role = node[s].role
  BY <1>1, <1>5 DEF NodeType, Alike, Tidy, Runs, Over
<1>3. node' = [node EXCEPT ![s] = n] /\ UNCHANGED <<conn, msgs, used>>  BY DEF SubmitCheck
<1> HIDE DEF n
<1>4. Mild(node[s], n)  BY <1>1, <1>2, AlikeMild
<1> QED  BY <1>2, <1>3, <1>4, NodeStep

LEMMA SubmitCommitSteady ==
    ASSUME Sane, NEW s \in Server, SubmitCommit(s)
    PROVE  Steady
<1> DEFINE W == used.writes
           n == [node[s] EXCEPT !.writing = "no", !.leader = Null]
           w == SetNode(World, s, n)
           sent == send_append_to(w, s, node[s].peers)
           w1 == SetNode(sent, s, try_commit_entries(sent.node[s]))
           w2 == SetNode(w, s, commit_entries(w.node[s]))
<1>1. Fine(World, World, W, Server) /\ W \in Idx  BY SaneFine
<1>2. node[s] \in NodeType(s, W)  BY Typed
<1>3. [World EXCEPT !.node[s].writing = "no", !.node[s].leader = Null] = w
  <2>1. \A d : [d EXCEPT !.node[s].writing = "no", !.node[s].leader = Null]
               = SetNode(d, s, [d.node[s] EXCEPT !.writing = "no", !.leader = Null])
    BY DEF SetNode
  <2> QED  BY <2>1, WorldIs
<1>4. n \in NodeType(s, W) /\ Alike(node[s], n) /\ n.role = node[s].role
      /\ n.log = node[s].log /\ (Runs(node[s]) => Runs(n))
  <2>0. "no" \in Stages(s)  BY DEF Stages
  <2>1. n \in NodeType(s, W) /\ Alike(node[s], n) /\ n.role = node[s].role
    BY <1>2, <2>0 DEF NodeType, Alike, Tidy, Runs, Over
  <2>2. n.log = node[s].log /\ n.exec = node[s].exec /\ n.applied = node[s].applied
    BY <1>2 DEF NodeType
  <2> HIDE DEF n
  <2>3. Runs(node[s]) => Runs(n)  BY <2>2 DEF Runs
  <2> QED  BY <2>1, <2>2, <2>3
<1> HIDE DEF n
<1>5. Mild(World.node[s], n)  BY <1>2, <1>4, WorldIs, AlikeMild
<1>6. Fine(World, w, W, Server) /\ w.node[s] = n
  <2>1. n \in NodeType(s, W) /\ World.node[s] = node[s]  BY <1>4, WorldIs
  <2>2. n.role = "Leader" => World.node[s].role = "Leader"  BY <1>4, WorldIs
  <2>3. Fine(World, w, W, Server) /\ NodeSet(World, w, s, n)
    BY <2>1, <2>2, <1>1, <1>5, PutNode
  <2> QED  BY <2>3 DEF NodeSet
<1> HIDE DEF w
<1>7. [sent EXCEPT !.node[s] = try_commit_entries(@)] = w1
  <2> HIDE DEF sent
  <2> QED  BY DEF SetNode
<1>8. [w EXCEPT !.node[s] = commit_entries(@)] = w2  BY DEF SetNode
<1>9. UNCHANGED used /\ (Becomes(w1) \/ Becomes(w2))  BY <1>3, <1>7, <1>8 DEF SubmitCommit
<1>10. Fine(World, sent, W, Server)  BY <1>1, <1>6, SendEntriesToFine
<1> HIDE DEF sent
<1>11. Fine(World, w1, W, Server)
  <2>1. sent.node[s] \in NodeType(s, W)  BY <1>10, Parts
  <2>2. PICK m : m = try_commit_entries(sent.node[s])  OBVIOUS
  <2>3. RanWell(sent.node[s], m)  BY <1>1, <2>1, <2>2, TryCommitRan
  <2>4. m \in NodeType(s, W) /\ Mild(sent.node[s], m) /\ m.role = sent.node[s].role
    BY <1>1, <2>1, <2>3, RanMild
  <2> QED  BY <1>10, <2>2, <2>4, PutNode
<1>12. Fine(World, w2, W, Server)
  <2>1. w.node[s] \in NodeType(s, W)  BY <1>6, Parts
  <2>2. PICK m : m = commit_entries(w.node[s])  OBVIOUS
  <2>3. Ran(w.node[s], m) /\ (Runs(w.node[s]) => Tidy(m))
    BY <1>1, <2>1, <2>2, CommitEntriesRan
  <2>4. m \in NodeType(s, W) /\ Gentle(w.node[s], m) /\ m.role = w.node[s].role
        /\ m.log = w.node[s].log
    BY <1>1, <2>1, <2>3, RanIs
  <2>5. Apt(World, s, m)
    <3>1. Runs(World.node[s]) => Tidy(m)  BY <1>4, <1>6, <2>3, WorldIs
    <3>2. ASSUME NEW L \in Seq(Entry), Copied(World, L) PROVE Copy(m.log, L)
      BY <1>6, <2>4, <3>2 DEF Fine, Echo, Copied
    <3>3. s \notin Joiners => Len(World.node[s].log) <= Len(m.log)
      BY <1>6, <2>4 DEF Fine, Echo
    <3> QED  BY <3>1, <3>2, <3>3 DEF Apt
  <2> QED  BY <1>6, <2>2, <2>4, <2>5, PutGentle
<1> HIDE DEF w1, w2
<1> QED  BY <1>9, <1>11, <1>12, SteadyIs

LEMMA DropSteady ==
    ASSUME Sane, NEW f \in Server, Drop(f)
    PROVE  Steady
<1> DEFINE c == [NoConn EXCEPT !.to = conn[f].to]
           w == SetConn(World, f, c)
<1>1. Fine(World, World, used.writes, Server)  BY SaneFine
<1>2. conn[f].to \in Others(f) \cup {Null}  BY Typed DEF ConnType
<1>3. c \in ConnType(f, used.writes) /\ ~c.open /\ c.down = <<>>  BY <1>2, ClosedIs
<1>4. conn' = [conn EXCEPT ![f] = c] /\ UNCHANGED <<node, msgs>> /\ Use("drops")  BY DEF Drop
<1> HIDE DEF c
<1>5. Fine(World, w, used.writes, Server) /\ ConnSet(World, w, f, c)  BY <1>1, <1>3, CloseFine
<1> HIDE DEF w
<1>6. Becomes(w)  BY <1>4, <1>5, WorldIs DEF ConnSet, Becomes
<1> QED  BY <1>4, <1>5, <1>6, SteadyIs

LEMMA CrashSteady ==
    ASSUME Sane, NEW s \in Server, Crash(s)
    PROVE  Steady
<1>1. Fine(World, World, used.writes, Server) /\ used.writes \in Idx  BY SaneFine
<1>2. Fine(World, Die(World, s), used.writes, Server)  BY <1>1, DieFine
<1>3. Becomes(Die(World, s)) /\ Use("restarts")  BY DEF Crash
<1> QED  BY <1>2, <1>3, SteadyIs

LEMMA StartFine ==
    ASSUME Sane, NEW w, Fine(World, w, used.writes, Server),
           NEW s \in Server, NEW l \in Others(s)
    PROVE  Fine(World, init_as_follower(w, s, l), used.writes, Server)
<1> DEFINE W == used.writes
           n == [w.node[s] EXCEPT !.leader = l]
           w1 == SetNode(w, s, n)
<1>1. W \in Idx  BY SaneFine
<1>2. w.node[s] \in NodeType(s, W)  BY Parts
<1>3. n \in NodeType(s, W) /\ Alike(w.node[s], n) /\ n.role = w.node[s].role
  BY <1>2 DEF NodeType, Alike, Tidy, Runs, Over
<1>4. [w EXCEPT !.node[s].leader = l] = w1  BY DEF SetNode
<1> HIDE DEF n
<1>5. Mild(w.node[s], n)  BY <1>2, <1>3, AlikeMild
<1>6. Fine(World, w1, W, Server)  BY <1>3, <1>5, PutNode
<1> HIDE DEF w1
<1>7. l \in Others(s) \cup {Null} /\ node[s].term \in Terms /\ node[s].commit \in Idx  BY Typed
<1>8. Fine(World, become_follower(w1, s, l, node[s].term, node[s].commit, FALSE), W, Server)
  BY <1>1, <1>6, <1>7, BecomeFollowerFine
<1> QED  BY <1>4, <1>8 DEF init_as_follower

LEMMA RestartSteady ==
    ASSUME Sane, NEW s \in Server, Restart(s)
    PROVE  Steady
<1> DEFINE W == used.writes
           n == [node[s] EXCEPT !.life = "boot"]
           w == SetNode(World, s, n)
<1>1. Fine(World, World, W, Server) /\ W \in Idx  BY SaneFine
<1>2. node[s] \in NodeType(s, W)  BY Typed
<1>3. [World EXCEPT !.node[s].life = "boot"] = w
  <2>1. \A d : [d EXCEPT !.node[s].life = "boot"] = SetNode(d, s, [d.node[s] EXCEPT !.life = "boot"])
    BY DEF SetNode
  <2> QED  BY <2>1, WorldIs
<1>4. n \in NodeType(s, W) /\ Alike(node[s], n) /\ n.role = node[s].role
  BY <1>2 DEF NodeType, Alike, Tidy, Runs, Over
<1> HIDE DEF n
<1>5. Mild(World.node[s], n)  BY <1>2, <1>4, WorldIs, AlikeMild
<1>6. Fine(World, w, W, Server)  BY <1>1, <1>4, <1>5, WorldIs, PutNode
<1>7. /\ UNCHANGED used
      /\ \/ node[s].leader # Null /\ Becomes(init_as_follower(w, s, node[s].leader))
         \/ init_with_cluster_discovery(w, s)
  BY <1>3 DEF Restart
<1> HIDE DEF w
<1>8. Fine(World, Return(w, s), W, Server)  BY <1>1, <1>6, ReturnFine
<1>9. \A l \in Others(s) : Fine(World, init_as_follower(w, s, l), W, Server)
  BY <1>6, StartFine
<1>10. CASE node[s].leader # Null /\ Becomes(init_as_follower(w, s, node[s].leader))
  <2>1. node[s].leader \in Others(s)  BY <1>10, Typed
  <2>2. Fine(World, init_as_follower(w, s, node[s].leader), W, Server)  BY <2>1, <1>9
  <2> QED  BY <1>7, <1>10, <2>2, SteadyIs
<1>11. CASE init_with_cluster_discovery(w, s)
  <2>1. CASE Becomes(Return(w, s))  BY <1>7, <1>8, <2>1, SteadyIs
  <2>2. CASE ~Becomes(Return(w, s))
    <3>1. PICK u \in node[s].nodes : Becomes(IF handle_query_leader(u) \in {Null, s} THEN Return(w, s)
                                         ELSE init_as_follower(w, s, handle_query_leader(u)))
      BY <1>11, <2>2 DEF init_with_cluster_discovery
    <3>2. PICK l : l = handle_query_leader(u)  OBVIOUS
    <3>3. u \in Server  BY <3>1, Typed DEF Others
    <3>4. l \in Server \cup {Null}
      <4>1. l \in {u, node[u].leader}  BY <3>2 DEF handle_query_leader
      <4>2. node[u].leader \in Server \cup {Null}  BY <3>3, Typed DEF Others
      <4> QED  BY <4>1, <4>2, <3>3
    <3>5. Becomes(IF l \in {Null, s} THEN Return(w, s) ELSE init_as_follower(w, s, l))
      BY <3>1, <3>2
    <3>6. l \in Others(s) /\ Becomes(init_as_follower(w, s, l))  BY <3>4, <3>5, <2>2 DEF Others
    <3>7. Fine(World, init_as_follower(w, s, l), W, Server)  BY <3>6, <1>9
    <3> QED  BY <1>7, <3>6, <3>7, SteadyIs
  <2> QED  BY <2>1, <2>2
<1> QED  BY <1>7, <1>10, <1>11

LEMMA MsgIs ==
    ASSUME Sane, NEW m \in msgs
    PROVE  /\ msgs \subseteq Msg
           /\ m.type = "request" => m \in Request /\ m.from # m.to
           /\ m.type = "vote" => m \in Vote /\ m.from # m.to
           /\ m.type = "elected" => m \in Notice
           /\ m.type = "new_master" => m \in NewMaster /\ m.from # m.to
           /\ m.type = "heard" => m \in Heard /\ m.from # m.to
           /\ m.type = "due" => m.from \in Server
           /\ m.type = "asking" => m.from \in Server /\ m.term \in Terms
<1>1. msgs \subseteq Msg  BY WorldIs DEF Sane, Ok
<1> QED  BY <1>1 DEF Msg, Request, Vote, Notice, NewMaster, Heard, Asking, Run

LEMMA MsgsStep ==
    ASSUME Sane, NEW ms, ms \subseteq Msg, \A m \in ms : IsBallot(m) => m \in msgs,
           msgs' = ms, UNCHANGED <<node, conn, used>>
    PROVE  Steady
<1> DEFINE w == SetMsgs(World, ms)
<1>1. Fine(World, World, used.writes, Server)  BY SaneFine
<1>2. Fine(World, w, used.writes, Server) /\ w.node = node /\ w.conn = conn /\ w.msgs = ms
  BY <1>1, WorldIs, PutMsgs
<1> HIDE DEF w
<1>3. Becomes(w)  BY <1>2 DEF Becomes
<1> QED  BY <1>2, <1>3, SteadyIs

LEMMA AnnounceSteady ==
    ASSUME Sane, NEW m \in msgs, broadcast_new_master_with_check(m)
    PROVE  Steady
<1> DEFINE s == m.from
           all == {[type |-> "new_master", from |-> s, to |-> d, term |-> node[s].term] :
                      d \in node[s].nodes}
<1>1. m \in Notice /\ msgs \subseteq Msg  BY MsgIs DEF broadcast_new_master_with_check
<1>2. s \in Server  BY <1>1 DEF Notice
<1>3. node[s].term \in Terms /\ node[s].nodes \subseteq Others(s)  BY <1>2, Typed
<1>4. all \subseteq Msg /\ \A x \in all : x.type = "new_master"
  BY <1>2, <1>3 DEF Msg, NewMaster, Others
<1>5. PICK told : /\ told \in {{}, all}
                  /\ msgs' = (msgs \ {m}) \cup told /\ UNCHANGED <<node, conn, used>>
  BY DEF broadcast_new_master_with_check, broadcast_new_master_impl
<1>6. \A x \in (msgs \ {m}) \cup told : IsBallot(x) => x \in msgs  BY <1>4, <1>5 DEF IsBallot
<1>7. (msgs \ {m}) \cup told \subseteq Msg  BY <1>1, <1>4, <1>5
<1> QED  BY <1>5, <1>6, <1>7, MsgsStep

LEMMA TimeoutSteady ==
    ASSUME Sane, NEW s \in Server, Timeout(s)
    PROVE  Steady
<1> DEFINE m == [type |-> "due", from |-> s]
<1>1. msgs \subseteq Msg  BY WorldIs DEF Sane, Ok
<1>2. m \in Msg /\ ~IsBallot(m)  BY DEF Msg, Run, IsBallot
<1>3. msgs' = msgs \cup {m} /\ UNCHANGED <<node, conn, used>>  BY DEF Timeout
<1> HIDE DEF m
<1>4. msgs \cup {m} \subseteq Msg /\ \A x \in msgs \cup {m} : IsBallot(x) => x \in msgs
  BY <1>1, <1>2
<1> QED  BY <1>3, <1>4, MsgsStep

LEMMA CheckSteady ==
    ASSUME Sane, NEW m \in msgs, CheckNewMaster(m)
    PROVE  Steady
<1> DEFINE heard == [type |-> "heard", from |-> m.from, to |-> m.to, term |-> m.term,
                     higher |-> m.term > node[m.to].term]
<1>1. m \in NewMaster /\ m.from # m.to /\ msgs \subseteq Msg  BY MsgIs DEF CheckNewMaster
<1>2. heard \in Msg /\ ~IsBallot(heard)  BY <1>1 DEF Msg, NewMaster, Heard, IsBallot
<1>3. PICK told : /\ told \in {{}, {heard}}
                  /\ msgs' = (msgs \ {m}) \cup told /\ UNCHANGED <<node, conn, used>>
  BY DEF CheckNewMaster
<1> HIDE DEF heard
<1>4. /\ (msgs \ {m}) \cup told \subseteq Msg
      /\ \A x \in (msgs \ {m}) \cup told : IsBallot(x) => x \in msgs
  BY <1>1, <1>2, <1>3
<1> QED  BY <1>3, <1>4, MsgsStep

LEMMA NewMasterSteady ==
    ASSUME Sane, NEW m \in msgs, handle_new_master(m)
    PROVE  Steady
<1> DEFINE W == used.writes
           s == m.to
           ms == msgs \ {m}
           w == SetMsgs(World, ms)
           term == IF m.higher THEN m.term ELSE node[s].term
           voted == IF m.higher THEN FALSE ELSE node[s].voted
           strayed == node[s].strayed \/ (m.higher /\ m.term <= node[s].term)
           n == [node[s] EXCEPT !.leader = m.from, !.term = term, !.voted = voted,
                                !.strayed = strayed]
           known == SetNode(w, s, n)
           f == become_follower(known, s, m.from, m.term, node[s].commit, FALSE)
<1>1. Fine(World, World, W, Server) /\ W \in Idx  BY SaneFine
<1>2. m \in Heard /\ m.from # m.to /\ msgs \subseteq Msg  BY MsgIs DEF handle_new_master
<1>3. /\ s \in Server /\ m.term \in Terms /\ m.from \in Others(s)
      /\ m.higher \in BOOLEAN
  BY <1>2 DEF Heard, Others
<1>4. node[s] \in NodeType(s, W) /\ node[s].commit \in Idx  BY <1>3, Typed
<1>5. Fine(World, w, W, Server) /\ w.node = node
  <2>1. ms \subseteq Msg /\ \A x \in ms : IsBallot(x) => x \in World.msgs  BY <1>2, WorldIs
  <2> HIDE DEF ms
  <2> QED  BY <2>1, <1>1, WorldIs, PutMsgs
<1>6. [World EXCEPT !.node[s] = n, !.msgs = @ \ {m}] = known
  <2>1. PICK nf, cf, m0, x, a :
           nf = node /\ cf = conn /\ m0 = msgs /\ x = ms /\ a = n
    OBVIOUS
  <2>2. [Wd(nf, cf, m0) EXCEPT !.node[s] = a, !.msgs = @ \ {m}]
        = [[Wd(nf, cf, m0) EXCEPT !.msgs = m0 \ {m}] EXCEPT !.node[s] = a]
    BY DEF Wd
  <2> QED  BY <2>1, <2>2, WorldIs DEF SetMsgs, SetNode
<1>7. UNCHANGED used
      /\ Becomes(become_follower([World EXCEPT !.node[s] = n, !.msgs = @ \ {m}], s, m.from,
                                 m.term, node[s].commit, FALSE))
  BY DEF handle_new_master
<1>8. UNCHANGED used /\ Becomes(f)
  <2> HIDE DEF known, n
  <2> QED  BY <1>6, <1>7
<1> HIDE DEF w
<1>9. /\ term \in Terms /\ voted \in BOOLEAN /\ strayed \in BOOLEAN
      /\ node[s].strayed => strayed
      /\ strayed \/ node[s].term < term \/ (term = node[s].term /\ (node[s].voted => voted))
  <2>1. m.term \in Nat  BY <1>3, Constants
  <2>2. node[s].term \in Nat  BY <1>4, LenNat
  <2>3. node[s].term \in Terms /\ node[s].voted \in BOOLEAN /\ node[s].strayed \in BOOLEAN
    BY <1>4 DEF NodeType
  <2>4. CASE m.higher
    <3>1. term = m.term /\ voted = FALSE /\ strayed = (node[s].strayed \/ m.term <= node[s].term)
      BY <2>4
    <3>2. m.term <= node[s].term \/ node[s].term < m.term  BY <2>1, <2>2
    <3> HIDE DEF term, voted, strayed
    <3> QED  BY <3>1, <3>2, <2>3, <1>3
  <2>5. CASE ~m.higher
    <3>1. term = node[s].term /\ voted = node[s].voted /\ strayed = node[s].strayed  BY <2>3, <2>5
    <3> HIDE DEF term, voted, strayed
    <3> QED  BY <3>1, <2>3
  <2> QED  BY <2>4, <2>5
<1> HIDE DEF term, voted, strayed
<1>10. /\ n \in NodeType(s, W) /\ n.won = node[s].won /\ n.strayed = strayed
       /\ n.votes = node[s].votes /\ n.log = node[s].log /\ n.peers = node[s].peers
       /\ n.exec = node[s].exec /\ n.applied = node[s].applied
       /\ n.match = node[s].match /\ n.role = node[s].role /\ n.term = term /\ n.voted = voted
  BY <1>3, <1>4, <1>9 DEF NodeType
<1> HIDE DEF n
<1>11. Mild(node[s], n)  BY <1>4, <1>9, <1>10, LenNat, MildIs
<1>12. Fine(World, known, W, Server)  BY <1>3, <1>5, <1>10, <1>11, PutNode
<1> HIDE DEF known
<1>13. Fine(World, f, W, Server)
  <2>1. m.from \in Others(s) \cup {Null}  BY <1>3
  <2> QED  BY <2>1, <1>1, <1>3, <1>4, <1>12, BecomeFollowerFine
<1> HIDE DEF f
<1> QED  BY <1>8, <1>13, SteadyIs

(* What handle_append_entries_response makes of the leader: the follower's log is  *)
(* as long as its answer says.                                                     *)
Moved(n, f, k) == [n EXCEPT !.match = With(@, f, k), !.next = With(@, f, k + 1)]

LEMMA RetypeIndexes ==
    ASSUME NEW W, NEW s, NEW n \in NodeType(s, W),
           NEW match \in Tables(Idx), NEW next \in Tables(0..(MaxWrites + 1))
    PROVE  [n EXCEPT !.match = match, !.next = next] \in NodeType(s, W)
<1> DEFINE m == [n EXCEPT !.match = match]
<1>1. m \in NodeType(s, W)  BY DEF NodeType
<1>2. [n EXCEPT !.match = match, !.next = next] = [m EXCEPT !.next = next]  BY DEF NodeType
<1> HIDE DEF m
<1>3. [m EXCEPT !.next = next] \in NodeType(s, W)  BY <1>1 DEF NodeType
<1> QED  BY <1>2, <1>3

LEMMA MovedIs ==
    ASSUME Sane, NEW l \in Server, NEW f \in Server, conn[f].to = l, conn[f].open,
           NEW m \in UpType, m.index <= Len(node[f].log)
    PROVE  LET n == Moved(node[l], f, NewMatch(node[l], f, m))
           IN  /\ n \in NodeType(l, used.writes) /\ Later(node[l], n) /\ n.role = node[l].role
               /\ n.log = node[l].log /\ (Tidy(node[l]) => Tidy(n))
               /\ \A g \in n.peers : conn[g].to = l /\ conn[g].open =>
                      At(n.match, g) <= Len(node[g].log)
<1> DEFINE W == used.writes
           n0 == node[l]
           k == NewMatch(n0, f, m)
           match == With(n0.match, f, k)
           next == With(n0.next, f, k + 1)
           n == [n0 EXCEPT !.match = match, !.next = next]
<1>1. n0 \in NodeType(l, W) /\ n0.match \in Tables(Idx) /\ n0.next \in Tables(0..(MaxWrites + 1))
  <2>1. n0 \in NodeType(l, W)  BY Typed
  <2> QED  BY <2>1 DEF NodeType
<1>2. Idx \in SUBSET Nat /\ 0..(MaxWrites + 1) \in SUBSET Nat /\ 0 \in Idx  BY Constants
<1>3. m.index \in Idx /\ At(n0.match, f) \in Idx
  <2>1. m.index \in Idx  BY DEF UpType
  <2>2. At(n0.match, f) \in Idx \cup {0}  BY <1>1, <1>2, AtIs
  <2> QED  BY <2>1, <2>2, <1>2
<1>4. k \in Idx /\ k \in {At(n0.match, f), m.index}
  <2>1. k = Max({At(n0.match, f), m.index})  BY DEF NewMatch
  <2>2. At(n0.match, f) \in Nat /\ m.index \in Nat  BY <1>2, <1>3
  <2> HIDE DEF k
  <2>3. k \in {At(n0.match, f), m.index}  BY <2>1, <2>2, OfTwo
  <2> QED  BY <2>3, <1>3
<1> HIDE DEF k, n0
<1>5. k + 1 \in 0..(MaxWrites + 1)  BY <1>4, Constants DEF Idx
<1>6. match \in Tables(Idx) /\ \A g : At(match, g) = IF g = f THEN k ELSE At(n0.match, g)
  BY <1>1, <1>2, <1>4, WithIs
<1>7. next \in Tables(0..(MaxWrites + 1))  BY <1>1, <1>2, <1>5, WithIs
<1> HIDE DEF match, next
<1>8. n \in NodeType(l, W)  BY <1>1, <1>6, <1>7, RetypeIndexes
<1>9. /\ n.won = n0.won /\ n.strayed = n0.strayed /\ n.votes = n0.votes /\ n.term = n0.term
      /\ n.voted = n0.voted /\ n.log = n0.log /\ n.peers = n0.peers /\ n.role = n0.role
      /\ n.match = match /\ n.exec = n0.exec /\ n.applied = n0.applied
  BY <1>1 DEF NodeType
<1>14. Tidy(n0) => Tidy(n)
  <2> HIDE DEF n
  <2> QED  BY <1>9, SameTidy
<1>10. Later(n0, n)  BY <1>1, <1>9, LenNat DEF Later
<1>11. ASSUME NEW g \in n.peers, conn[g].to = l, conn[g].open
       PROVE  At(n.match, g) <= Len(node[g].log)
  <2>1. g \in n0.peers /\ g \in Server
    <3>1. n0.peers \subseteq Server  BY Typed DEF Others, n0
    <3> QED  BY <3>1, <1>9, <1>11
  <2>2. At(n0.match, g) <= Len(node[g].log)
    BY <2>1, <1>11, WorldIs DEF Sane, Held, Sound, n0
  <2>3. CASE g = f
    <3>1. At(n.match, g) = k  BY <2>3, <1>6, <1>9
    <3> QED  BY <3>1, <1>4, <2>2, <2>3
  <2>4. CASE g # f
    <3>1. At(n.match, g) = At(n0.match, g)  BY <2>4, <1>6, <1>9
    <3> QED  BY <3>1, <2>2
  <2> QED  BY <2>3, <2>4
<1> HIDE DEF n
<1>12. /\ n \in NodeType(l, W) /\ Later(node[l], n) /\ n.role = node[l].role /\ n.log = node[l].log
       /\ Tidy(node[l]) => Tidy(n)
       /\ \A g \in n.peers : conn[g].to = l /\ conn[g].open => At(n.match, g) <= Len(node[g].log)
  BY <1>8, <1>9, <1>10, <1>11, <1>14 DEF n0
<1>13. Moved(node[l], f, NewMatch(node[l], f, m)) = n  BY DEF Moved, n, n0, k, match, next
<1> QED  BY <1>12, <1>13

LEMMA BackIs ==
    ASSUME Sane, NEW l \in Server, NEW f \in Server
    PROVE  LET n == [node[l] EXCEPT !.next = With(@, f, Max({At(@, f), 1}) - 1)]
           IN  n \in NodeType(l, used.writes) /\ Alike(node[l], n) /\ n.role = node[l].role
<1> DEFINE n0 == node[l]
           i == At(n0.next, f)
           k == Max({i, 1})
           next == With(n0.next, f, k - 1)
           n == [n0 EXCEPT !.next = next]
           S == 0..(MaxWrites + 1)
<1>1. n0 \in NodeType(l, used.writes)  BY Typed
<1>2. n0.next \in Tables(S)  BY <1>1 DEF NodeType
<1>3. S \in SUBSET Nat /\ 0 \in S /\ 1 \in S  BY Constants
<1>4. i \in S
  <2>1. i \in S \cup {0}  BY <1>2, <1>3, AtIs
  <2> QED  BY <2>1, <1>3
<1> HIDE DEF i
<1>5. k \in {i, 1} /\ k >= 1
  <2>1. i \in Nat /\ 1 \in Nat  BY <1>3, <1>4
  <2> QED  BY <2>1, OfTwo
<1> HIDE DEF k
<1>6. k - 1 \in S  BY <1>3, <1>4, <1>5, Constants
<1> HIDE DEF S
<1>7. next \in Tables(S)  BY <1>2, <1>3, <1>6, WithIs
<1> HIDE DEF next, n0
<1>8. n \in NodeType(l, used.writes) /\ Alike(n0, n) /\ n.role = n0.role
  BY <1>1, <1>7 DEF NodeType, Alike, S, Tidy, Runs, Over
<1> QED  BY <1>8 DEF n0, next, k, i

LEMMA AnswerSteady ==
    ASSUME Sane, NEW l \in Server, NEW f \in Server, handle_append_entries_response(l, f)
    PROVE  Steady
<1> DEFINE W == used.writes
           m == Head(conn[f].up)
           c == [conn[f] EXCEPT !.up = Tail(conn[f].up)]
           w == SetConn(World, f, c)
           k == NewMatch(node[l], f, m)
           moved == Moved(node[l], f, k)
           back == [node[l] EXCEPT !.next = With(@, f, Max({At(@, f), 1}) - 1)]
<1>1. Fine(World, World, W, Server) /\ W \in Idx  BY SaneFine
<1>2. conn[f].open /\ conn[f].up # <<>> /\ conn[f].to = l  BY DEF handle_append_entries_response
<1>3. conn[f] \in ConnType(f, W) /\ conn[f].up \in Seq(UpType)  BY Typed DEF ConnType
<1>4. m \in UpType /\ Tail(conn[f].up) \in Seq(UpType)
      /\ \A i \in DOMAIN Tail(conn[f].up) :
             i + 1 \in DOMAIN conn[f].up /\ Tail(conn[f].up)[i] = conn[f].up[i + 1]
  BY <1>2, <1>3, HeadTailProperties
<1>5. \A i \in DOMAIN conn[f].up : conn[f].up[i].index <= Len(node[f].log)
  BY <1>2, WorldIs DEF Sane, Held, Sound
<1>6. m.index <= Len(node[f].log)
  <2>1. 1 \in DOMAIN conn[f].up /\ m = conn[f].up[1]  BY <1>2, <1>3
  <2> QED  BY <2>1, <1>5
<1>7. [World EXCEPT !.conn[f].up = Tail(@)] = w
  <2>1. \A x, d : [d EXCEPT !.conn[f].up = x] = SetConn(d, f, [d.conn[f] EXCEPT !.up = x])
    BY DEF SetConn
  <2> QED  BY <2>1, WorldIs
<1>8. UNCHANGED used /\ \E next \in {moved, back} : \E x \in {next, try_commit_entries(next)} :
          \/ Becomes(SetNode(w, l, x))
          \/ Becomes(send_append_entries(SetNode(w, l, x), l, f))
  <2>1. PICK next \in {moved, back} : \E x \in {next, try_commit_entries(next)} :
            \/ Becomes([w EXCEPT !.node[l] = x])
            \/ Becomes(send_append_entries([w EXCEPT !.node[l] = x], l, f))
    BY <1>7 DEF handle_append_entries_response, Moved
  <2>2. UNCHANGED used  BY DEF handle_append_entries_response
  <2> QED  BY <2>1, <2>2 DEF SetNode
<1> HIDE DEF m
<1>9. c \in ConnType(f, W) /\ c.to = conn[f].to /\ c.open = conn[f].open
      /\ c.up = Tail(conn[f].up) /\ c.down = conn[f].down
  BY <1>3, <1>4 DEF ConnType
<1> HIDE DEF c
<1>10. Fine(World, w, W, Server) /\ ConnSet(World, w, f, c)
  <2>1. Narrow(World, f, c)  BY <1>4, <1>5, <1>9, WorldIs DEF Narrow
  <2>2. Quotes(World, conn[f])  BY <1>1, OldQuotes, WorldIs
  <2>3. Quotes(World, c)  BY <1>9, <2>2 DEF Quotes
  <2> QED  BY <2>1, <2>3, <1>1, <1>9, PutConn
<1> HIDE DEF w
<1>11. /\ w.node = node /\ node[l] \in NodeType(l, W)
       /\ \A g \in Server : w.conn[g].to = conn[g].to /\ w.conn[g].open = conn[g].open
  BY <1>9, <1>10, WorldIs, Typed DEF ConnSet
<1>12. ASSUME NEW next \in {moved, back}
       PROVE  /\ next \in NodeType(l, W) /\ Later(node[l], next) /\ next.role = node[l].role
              /\ next.log = node[l].log /\ (Tidy(node[l]) => Tidy(next))
              /\ \A g \in next.peers \cap Server : conn[g].to = l /\ conn[g].open =>
                     At(next.match, g) <= Len(node[g].log)
  <2>1. CASE next = moved
    <3>1. /\ moved \in NodeType(l, W) /\ Later(node[l], moved) /\ moved.role = node[l].role
          /\ moved.log = node[l].log /\ (Tidy(node[l]) => Tidy(moved))
          /\ \A g \in moved.peers : conn[g].to = l /\ conn[g].open =>
                 At(moved.match, g) <= Len(node[g].log)
      BY <1>2, <1>4, <1>6, MovedIs
    <3> HIDE DEF moved
    <3> QED  BY <2>1, <3>1
  <2>2. CASE next = back
    <3>1. back \in NodeType(l, W) /\ Alike(node[l], back) /\ back.role = node[l].role  BY BackIs
    <3> HIDE DEF back
    <3>2. Later(node[l], back)  BY <1>11, <3>1, LenNat DEF Alike, Later
    <3>3. ASSUME NEW g \in back.peers \cap Server, conn[g].to = l, conn[g].open
          PROVE  At(back.match, g) <= Len(node[g].log)
      BY <3>1, <3>3, WorldIs DEF Alike, Sane, Held, Sound
    <3> QED  BY <2>2, <3>1, <3>2, <3>3 DEF Alike
  <2> QED  BY <2>1, <2>2
<1> HIDE DEF moved, back
<1>13. ASSUME NEW next \in {moved, back}, NEW x \in {next, try_commit_entries(next)}
       PROVE  Fine(World, SetNode(w, l, x), W, Server)
  <2>1. Ran(next, x) /\ (Tidy(next) => Tidy(x))
    <3>1. next \in NodeType(l, W)  BY <1>12
    <3> QED  BY <3>1, <1>1, <1>13, RanSelf, TryCommitRan DEF RanWell
  <2>2. /\ x \in NodeType(l, W) /\ x.role = next.role /\ x.log = next.log /\ x.peers = next.peers
        /\ x.match = next.match /\ x.won = next.won /\ x.strayed = next.strayed
        /\ x.votes = next.votes /\ x.term = next.term /\ x.voted = next.voted
    BY <2>1, <1>1, <1>12, RanIs
  <2>3. Later(node[l], x)  BY <2>2, <1>12 DEF Later
  <2>4. Len(node[l].log) \in Nat /\ Len(node[l].log) <= Len(x.log)
    BY <2>2, <1>11, <1>12, LenNat
  <2>5. \A g \in x.peers \cap Server : w.conn[g].to = l /\ w.conn[g].open =>
            At(x.match, g) <= Len(w.node[g].log)
    BY <2>2, <1>11, <1>12
  <2>6. x.role = node[l].role  BY <2>2, <1>12
  <2>7. Apt(World, l, x)
    <3>1. x.log = w.node[l].log /\ (Tidy(w.node[l]) => Tidy(x))  BY <2>1, <2>2, <1>11, <1>12
    <3> QED  BY <3>1, <1>10, AptIs
  <2> QED  BY <2>2, <2>3, <2>4, <2>5, <2>6, <2>7, <1>10, <1>11, PutAnyNode
<1>14. PICK next \in {moved, back} : \E x \in {next, try_commit_entries(next)} :
          \/ Becomes(SetNode(w, l, x))
          \/ Becomes(send_append_entries(SetNode(w, l, x), l, f))
  BY <1>8
<1>15. PICK x \in {next, try_commit_entries(next)} :
          \/ Becomes(SetNode(w, l, x))
          \/ Becomes(send_append_entries(SetNode(w, l, x), l, f))
  BY <1>14
<1>16. Fine(World, SetNode(w, l, x), W, Server)  BY <1>13, <1>14, <1>15
<1>17. Fine(World, send_append_entries(SetNode(w, l, x), l, f), W, Server)
  BY <1>1, <1>16, SendEntriesFine
<1> QED  BY <1>8, <1>15, <1>16, <1>17, SteadyIs

LEMMA HeartbeatSteady ==
    ASSUME Sane, NEW l \in Server, NEW f \in Server, Heartbeat(l, f)
    PROVE  Steady
<1>1. Fine(World, World, used.writes, Server) /\ used.writes \in Idx  BY SaneFine
<1>2. Fine(World, send_append_entries(World, l, f), used.writes, Server)
  BY <1>1, SendEntriesFine
<1>3. Becomes(send_append_entries(World, l, f)) /\ UNCHANGED used
  BY DEF Heartbeat, send_heartbeat_to_all
<1> QED  BY <1>2, <1>3, SteadyIs

LEMMA ForgetIs ==
    ASSUME NEW W \in Idx, NEW s, NEW n \in NodeType(s, W), NEW f
    PROVE  Forget(n, f) \in NodeType(s, W) /\ Mild(n, Forget(n, f)) /\ Forget(n, f).role = n.role
<1> DEFINE peers == n.peers \ {f}
           next == Without(n.next, f)
           match == Without(n.match, f)
           m == [n EXCEPT !.peers = peers, !.next = next, !.match = match]
<1>1. Forget(n, f) = m  BY DEF Forget
<1>2. n.next \in Tables(0..(MaxWrites + 1)) /\ n.match \in Tables(Idx) /\ n.peers \in SUBSET Others(s)
  BY DEF NodeType
<1>3. 0..(MaxWrites + 1) \in SUBSET Nat /\ Idx \in SUBSET Nat  BY Constants
<1>4. next \in Tables(0..(MaxWrites + 1))  BY <1>2, <1>3, WithoutIs
<1>5. match \in Tables(Idx) /\ \A g : At(match, g) <= At(n.match, g)  BY <1>2, <1>3, WithoutIs
<1> HIDE DEF next, match
<1>6. m \in NodeType(s, W)  BY <1>2, <1>4, <1>5 DEF NodeType
<1>7. /\ m.won = n.won /\ m.strayed = n.strayed /\ m.votes = n.votes /\ m.term = n.term
      /\ m.voted = n.voted /\ m.log = n.log /\ m.peers = peers /\ m.match = match
      /\ m.role = n.role /\ m.exec = n.exec /\ m.applied = n.applied
  BY DEF NodeType
<1> HIDE DEF m
<1>9. Tidy(n) => Tidy(m)  BY <1>7, SameTidy
<1>8. Mild(n, m)  BY <1>5, <1>7, <1>9, LenNat DEF Mild, Gentle, Later
<1> QED  BY <1>1, <1>6, <1>7, <1>8

LEMMA CloseSocketSteady ==
    ASSUME Sane, NEW l \in Server, NEW f \in Server, close_socket(l, f)
    PROVE  Steady
<1>1. used.writes \in Idx /\ node[l] \in NodeType(l, used.writes)  BY SaneFine, Typed
<1>2. PICK n : n = Forget(node[l], f)  OBVIOUS
<1>3. n \in NodeType(l, used.writes) /\ Mild(node[l], n) /\ n.role = node[l].role
  BY <1>1, <1>2, ForgetIs
<1>4. node' = [node EXCEPT ![l] = n] /\ UNCHANGED <<conn, msgs, used>>
  BY <1>2 DEF close_socket
<1> QED  BY <1>3, <1>4, NodeStep

LEMMA RemoveNodeSteady ==
    ASSUME Sane, NEW l \in Server, NEW f \in Server, remove_node(l, f)
    PROVE  Steady
<1> DEFINE W == used.writes
           m == [type |-> "leave", addr |-> f]
           told == broadcast_to_followers(World, l, m)
           n == Forget(node[l], f)
           nodes == n.nodes \ {f}
           left == [n EXCEPT !.nodes = nodes]
           w == SetNode(told, l, left)
<1>1. Fine(World, World, W, Server) /\ W \in Idx  BY SaneFine
<1>2. m \in DownType(W) /\ Cites(World, m)  BY CitesIs DEF DownType
<1> HIDE DEF m
<1>3. Fine(World, told, W, Server) /\ SameLinks(World, told)  BY <1>1, <1>2, BroadcastFine
<1>4. Becomes(w) /\ Use("commands")  BY DEF remove_node, SetNode, m
<1> HIDE DEF told
<1>5. node[l] \in NodeType(l, W)  BY Typed
<1>6. n \in NodeType(l, W) /\ Mild(node[l], n) /\ n.role = node[l].role  BY <1>1, <1>5, ForgetIs
<1> HIDE DEF n
<1>7. nodes \in SUBSET Others(l)  BY <1>6 DEF NodeType
<1> HIDE DEF nodes
<1>8. left \in NodeType(l, W) /\ Alike(n, left) /\ left.role = n.role
  BY <1>6, <1>7 DEF NodeType, Alike, Tidy, Runs, Over
<1> HIDE DEF left
<1>9. Mild(node[l], left)  BY <1>6, <1>8 DEF Alike, Mild, Gentle, Later
<1>10. Fine(World, w, W, Server)
  <2>1. told.node = node  BY <1>3, WorldIs DEF SameLinks
  <2> QED  BY <2>1, <1>3, <1>6, <1>8, <1>9, PutNode
<1> HIDE DEF w
<1> QED  BY <1>4, <1>10, SteadyIs


LEMMA SetMasterSteady ==
    ASSUME Sane, NEW s \in Server, NEW t \in Server, SetMaster(s, t)
    PROVE  Steady
<1> DEFINE W == used.writes
           low == node[s].strayed \/ node[s].term > 0
           n == [node[s] EXCEPT !.log = <<>>, !.exec = <<>>, !.applied = 0, !.commit = 0,
                                !.term = 0, !.strayed = low]
           w == SetNode(World, s, n)
           again == become_follower(World, s, t, node[s].term, node[s].commit, FALSE)
           other == become_follower(w, s, t, 0, 0, FALSE)
<1>1. Fine(World, World, W, Server) /\ W \in Idx  BY SaneFine
<1>2. node[s].role = "Leader" /\ s # t /\ (Becomes(again) \/ Becomes(other)) /\ Use("commands")
      /\ s \in Joiners
  BY DEF SetMaster, SetNode
<1>3. /\ node[s] \in NodeType(s, W) /\ node[s].term \in Terms /\ node[s].commit \in Idx
      /\ node[s].strayed \in BOOLEAN
  <2>1. node[s] \in NodeType(s, W)  BY Typed
  <2> QED  BY <2>1 DEF NodeType
<1>4. t \in Others(s) \cup {Null}  BY <1>2 DEF Others
<1>5. Fine(World, again, W, Server)  BY <1>1, <1>3, <1>4, BecomeFollowerFine
<1> HIDE DEF again
<1>6. low \in BOOLEAN /\ (node[s].strayed => low) /\ (low \/ node[s].term = 0)
  <2>1. node[s].term \in Nat  BY <1>3, Constants
  <2> QED  BY <2>1, <1>3
<1> HIDE DEF low
<1>7. /\ n \in NodeType(s, W) /\ n.won = node[s].won /\ n.strayed = low
      /\ n.votes = node[s].votes /\ n.term = 0 /\ n.voted = node[s].voted
      /\ n.peers = node[s].peers /\ n.match = node[s].match /\ n.role = node[s].role
      /\ n.log = <<>> /\ n.exec = <<>> /\ n.applied = 0
  <2>1. 0 \in Idx /\ 0 \in Terms  BY Constants
  <2>2. <<>> \in {q \in Seq(Entry) : Len(q) <= W} /\ <<>> \in Seq(1..MaxWrites)
    <3>1. W >= 0  BY <1>1, Constants DEF Idx
    <3> QED  BY <3>1, EmptySeq
  <2> QED  BY <2>1, <2>2, <1>3, <1>6 DEF NodeType
<1> HIDE DEF n
<1>8. Later(node[s], n)  BY <1>3, <1>6, <1>7, LenNat DEF Later
<1>9. ~conn[s].open  BY <1>2, WorldIs DEF Sane, Held, Sound
<1>10. ASSUME NEW f \in n.peers \cap Server, conn[f].to = s, conn[f].open
       PROVE  At(n.match, f) <= Len(node[f].log)
  <2>1. f \in Server /\ f \in node[s].peers  BY <1>7
  <2> QED  BY <2>1, <1>7, <1>10, WorldIs DEF Sane, Held, Sound
<1>13. Apt(World, s, n)
  <2>1. Len(n.log) = 0 /\ Len(n.exec) = 0  BY <1>7
  <2>2. Runs(n)  BY <1>7, <2>1 DEF Runs
  <2>3. \A L \in Seq(Entry) : Copy(n.log, L)  BY <2>1 DEF Copy
  <2> QED  BY <2>2, <2>3, <1>2 DEF Apt, Tidy
<1>11. Fine(World, w, W, Server)
  BY <1>1, <1>7, <1>8, <1>9, <1>10, <1>13, WorldIs, PutAnyNode
<1> HIDE DEF w
<1>12. Fine(World, other, W, Server)
  <2>1. 0 \in Idx /\ 0 \in Terms  BY Constants
  <2> QED  BY <2>1, <1>1, <1>4, <1>11, BecomeFollowerFine
<1> HIDE DEF other
<1> QED  BY <1>2, <1>5, <1>12, SteadyIs


-----------------------------------------------------------------------------
(* A client's write: a type for W writes is one for more. *)

LEMMA NodeGrows ==
    ASSUME NEW W \in Idx, NEW V \in Idx, W <= V, NEW s, NEW n \in NodeType(s, W)
    PROVE  n \in NodeType(s, V)
<1>1. n.log \in {q \in Seq(Entry) : Len(q) <= V}
  <2>1. n.log \in Seq(Entry) /\ Len(n.log) <= W  BY DEF NodeType
  <2>2. Len(n.log) \in Nat /\ W \in Nat /\ V \in Nat  BY <2>1, Constants
  <2>3. Len(n.log) <= V  BY <2>1, <2>2
  <2> QED  BY <2>1, <2>3
<1> QED  BY <1>1 DEF NodeType

LEMMA ConnGrows ==
    ASSUME NEW W \in Idx, NEW V \in Idx, W <= V, NEW s, NEW c \in ConnType(s, W)
    PROVE  c \in ConnType(s, V)
<1>1. ASSUME NEW m \in AppendType(W) PROVE m \in AppendType(V)
  <2>1. m.entries \in Seq(Entry) /\ m.prev \in Idx /\ (m.entries # <<>> => m.prev + Len(m.entries) <= W)
    BY DEF AppendType
  <2>2. Len(m.entries) \in Nat  BY <2>1
  <2>3. m.prev \in Nat /\ W \in Nat /\ V \in Nat  BY <2>1, Constants
  <2>4. m.entries # <<>> => m.prev + Len(m.entries) <= V  BY <2>1, <2>2, <2>3
  <2> QED  BY <2>4 DEF AppendType
<1>2. \A m \in DownType(W) : m \in DownType(V)  BY <1>1 DEF DownType
<1>3. c.down \in Seq(DownType(V))
  <2>1. c.down \in Seq(DownType(W))  BY DEF ConnType
  <2>2. \A i \in DOMAIN c.down : c.down[i] \in DownType(V)  BY <2>1, <1>2
  <2> QED  BY <2>1, <2>2, SeqDef
<1> QED  BY <1>3 DEF ConnType

LEMMA SaneGrows ==
    ASSUME Sane, NEW V \in Idx, used.writes <= V
    PROVE  Fine(World, World, V, Server)
<1>1. Fine(World, World, used.writes, Server) /\ used.writes \in Idx  BY SaneFine
<1>2. \A s \in Server : World.node[s] \in NodeType(s, V) /\ World.conn[s] \in ConnType(s, V)
  BY <1>1, Parts, NodeGrows, ConnGrows
<1> QED  BY <1>1, <1>2 DEF Fine, Ok

LEMMA SubmitAppendFine ==
    ASSUME Sane, NEW s \in Server, SubmitAppend(s)
    PROVE  /\ Ok(World', used'.writes) /\ Held(World', Server) /\ Keeps(World, World')
           /\ used' \in UsedType /\ s \in Writers
           /\ World'.conn = World.conn
           /\ \A x \in Server \ {s} : World'.node[x] = World.node[x]
           /\ \E e \in Entry : World'.node[s].log = Append(World.node[s].log, e)
           /\ World'.node[s].exec = World.node[s].exec
           /\ World'.node[s].applied = World.node[s].applied
<1> DEFINE V == used.writes + 1
           e == [term |-> node[s].term, id |-> V]
           log == Append(node[s].log, e)
           n == [node[s] EXCEPT !.writing = "appended", !.log = log]
           w == SetNode(World, s, n)
<1>1. used.writes \in Nat /\ used.writes \in Idx /\ used.writes < MaxWrites /\ used \in UsedType
  BY Constants DEF SubmitAppend, Left, Sane, UsedType
<1>2. V \in Idx /\ used.writes <= V /\ V \in 1..MaxWrites  BY <1>1, Constants DEF Idx
<1>3. used' \in UsedType /\ used'.writes = V
  <2>1. used' = [used EXCEPT !.writes = V]  BY DEF SubmitAppend, Use
  <2> HIDE DEF V
  <2> QED  BY <2>1, <1>1, <1>2 DEF UsedType
<1>4. Fine(World, World, V, Server)  BY <1>2, SaneGrows
<1>5. node' = [node EXCEPT ![s] = n] /\ UNCHANGED <<conn, msgs>> /\ node[s].writing = "checked"
  BY DEF SubmitAppend
<1>6. node[s] \in NodeType(s, used.writes)  BY Typed
<1>7. node[s].log \in Seq(Entry) /\ Len(node[s].log) <= used.writes /\ Len(node[s].log) \in Nat
      /\ node[s].term \in Terms
  BY <1>6 DEF NodeType
<1>15. s \in Writers /\ "appended" \in Stages(s)
  <2>1. node[s].writing \in Stages(s)  BY <1>6 DEF NodeType
  <2> QED  BY <2>1, <1>5 DEF Stages
<1>8. e \in Entry /\ log \in Seq(Entry) /\ Len(log) <= V /\ Len(node[s].log) <= Len(log)
  <2>1. e \in Entry  BY <1>2, <1>7 DEF Entry
  <2> HIDE DEF e
  <2>2. log \in Seq(Entry) /\ Len(log) = Len(node[s].log) + 1  BY <2>1, <1>7
  <2> QED  BY <2>1, <2>2, <1>1, <1>7
<1>16. log = Append(node[s].log, e)  OBVIOUS
<1> HIDE DEF log, e
<1>9. node[s] \in NodeType(s, V)  BY <1>1, <1>2, <1>6, NodeGrows
<1> HIDE DEF V
<1>10. /\ n \in NodeType(s, V) /\ n.won = node[s].won /\ n.strayed = node[s].strayed
       /\ n.votes = node[s].votes /\ n.term = node[s].term /\ n.voted = node[s].voted
       /\ n.log = log /\ n.peers = node[s].peers /\ n.match = node[s].match
       /\ n.role = node[s].role /\ n.exec = node[s].exec /\ n.applied = node[s].applied
  BY <1>8, <1>9, <1>15 DEF NodeType
<1> HIDE DEF n
<1>11. Later(node[s], n)
  <2>1. node[s].votes <= node[s].votes  BY <1>9, LenNat
  <2> QED  BY <2>1, <1>10 DEF Later
<1>12. Ok(w, V) /\ Held(w, Server) /\ NodeSet(World, w, s, n)
  <2>1. ASSUME NEW f \in n.peers \cap Server, conn[f].to = s, conn[f].open
        PROVE  At(n.match, f) <= Len(node[f].log)
    BY <1>10, <2>1, WorldIs DEF Sane, Held, Sound
  <2>2. Ok(World, V) /\ Held(World, Server)  BY <1>4 DEF Fine
  <2> QED  BY <2>1, <2>2, <1>8, <1>10, WorldIs, SafeNode
<1> HIDE DEF w
<1>13. Keeps(World, w)
  <2>1. Keeps(World, World)  BY <1>4 DEF Fine
  <2>2. w.node[s] = n /\ w.msgs = World.msgs /\ \A x \in Server \ {s} : w.node[x] = World.node[x]
    BY <1>12 DEF NodeSet
  <2> QED  BY <2>1, <2>2, <1>11, WorldIs DEF Keeps
<1>14. World' = w
  <2>1. Becomes(w)  BY <1>5, <1>12, WorldIs DEF NodeSet, Becomes
  <2>2. w = Wd(w.node, w.conn, w.msgs)  BY <1>12 DEF Ok
  <2>3. node' = w.node /\ conn' = w.conn /\ msgs' = w.msgs  BY <2>1 DEF Becomes
  <2> QED  BY <2>2, <2>3 DEF World, Wd
<1>17. w.node[s] = n /\ w.conn = World.conn /\ \A x \in Server \ {s} : w.node[x] = World.node[x]
  BY <1>12 DEF NodeSet
<1> QED  BY <1>3, <1>8, <1>10, <1>12, <1>13, <1>14, <1>15, <1>16, <1>17, WorldIs


-----------------------------------------------------------------------------
(* Elections.  b[x][T] is the server that x voted for in term T, itself if it was   *)
(* a candidate.  Nothing in the model records it for terms gone by: it exists as    *)
(* long as no votes have strayed.                                                   *)

Books == [Server -> [Nat -> Server \cup {Null}]]

Granted(x, s, T) == [type |-> "vote", from |-> x, to |-> s, term |-> T, granted |-> TRUE]
Voters(b, s, T) == {x \in Server : b[x][T] = s}
Pending(w, s, T) == {x \in Server : Granted(x, s, T) \in w.msgs}
Counted(b, w, s, T) == Voters(b, s, T) \ Pending(w, s, T)

(* A vote was cast in a term that the server has reached, *)
Cast(b, n, s) == \A T \in Nat : b[s][T] # Null => n.term > T \/ (n.term = T /\ n.voted)

(* a candidate has no more votes than were cast for it and have arrived, *)
Counts(b, w, s) ==
    LET n == w.node[s]
    IN  /\ n.votes <= Cardinality(Server)
        /\ b[s][n.term] = s => n.votes <= Cardinality(Counted(b, w, s, n.term))

(* and it was not elected with more than were cast for it in that term. *)
Earned(b, n, s) == \A e \in n.won : e.votes <= Cardinality(Voters(b, s, e.term))

(* A server that will not count votes of term T. *)
Idle(n, T) == n.term > T \/ (n.term = T /\ n.role # "Candidate")

(* Votes are asked for by a server that voted for itself, or counts none; what they   *)
(* grant is on the books.                                                             *)
Booked(b, w, m) ==
    /\ m.type = "asking" => b[m.from][m.term] = m.from
    /\ m.type = "request" => b[m.from][m.term] = m.from \/ Idle(w.node[m.from], m.term)
    /\ m.type = "vote" /\ m.granted =>
           /\ b[m.from][m.term] = m.to
           /\ b[m.to][m.term] = m.to \/ Idle(w.node[m.to], m.term)

Ballots(b, w) ==
    /\ \A s \in Server : Cast(b, w.node[s], s) /\ Counts(b, w, s) /\ Earned(b, w.node[s], s)
    /\ \A m \in w.msgs : Booked(b, w, m)

Strayed(w) == \E s \in Server : w.node[s].strayed

LEMMA VotersFinite ==
    ASSUME NEW S \in SUBSET Server
    PROVE  IsFiniteSet(S) /\ Cardinality(S) \in Nat /\ Cardinality(S) <= Cardinality(Server)
           /\ Cardinality(Server) \in Nat
BY Constants, FS_Subset, FS_CardinalityType

LEMMA MoreVoters ==
    ASSUME NEW S \in SUBSET Server, NEW R \in SUBSET S
    PROVE  Cardinality(R) <= Cardinality(S) /\ Cardinality(R) \in Nat /\ Cardinality(S) \in Nat
<1>1. IsFiniteSet(S)  BY VotersFinite
<1> QED  BY <1>1, FS_Subset, FS_CardinalityType

LEMMA BallotIs ==
    ASSUME NEW m \in Msg, IsBallot(m)
    PROVE  m.from \in Server /\ m.term \in Nat /\ (m.type # "asking" => m.to \in Server)
<1>1. m.from \in Server /\ m.term \in Terms /\ (m.type # "asking" => m.to \in Server)
  BY DEF IsBallot, Msg, Request, Vote, NewMaster, Heard, Asking, Notice, Run
<1> QED  BY <1>1, Constants

LEMMA BallotsKeep ==
    ASSUME NEW W, NEW v, NEW w, Keeps(v, w), Ok(w, W), ~Strayed(w),
           NEW b \in Books, Ballots(b, v)
    PROVE  Ballots(b, w)
<1>1. ASSUME NEW s \in Server
      PROVE  /\ w.node[s].won = v.node[s].won /\ w.node[s].votes <= v.node[s].votes
             /\ w.node[s].term \in Nat /\ v.node[s].term \in Nat
             /\ w.node[s].votes \in Nat /\ v.node[s].votes \in Nat
             /\ \/ v.node[s].term < w.node[s].term
                \/ w.node[s].term = v.node[s].term /\ (v.node[s].voted => w.node[s].voted)
             /\ w.node[s].role = "Candidate" => v.node[s].role = "Candidate"
  <2>1. Later(v.node[s], w.node[s]) /\ v.node[s].term \in Nat /\ v.node[s].votes \in Nat
    BY DEF Keeps
  <2>2. w.node[s] \in NodeType(s, W)  BY DEF Ok
  <2>3. PICK n : n = w.node[s]  OBVIOUS
  <2>4. n.term \in Nat /\ n.votes \in Nat  BY <2>2, <2>3, LenNat
  <2>5. ~w.node[s].strayed  BY DEF Strayed
  <2> QED  BY <2>1, <2>3, <2>4, <2>5 DEF Later
<1>7. ASSUME NEW s \in Server, NEW T \in Nat, Idle(v.node[s], T)
      PROVE  Idle(w.node[s], T)
  <2>1. PICK t, u : t = w.node[s].term /\ u = v.node[s].term /\ t \in Nat /\ u \in Nat
    BY <1>1
  <2>2. u < t \/ t = u  BY <1>1, <2>1
  <2>3. CASE u > T
    <3>1. t > T  BY <2>1, <2>2, <2>3
    <3> QED  BY <3>1, <2>1 DEF Idle
  <2>4. CASE u = T /\ v.node[s].role # "Candidate"
    <3>1. w.node[s].role # "Candidate"  BY <1>1, <2>4
    <3>2. t > T \/ t = T  BY <2>2, <2>4
    <3> QED  BY <3>1, <3>2, <2>1 DEF Idle
  <2> QED  BY <1>7, <2>1, <2>3, <2>4 DEF Idle
<1>2. ASSUME NEW m \in w.msgs PROVE Booked(b, w, m)
  <2>1. CASE IsBallot(m)
    <3>1. m \in v.msgs /\ Booked(b, v, m) /\ m \in Msg  BY <2>1 DEF Keeps, Ballots, Ok
    <3>2. /\ m.from \in Server /\ m.term \in Nat
          /\ m.type # "asking" => m.to \in Server
      BY <2>1, <3>1, BallotIs
    <3> QED  BY <3>1, <3>2, <1>7 DEF Booked
  <2>2. CASE ~IsBallot(m)  BY <2>2 DEF IsBallot, Booked
  <2> QED  BY <2>1, <2>2
<1>3. \A s \in Server : \A T : Pending(w, s, T) \subseteq Pending(v, s, T)
  BY DEF Keeps, Pending, Granted, IsBallot
<1>4. ASSUME NEW s \in Server PROVE Cast(b, w.node[s], s)
  <2> SUFFICES ASSUME NEW T \in Nat, b[s][T] # Null
               PROVE  w.node[s].term > T \/ (w.node[s].term = T /\ w.node[s].voted)
    BY DEF Cast
  <2>1. v.node[s].term > T \/ (v.node[s].term = T /\ v.node[s].voted)  BY DEF Ballots, Cast
  <2>2. PICK t, u, x, y : /\ t = w.node[s].term /\ u = v.node[s].term
                          /\ x = w.node[s].voted /\ y = v.node[s].voted
    OBVIOUS
  <2>3. t \in Nat /\ u \in Nat /\ (u < t \/ (t = u /\ (y => x)))  BY <1>1, <2>2
  <2>4. CASE u > T
    <3>1. t > T  BY <2>3, <2>4
    <3> QED  BY <3>1, <2>2
  <2>5. CASE u = T /\ y
    <3>1. CASE t > u  BY <3>1, <2>2, <2>5
    <3>2. CASE ~(t > u)
      <4>1. t = u /\ (y => x)  BY <2>3, <3>2
      <4> QED  BY <4>1, <2>2, <2>5
    <3> QED  BY <3>1, <3>2
  <2> QED  BY <2>1, <2>2, <2>4, <2>5
<1>5. ASSUME NEW s \in Server PROVE Counts(b, w, s)
  <2>1. Counts(b, v, s)  BY DEF Ballots
  <2>2. PICK t, u, x, y : /\ t = w.node[s].term /\ u = v.node[s].term
                          /\ x = w.node[s].votes /\ y = v.node[s].votes
    OBVIOUS
  <2>3. x \in Nat /\ y \in Nat /\ x <= y /\ t \in Nat /\ u \in Nat  BY <1>1, <2>2
  <2>4. x <= Cardinality(Server)
    <3>1. y <= Cardinality(Server) /\ Cardinality(Server) \in Nat
      BY <2>1, <2>2, VotersFinite DEF Counts
    <3> QED  BY <3>1, <2>3
  <2>5. ASSUME b[s][t] = s PROVE x <= Cardinality(Counted(b, w, s, t))
    <3>1. u = t
      <4>1. b[s][t] # Null  BY <2>5, Constants
      <4>2. u > t \/ u = t  BY <4>1, <2>2, <2>3 DEF Ballots, Cast
      <4>3. u < t \/ u = t  BY <1>1, <2>2
      <4> QED  BY <4>2, <4>3, <2>3
    <3>2. y <= Cardinality(Counted(b, v, s, t))  BY <2>1, <2>2, <2>5, <3>1 DEF Counts
    <3>3. Counted(b, v, s, t) \subseteq Counted(b, w, s, t) /\ Counted(b, w, s, t) \subseteq Server
      BY <1>3 DEF Counted, Voters
    <3>4. PICK j, k : /\ j = Cardinality(Counted(b, v, s, t)) /\ k = Cardinality(Counted(b, w, s, t))
                      /\ j \in Nat /\ k \in Nat /\ j <= k
      BY <3>3, MoreVoters
    <3> QED  BY <3>2, <3>4, <2>3
  <2> QED  BY <2>2, <2>4, <2>5 DEF Counts
<1>6. \A s \in Server : Earned(b, w.node[s], s)  BY <1>1 DEF Ballots, Earned
<1> QED  BY <1>2, <1>4, <1>5, <1>6 DEF Ballots


(* x, which has not voted in T, votes for c. *)
LEMMA BallotsCast ==
    ASSUME NEW W, NEW v, NEW w, Ok(v, W), Ok(w, W), NEW b \in Books, Ballots(b, v),
           NEW x \in Server, NEW c \in Server, NEW T \in Nat, b[x][T] = Null,
           v.node[x].term <= T, w.node[x].term = T, w.node[x].voted,
           w.node[x].won = v.node[x].won,
           w.node[x].role = "Candidate" => v.node[x].term < T \/ v.node[x].role = "Candidate",
           w.node[x].votes = IF c = x THEN 1 ELSE v.node[x].votes,
           \A y \in Server \ {x} : w.node[y] = v.node[y],
           \A s \in Server, U \in Nat :
               \A y \in Pending(w, s, U) \ Pending(v, s, U) : y = x /\ U = T /\ c # x,
           \A m \in w.msgs : m \in v.msgs \/ Booked([b EXCEPT ![x] = [@ EXCEPT ![T] = c]], w, m)
    PROVE  \E a \in Books : Ballots(a, w)
<1> DEFINE row == [b[x] EXCEPT ![T] = c]
           a == [b EXCEPT ![x] = row]
<1>1. b[x] \in [Nat -> Server \cup {Null}]  BY DEF Books
<1>2. row \in [Nat -> Server \cup {Null}]  BY <1>1
<1>3. a \in Books /\ a[x][T] = c /\ \A y \in Server, U \in Nat : (y # x \/ U # T) => a[y][U] = b[y][U]
  <2>1. row[T] = c /\ \A U \in Nat : U # T => row[U] = b[x][U]  BY <1>1
  <2> HIDE DEF row
  <2>2. a \in Books /\ a[x] = row /\ \A y \in Server : y # x => a[y] = b[y]  BY <1>2 DEF Books
  <2> QED  BY <2>1, <2>2
<1>4. \A m \in w.msgs : m \in v.msgs \/ Booked(a, w, m)  OBVIOUS
<1> HIDE DEF a
<1>5. \A y \in Server, U \in Nat : b[y][U] # Null => a[y][U] = b[y][U]  BY <1>3
<1>6. ASSUME NEW s \in Server
      PROVE  /\ v.node[s].term \in Nat /\ v.node[s].votes \in Nat
             /\ w.node[s].term \in Nat /\ w.node[s].votes \in Nat
             /\ \A e \in v.node[s].won : e.term \in Nat /\ e.votes \in Nat
  <2>1. v.node[s] \in NodeType(s, W) /\ w.node[s] \in NodeType(s, W)  BY DEF Ok
  <2>2. PICK n, m : n = v.node[s] /\ m = w.node[s]  OBVIOUS
  <2>3. n.term \in Nat /\ n.votes \in Nat /\ m.term \in Nat /\ m.votes \in Nat
    BY <2>1, <2>2, LenNat
  <2>4. n.won \subseteq [term : Terms, votes : Nat]  BY <2>1, <2>2 DEF NodeType
  <2>5. \A e \in n.won : e.term \in Nat /\ e.votes \in Nat  BY <2>4, Constants
  <2> QED  BY <2>2, <2>3, <2>5
<1>7. ASSUME NEW s \in Server, NEW U \in Nat
      PROVE  /\ Voters(b, s, U) \subseteq Voters(a, s, U)
             /\ Counted(b, v, s, U) \subseteq Counted(a, w, s, U)
  <2>1. ASSUME NEW y \in Server, b[y][U] = s PROVE a[y][U] = s /\ (y # x \/ U # T)
    BY <2>1, <1>5, Constants
  <2> QED  BY <2>1 DEF Counted, Voters
<1>8. ASSUME NEW s \in Server, NEW U \in Nat
      PROVE  /\ Cardinality(Voters(b, s, U)) <= Cardinality(Voters(a, s, U))
             /\ Cardinality(Counted(b, v, s, U)) <= Cardinality(Counted(a, w, s, U))
             /\ Cardinality(Voters(b, s, U)) \in Nat /\ Cardinality(Voters(a, s, U)) \in Nat
             /\ Cardinality(Counted(b, v, s, U)) \in Nat /\ Cardinality(Counted(a, w, s, U)) \in Nat
  <2>1. Voters(a, s, U) \subseteq Server /\ Counted(a, w, s, U) \subseteq Server
    BY DEF Voters, Counted
  <2> QED  BY <2>1, <1>7, MoreVoters
<1>9. ASSUME NEW s \in Server PROVE Cast(a, w.node[s], s)
  <2>1. Cast(b, v.node[s], s)  BY DEF Ballots
  <2>2. CASE s # x  BY <2>1, <2>2, <1>3 DEF Cast
  <2>3. CASE s = x
    <3> SUFFICES ASSUME NEW U \in Nat, a[x][U] # Null, U # T
                 PROVE  w.node[x].term > U
      BY <2>3 DEF Cast
    <3>1. b[x][U] # Null  BY <1>3
    <3>2. v.node[x].term >= U  BY <2>1, <2>3, <3>1, <1>6 DEF Cast
    <3> QED  BY <3>2, <1>6
  <2> QED  BY <2>2, <2>3
<1>10. ASSUME NEW s \in Server PROVE Counts(a, w, s)
  <2>1. Counts(b, v, s)  BY DEF Ballots
  <2>2. CASE s # x
    <3>1. w.node[s] = v.node[s]  BY <2>2
    <3>2. PICK t, k : t = v.node[s].term /\ k = v.node[s].votes  OBVIOUS
    <3>3. t \in Nat /\ k \in Nat  BY <3>2, <1>6
    <3>4. k <= Cardinality(Server)  BY <2>1, <3>2 DEF Counts
    <3>5. ASSUME a[s][t] = s PROVE k <= Cardinality(Counted(a, w, s, t))
      <4>1. b[s][t] = s  BY <2>2, <3>3, <3>5, <1>3
      <4>2. k <= Cardinality(Counted(b, v, s, t))  BY <4>1, <2>1, <3>2 DEF Counts
      <4> QED  BY <4>2, <3>3, <1>8
    <3> QED  BY <3>1, <3>2, <3>4, <3>5 DEF Counts
  <2>3. CASE s = x /\ c # x
    <3>1. a[x][w.node[x].term] # x  BY <2>3, <1>3
    <3>2. w.node[x].votes <= Cardinality(Server)  BY <2>1, <2>3 DEF Counts
    <3> QED  BY <2>3, <3>1, <3>2 DEF Counts
  <2>4. CASE s = x /\ c = x
    <3>1. x \in Counted(a, w, x, T)
      <4>1. x \notin Pending(v, x, T)
        <5>1. ASSUME Granted(x, x, T) \in v.msgs PROVE FALSE
          <6>1. Granted(x, x, T) \in Msg  BY <5>1 DEF Ok
          <6>2. Granted(x, x, T).from = x /\ Granted(x, x, T).to = x
                /\ Granted(x, x, T).type = "vote"
            BY DEF Granted
          <6> QED  BY <6>1, <6>2 DEF Msg, Notice, Run
        <5> QED  BY <5>1 DEF Pending
      <4>2. x \notin Pending(w, x, T)  BY <4>1, <2>4
      <4> QED  BY <4>2, <2>4, <1>3 DEF Counted, Voters
    <3>2. {x} \subseteq Counted(a, w, x, T) /\ Counted(a, w, x, T) \subseteq Server
      BY <3>1 DEF Counted, Voters
    <3>3. Cardinality({x}) = 1  BY FS_Singleton
    <3>4. 1 <= Cardinality(Counted(a, w, x, T)) /\ 1 <= Cardinality(Server)
      BY <3>2, <3>3, MoreVoters
    <3>5. w.node[x].votes = 1  BY <2>4
    <3> QED  BY <2>4, <3>4, <3>5 DEF Counts
  <2> QED  BY <2>2, <2>3, <2>4
<1>11. ASSUME NEW s \in Server PROVE Earned(a, w.node[s], s)
  <2>1. w.node[s].won = v.node[s].won /\ Earned(b, v.node[s], s)  BY DEF Ballots
  <2> SUFFICES ASSUME NEW e \in v.node[s].won
               PROVE  e.votes <= Cardinality(Voters(a, s, e.term))
    BY <2>1 DEF Earned
  <2>2. e.votes <= Cardinality(Voters(b, s, e.term))  BY <2>1 DEF Earned
  <2>3. PICK U, k : U = e.term /\ k = e.votes /\ U \in Nat /\ k \in Nat  BY <1>6
  <2> QED  BY <2>2, <2>3, <1>8
<1>13. ASSUME NEW s \in Server, NEW U \in Nat, Idle(v.node[s], U)
       PROVE  Idle(w.node[s], U)
  <2>1. CASE s # x  BY <1>13, <2>1
  <2>2. CASE s = x
    <3>1. PICK t : t = v.node[x].term /\ t \in Nat /\ t <= T  BY <1>6
    <3>2. w.node[x].term = T  OBVIOUS
    <3>3. CASE t > U
      <4>1. T > U  BY <3>1, <3>3
      <4> QED  BY <4>1, <3>2, <2>2 DEF Idle
    <3>4. CASE t = U /\ v.node[x].role # "Candidate"
      <4>1. CASE t = T
        <5>1. w.node[x].role # "Candidate"  BY <3>1, <3>4, <4>1
        <5> QED  BY <5>1, <4>1, <3>2, <3>4, <2>2 DEF Idle
      <4>2. CASE t # T
        <5>1. T > U  BY <3>1, <3>4, <4>2
        <5> QED  BY <5>1, <3>2, <2>2 DEF Idle
      <4> QED  BY <4>1, <4>2
    <3> QED  BY <1>13, <2>2, <3>1, <3>3, <3>4 DEF Idle
  <2> QED  BY <2>1, <2>2
<1>12. ASSUME NEW m \in w.msgs PROVE Booked(a, w, m)
  <2>1. CASE m \notin v.msgs  BY <2>1, <1>4
  <2>2. CASE m \in v.msgs
    <3>1. Booked(b, v, m) /\ m \in Msg  BY <2>2 DEF Ballots, Ok
    <3>2. CASE ~IsBallot(m)  BY <3>2 DEF IsBallot, Booked
    <3>3. CASE IsBallot(m)
      <4>1. m.from \in Server /\ m.term \in Nat /\ (m.type # "asking" => m.to \in Server)
        BY <3>1, <3>3, BallotIs
      <4>2. PICK f, t, U : f = m.from /\ t = m.to /\ U = m.term  OBVIOUS
      <4>3. f # Null /\ (m.type # "asking" => t # Null)  BY <4>1, <4>2, Constants
      <4>4. b[f][U] = f => a[f][U] = f  BY <4>1, <4>2, <4>3, <1>5
      <4>5. m.type # "asking" => /\ b[f][U] = t => a[f][U] = t
                                 /\ b[t][U] = t => a[t][U] = t
        BY <4>1, <4>2, <4>3, <1>5
      <4>6. /\ Idle(v.node[f], U) => Idle(w.node[f], U)
            /\ m.type # "asking" => (Idle(v.node[t], U) => Idle(w.node[t], U))
        BY <4>1, <4>2, <1>13
      <4> QED  BY <3>1, <4>2, <4>4, <4>5, <4>6 DEF Booked
    <3> QED  BY <3>2, <3>3
  <2> QED  BY <2>1, <2>2
<1> QED  BY <1>3, <1>9, <1>10, <1>11, <1>12 DEF Ballots


(* s counts the vote that x cast for it in its term. *)
LEMMA BallotsCount ==
    ASSUME NEW W, NEW v, NEW w, Ok(v, W), Ok(w, W), NEW b \in Books, Ballots(b, v),
           NEW s \in Server, NEW x \in Server, NEW T, T = v.node[s].term,
           v.node[s].role = "Candidate", Granted(x, s, T) \in v.msgs,
           \A m \in w.msgs : IsBallot(m) => m \in v.msgs \ {Granted(x, s, T)},
           \A y \in Server \ {s} : w.node[y] = v.node[y],
           w.node[s].term = T, w.node[s].voted = v.node[s].voted,
           w.node[s].votes = v.node[s].votes + 1,
           w.node[s].won \subseteq v.node[s].won \cup {[term |-> T, votes |-> v.node[s].votes + 1]}
    PROVE  Ballots(b, w)
<1>1. PICK k : k = v.node[s].votes  OBVIOUS
<1>2. T \in Nat /\ k \in Nat
  <2>1. v.node[s] \in NodeType(s, W)  BY DEF Ok
  <2>2. PICK n : n = v.node[s]  OBVIOUS
  <2>3. n.term \in Nat /\ n.votes \in Nat  BY <2>1, <2>2, LenNat
  <2> QED  BY <2>2, <2>3, <1>1
<1>3. b[x][T] = s /\ b[s][T] = s
  <2>1. Booked(b, v, Granted(x, s, T))  BY DEF Ballots
  <2>2. b[x][T] = s /\ (b[s][T] = s \/ Idle(v.node[s], T))  BY <2>1 DEF Booked, Granted
  <2>3. ~Idle(v.node[s], T)  BY <1>2 DEF Idle
  <2> QED  BY <2>2, <2>3
<1>4. \A m \in w.msgs : Booked(b, w, m)
  <2> SUFFICES ASSUME NEW m \in w.msgs PROVE Booked(b, w, m)
    OBVIOUS
  <2>1. CASE IsBallot(m)
    <3>1. m \in v.msgs /\ Booked(b, v, m) /\ m \in Msg  BY <2>1 DEF Ballots, Ok
    <3>2. m.from \in Server /\ m.term \in Nat /\ (m.type # "asking" => m.to \in Server)
      BY <2>1, <3>1, BallotIs
    <3>3. ASSUME NEW y \in Server, NEW U \in Nat, Idle(v.node[y], U) PROVE Idle(w.node[y], U)
      <4>1. CASE y # s  BY <3>3, <4>1
      <4>2. CASE y = s
        <5>1. T > U  BY <3>3, <4>2 DEF Idle
        <5> QED  BY <4>2, <5>1 DEF Idle
      <4> QED  BY <4>1, <4>2
    <3> QED  BY <3>1, <3>2, <3>3 DEF Booked
  <2>2. CASE ~IsBallot(m)  BY <2>2 DEF IsBallot, Booked
  <2> QED  BY <2>1, <2>2
<1>5. \A y \in Server : \A U : Counted(b, v, y, U) \subseteq Counted(b, w, y, U)
                           /\ Counted(b, w, y, U) \subseteq Voters(b, y, U)
                           /\ Voters(b, y, U) \subseteq Server
  BY DEF Counted, Pending, Granted, IsBallot, Voters
<1>6. x \in Counted(b, w, s, T) /\ x \notin Counted(b, v, s, T)
  <2>1. x \in Pending(v, s, T)  BY DEF Pending
  <2>2. IsBallot(Granted(x, s, T))  BY DEF IsBallot, Granted
  <2>3. x \notin Pending(w, s, T)  BY <2>2 DEF Pending
  <2> QED  BY <2>1, <2>3, <1>3 DEF Counted, Voters
<1>7. k + 1 <= Cardinality(Counted(b, w, s, T)) /\ Cardinality(Counted(b, w, s, T)) \in Nat
  <2>1. k <= Cardinality(Counted(b, v, s, T))  BY <1>1, <1>3 DEF Ballots, Counts
  <2>2. IsFiniteSet(Counted(b, v, s, T)) /\ Cardinality(Counted(b, v, s, T)) \in Nat
    <3>1. Counted(b, v, s, T) \in SUBSET Server  BY <1>5
    <3> QED  BY <3>1, VotersFinite
  <2>3. Cardinality(Counted(b, v, s, T) \cup {x}) = Cardinality(Counted(b, v, s, T)) + 1
    BY <2>2, <1>6, FS_AddElement
  <2>4. Counted(b, v, s, T) \cup {x} \subseteq Counted(b, w, s, T)  BY <1>5, <1>6
  <2>5. Counted(b, w, s, T) \subseteq Server  BY <1>5
  <2>6. /\ Cardinality(Counted(b, v, s, T) \cup {x}) <= Cardinality(Counted(b, w, s, T))
        /\ Cardinality(Counted(b, w, s, T)) \in Nat
    BY <2>4, <2>5, MoreVoters
  <2> QED  BY <2>1, <2>2, <2>3, <2>6, <1>2
<1>8. /\ k + 1 <= Cardinality(Voters(b, s, T)) /\ k + 1 <= Cardinality(Server)
  <2>1. Counted(b, w, s, T) \subseteq Voters(b, s, T) /\ Voters(b, s, T) \subseteq Server  BY <1>5
  <2>2. /\ Cardinality(Counted(b, w, s, T)) <= Cardinality(Voters(b, s, T))
        /\ Cardinality(Voters(b, s, T)) <= Cardinality(Server)
        /\ Cardinality(Voters(b, s, T)) \in Nat /\ Cardinality(Server) \in Nat
    BY <2>1, MoreVoters
  <2> QED  BY <2>2, <1>2, <1>7
<1>9. ASSUME NEW y \in Server PROVE Cast(b, w.node[y], y)
  <2>1. Cast(b, v.node[y], y)  BY DEF Ballots
  <2> QED  BY <2>1 DEF Cast
<1>10. ASSUME NEW y \in Server PROVE Counts(b, w, y)
  <2>1. CASE y = s  BY <2>1, <1>1, <1>7, <1>8 DEF Counts
  <2>2. CASE y # s
    <3>1. w.node[y] = v.node[y] /\ Counts(b, v, y)  BY <2>2 DEF Ballots
    <3>2. PICK t, j : t = v.node[y].term /\ j = v.node[y].votes  OBVIOUS
    <3>3. j \in Nat
      <4>1. v.node[y] \in NodeType(y, W)  BY DEF Ok
      <4>2. PICK n : n = v.node[y]  OBVIOUS
      <4>3. n.votes \in Nat  BY <4>1, <4>2, LenNat
      <4> QED  BY <4>2, <4>3, <3>2
    <3>4. /\ Cardinality(Counted(b, v, y, t)) <= Cardinality(Counted(b, w, y, t))
          /\ Cardinality(Counted(b, v, y, t)) \in Nat /\ Cardinality(Counted(b, w, y, t)) \in Nat
      <4>1. Counted(b, v, y, t) \subseteq Counted(b, w, y, t) /\ Counted(b, w, y, t) \subseteq Server
        BY <1>5
      <4> QED  BY <4>1, MoreVoters
    <3>5. b[y][t] = y => j <= Cardinality(Counted(b, w, y, t))
      BY <3>1, <3>2, <3>3, <3>4 DEF Counts
    <3> QED  BY <3>1, <3>2, <3>5 DEF Counts
  <2> QED  BY <2>1, <2>2
<1>11. ASSUME NEW y \in Server PROVE Earned(b, w.node[y], y)
  <2>1. Earned(b, v.node[y], y)  BY DEF Ballots
  <2>2. CASE y # s  BY <2>1, <2>2
  <2>3. CASE y = s
    <3> SUFFICES ASSUME NEW e \in w.node[s].won
                 PROVE  e.votes <= Cardinality(Voters(b, s, e.term))
      BY <2>3 DEF Earned
    <3>1. CASE e \in v.node[s].won  BY <2>1, <2>3, <3>1 DEF Earned
    <3>2. CASE e = [term |-> T, votes |-> k + 1]
      <4>1. e.term = T /\ e.votes = k + 1  BY <3>2
      <4> QED  BY <4>1, <1>8
    <3> QED  BY <3>1, <3>2, <1>1
  <2> QED  BY <2>2, <2>3
<1> QED  BY <1>4, <1>9, <1>10, <1>11 DEF Ballots

-----------------------------------------------------------------------------
(* The invariant.  The votes of the past can be told as long as no votes have      *)
(* strayed.                                                                        *)

Good(w, u) ==
    /\ u \in UsedType /\ Ok(w, u.writes) /\ Held(w, Server)
    /\ Strayed(w) \/ \E b \in Books : Ballots(b, w)

Inv == Good(World, used)

LEMMA InvNext ==
    ASSUME Good(World', used') PROVE Inv'
BY DEF Inv, Good

LEMMA InvIs ==
    ASSUME Inv PROVE Sane
BY DEF Inv, Good, Sane

LEMMA FineGood ==
    ASSUME Inv, Ok(World', used'.writes), Held(World', Server), Keeps(World, World'),
           used' \in UsedType
    PROVE  Good(World', used')
<1>2. ASSUME ~Strayed(World') PROVE \E b \in Books : Ballots(b, World')
  <2>1. ~Strayed(World)
    <3>1. \A s \in Server : Later(World.node[s], World'.node[s])  BY DEF Keeps
    <3> QED  BY <3>1, <1>2 DEF Strayed, Later
  <2>2. PICK b \in Books : Ballots(b, World)  BY <2>1 DEF Inv, Good
  <2>3. Ok(World, used.writes)  BY DEF Inv, Good
  <2>4. Ballots(b, World')  BY <1>2, <2>2, <2>3, BallotsKeep
  <2> QED  BY <2>4
<1> QED  BY <1>2 DEF Good

LEMMA SteadyGood ==
    ASSUME Inv, Steady PROVE Good(World', used') /\ Echo(World, World')
BY FineGood DEF Steady, Fine

LEMMA StutterGood ==
    ASSUME Inv, UNCHANGED vars PROVE Good(World', used') /\ Echo(World, World')
<1>1. World' = World /\ used' = used  BY DEF vars, World
<1>2. Echo(World, World)  BY InvIs, SaneFine DEF Fine
<1> QED  BY <1>1, <1>2 DEF Inv

(* A change of other fields of a server than those of its log. *)
LEMMA QuietEcho ==
    ASSUME NEW W, NEW v, Ok(v, W), NEW w, w.conn = v.conn, NEW s \in Server,
           w.node[s].log = v.node[s].log, w.node[s].exec = v.node[s].exec,
           w.node[s].applied = v.node[s].applied,
           \A y \in Server \ {s} : w.node[y] = v.node[y]
    PROVE  /\ Echo(v, w)
           /\ \A x \in Server : Runs(v.node[x]) => Runs(w.node[x])
           /\ \A L : Copied(v, L) => Copied(w, L)
<1>1. \A x \in Server : /\ w.node[x].log = v.node[x].log /\ w.node[x].exec = v.node[x].exec
                        /\ w.node[x].applied = v.node[x].applied
  OBVIOUS
<1>2. \A x \in Server : Runs(v.node[x]) => Runs(w.node[x])  BY <1>1, SameTidy
<1>3. \A L : Copied(v, L) => Copied(w, L)  BY <1>1 DEF Copied
<1>4. ASSUME NEW x \in Server PROVE Len(v.node[x].log) <= Len(w.node[x].log)
  <2>1. v.node[x] \in NodeType(x, W)  BY DEF Ok
  <2>2. PICK n : n = v.node[x]  OBVIOUS
  <2>3. Len(n.log) <= Len(n.log)  BY <2>1, <2>2, LenNat
  <2> QED  BY <1>1, <2>2, <2>3
<1>5. Echo(v, w)  BY <1>2, <1>3, <1>4 DEF Echo, Tidy
<1> QED  BY <1>2, <1>3, <1>5

LEMMA SafeFine ==
    ASSUME NEW W, NEW w, Ok(w, W), Held(w, Server)
    PROVE  Fine(w, w, W, Server)
<1>1. Keeps(w, w)
  <2> SUFFICES ASSUME NEW s \in Server
               PROVE  Later(w.node[s], w.node[s]) /\ w.node[s].term \in Nat /\ w.node[s].votes \in Nat
    BY DEF Keeps
  <2>1. w.node[s] \in NodeType(s, W)  BY DEF Ok
  <2>2. PICK n : n = w.node[s]  OBVIOUS
  <2>3. n.votes \in Nat /\ n.votes <= n.votes /\ n.term \in Nat  BY <2>1, <2>2, LenNat
  <2> QED  BY <2>2, <2>3 DEF Later
<1>2. Echo(w, w)
  <2>1. Master \in Server  BY Constants
  <2> QED  BY <2>1, QuietEcho
<1> QED  BY <1>1, <1>2 DEF Fine

LEMMA SafeMsgs ==
    ASSUME NEW W, NEW w, Ok(w, W), Held(w, Server), NEW ms, ms \subseteq Msg
    PROVE  LET u == SetMsgs(w, ms)
           IN  Ok(u, W) /\ Held(u, Server) /\ u.node = w.node /\ u.conn = w.conn /\ u.msgs = ms
<1> DEFINE u == SetMsgs(w, ms)
<1>1. PICK nf, cf, m0 : nf = w.node /\ cf = w.conn /\ m0 = w.msgs  OBVIOUS
<1>2. w = Wd(nf, cf, m0)  BY <1>1 DEF Ok
<1>3. [Wd(nf, cf, m0) EXCEPT !.msgs = ms] = Wd(nf, cf, ms)  BY DEF Wd
<1>4. u = Wd(nf, cf, ms)  BY <1>2, <1>3 DEF SetMsgs
<1> HIDE DEF u
<1>5. u.node = w.node /\ u.conn = w.conn /\ u.msgs = ms  BY <1>1, <1>4, WdParts
<1>6. Ok(u, W)  BY <1>1, <1>4, <1>5 DEF Ok
<1>7. Held(u, Server)  BY <1>5 DEF Held, Sound
<1> QED  BY <1>5, <1>6, <1>7 DEF u


LEMMA VoteWorld ==
    ASSUME Sane, NEW s \in Server, NEW n \in NodeType(s, used.writes),
           n.log = node[s].log, n.peers = node[s].peers, n.match = node[s].match,
           n.exec = node[s].exec, n.applied = node[s].applied,
           n.role = "Leader" => node[s].role = "Leader",
           NEW ms, ms \subseteq Msg,
           node' = [node EXCEPT ![s] = n], msgs' = ms, UNCHANGED <<conn, used>>
    PROVE  /\ used' \in UsedType /\ used' = used
           /\ Ok(World', used.writes) /\ Held(World', Server)
           /\ World'.node[s] = n /\ World'.msgs = ms
           /\ \A y \in Server \ {s} : World'.node[y] = World.node[y]
           /\ Echo(World, World')
<1> DEFINE W == used.writes
           w == SetNode(World, s, n)
           u == SetMsgs(w, ms)
<1>1. Ok(World, W) /\ Held(World, Server) /\ used \in UsedType  BY DEF Sane
<1>2. /\ Len(node[s].log) \in Nat /\ Len(node[s].log) <= Len(n.log)
  <2>1. node[s] \in NodeType(s, W)  BY Typed
  <2> QED  BY <2>1, LenNat
<1>3. ASSUME NEW f \in n.peers \cap Server, conn[f].to = s, conn[f].open
      PROVE  At(n.match, f) <= Len(node[f].log)
  BY <1>1, <1>3, WorldIs DEF Held, Sound
<1>4. Ok(w, W) /\ Held(w, Server) /\ NodeSet(World, w, s, n)
  BY <1>1, <1>2, <1>3, WorldIs, SafeNode
<1> HIDE DEF w
<1>5. Ok(u, W) /\ Held(u, Server) /\ u.node = w.node /\ u.conn = w.conn /\ u.msgs = ms
  BY <1>4, SafeMsgs
<1> HIDE DEF u
<1>6. World' = u
  <2>1. u = Wd(u.node, u.conn, u.msgs)  BY <1>5 DEF Ok
  <2>2. node' = u.node /\ conn' = u.conn /\ msgs' = u.msgs  BY <1>4, <1>5, WorldIs DEF NodeSet
  <2> QED  BY <2>1, <2>2 DEF World, Wd
<1>7. /\ World'.node[s] = n /\ World'.conn = World.conn
      /\ \A y \in Server \ {s} : World'.node[y] = World.node[y]
  BY <1>4, <1>5, <1>6 DEF NodeSet
<1>8. Echo(World, World')  BY <1>1, <1>7, WorldIs, QuietEcho
<1> QED  BY <1>1, <1>5, <1>6, <1>7, <1>8

LEMMA NotStrayed ==
    ASSUME NEW v, NEW w, NEW s \in Server, ~Strayed(w), v.node[s].strayed => w.node[s].strayed,
           \A y \in Server \ {s} : w.node[y] = v.node[y]
    PROVE  ~Strayed(v)
<1> SUFFICES ASSUME NEW y \in Server PROVE ~v.node[y].strayed
  BY DEF Strayed
<1>1. ~w.node[y].strayed  BY DEF Strayed
<1> QED  BY <1>1

(* A candidate starts a term in which it has not voted. *)
LEMMA BecomeCandidateGood ==
    ASSUME Inv, NEW m \in msgs, BecomeCandidate(m)
    PROVE  Good(World', used') /\ Echo(World, World')
<1> DEFINE W == used.writes
           s == m.from
           n == become_candidate(node[s])
<1>1. Sane /\ W \in Idx  BY InvIs, SaneFine
<1>0. s \in Server  BY <1>1, MsgIs DEF BecomeCandidate
<1>2. node[s] \in NodeType(s, W) /\ node[s].term \in Nat
  <2>1. node[s] \in NodeType(s, W)  BY <1>0, <1>1, Typed
  <2> QED  BY <2>1, LenNat
<1>14. node = [x \in Server |-> node[x]]  BY <1>1, WorldIs DEF Sane, Ok
<1>3. /\ node[s].term < MaxTerm /\ node' = [node EXCEPT ![s] = n] /\ UNCHANGED <<conn, used>>
      /\ msgs' = (msgs \ {m}) \cup {[type |-> "asking", from |-> s, term |-> node'[s].term]}
  BY DEF BecomeCandidate
<1>4. PICK T : T = node[s].term + 1  OBVIOUS
<1>5. n = [node[s] EXCEPT !.term = T, !.voted = TRUE, !.votes = 1, !.role = "Candidate"]
  BY <1>4 DEF become_candidate
<1> HIDE DEF n
<1>6. /\ n.term = T /\ n.voted /\ n.votes = 1 /\ n.role = "Candidate" /\ n.won = node[s].won
      /\ n.strayed = node[s].strayed /\ n.log = node[s].log /\ n.peers = node[s].peers
      /\ n.match = node[s].match /\ n.exec = node[s].exec /\ n.applied = node[s].applied
  BY <1>2, <1>5 DEF NodeType
<1>7. T \in Terms /\ T \in Nat /\ T > node[s].term
  <2>1. T \in Nat /\ T <= MaxTerm /\ MaxTerm \in Nat  BY <1>2, <1>3, <1>4, Constants
  <2> QED  BY <2>1, <1>2, <1>4 DEF Terms
<1>8. n \in NodeType(s, W)  BY <1>2, <1>5, <1>7 DEF NodeType
<1>9. PICK x : x = [type |-> "asking", from |-> s, term |-> T]  OBVIOUS
<1>10. x \in Msg /\ x.type = "asking" /\ x.from = s /\ x.term = T
  BY <1>0, <1>7, <1>9 DEF Msg, Run
<1> DEFINE ms == (msgs \ {m}) \cup {x}
<1>15. node'[s] = n  BY <1>0, <1>3, <1>14
<1>16. msgs' = ms  BY <1>3, <1>6, <1>9, <1>15
<1>11. ms \subseteq Msg  BY <1>1, <1>10, WorldIs DEF Sane, Ok
<1>17. \A y \in ms : y \in msgs \/ y = x  OBVIOUS
<1> HIDE DEF ms
<1>12. /\ used' \in UsedType /\ used' = used
       /\ Ok(World', W) /\ Held(World', Server) /\ World'.node[s] = n /\ World'.msgs = ms
       /\ \A y \in Server \ {s} : World'.node[y] = World.node[y]
       /\ Echo(World, World')
  BY <1>0, <1>1, <1>3, <1>6, <1>8, <1>11, <1>16, VoteWorld
<1>13. ASSUME ~Strayed(World') PROVE \E b \in Books : Ballots(b, World')
  <2>1. ~Strayed(World)  BY <1>0, <1>6, <1>12, <1>13, WorldIs, NotStrayed
  <2>2. PICK b \in Books : Ballots(b, World)  BY <2>1 DEF Inv, Good
  <2>3. b[s][T] = Null
    <3>1. Cast(b, node[s], s)  BY <1>0, <2>2, WorldIs DEF Ballots
    <3> QED  BY <3>1, <1>2, <1>7 DEF Cast
  <2>4. [b EXCEPT ![s] = [@ EXCEPT ![T] = s]][s][T] = s
    <3>1. b[s] \in [Nat -> Server \cup {Null}]  BY <1>0 DEF Books
    <3>2. PICK row : row = [b[s] EXCEPT ![T] = s]  OBVIOUS
    <3>3. row[T] = s  BY <3>1, <3>2, <1>7
    <3>4. [b EXCEPT ![s] = row][s] = row  BY <1>0 DEF Books
    <3> QED  BY <3>2, <3>3, <3>4
  <2>5. PICK v, w : v = World /\ w = World'  OBVIOUS
  <2>6. \A y \in w.msgs : y \in v.msgs \/ Booked([b EXCEPT ![s] = [@ EXCEPT ![T] = s]], w, y)
    BY <2>4, <2>5, <1>10, <1>12, <1>17, WorldIs DEF Booked
  <2>7. \A t \in Server, U \in Nat : Pending(w, t, U) \ Pending(v, t, U) = {}
    BY <2>5, <1>10, <1>12, <1>17, WorldIs DEF Pending, Granted
  <2>8. Ok(v, W)  BY <2>5, <1>1 DEF Sane
  <2>9. v.node[s].term < T /\ v.node[s].term <= T  BY <2>5, <1>2, <1>7, WorldIs
  <2>10. /\ Ok(w, W) /\ Ballots(b, v)
         /\ w.node[s].term = T /\ w.node[s].voted /\ w.node[s].won = v.node[s].won
         /\ w.node[s].votes = 1 /\ \A y \in Server \ {s} : w.node[y] = v.node[y]
    BY <2>2, <2>5, <1>6, <1>12, WorldIs
  <2>11. \E a \in Books : Ballots(a, w)
    BY <2>3, <2>6, <2>7, <2>8, <2>9, <2>10, <1>0, <1>7, BallotsCast
  <2> QED  BY <2>5, <2>11
<1> QED  BY <1>12, <1>13 DEF Good

(* Requests that are on the books leave the ballots as they are. *)
LEMMA BallotsSend ==
    ASSUME NEW W, NEW v, NEW w, Ok(v, W), NEW b \in Books, Ballots(b, v),
           \A y \in Server : w.node[y] = v.node[y],
           \A m \in w.msgs : m \in v.msgs \/ (m.type = "request" /\ Booked(b, w, m))
    PROVE  Ballots(b, w)
<1>1. ASSUME NEW m \in w.msgs PROVE Booked(b, w, m)
  <2>1. CASE m \notin v.msgs  BY <2>1
  <2>2. CASE m \in v.msgs
    <3>1. Booked(b, v, m) /\ m \in Msg  BY <2>2 DEF Ballots, Ok
    <3>2. CASE ~IsBallot(m)  BY <3>2 DEF IsBallot, Booked
    <3>3. CASE IsBallot(m)
      <4>1. m.from \in Server /\ (m.type # "asking" => m.to \in Server)
        BY <3>1, <3>3, BallotIs
      <4> QED  BY <3>1, <4>1 DEF Booked
    <3> QED  BY <3>2, <3>3
  <2> QED  BY <2>1, <2>2
<1>2. ASSUME NEW s \in Server PROVE Counts(b, w, s)
  <2>1. Counts(b, v, s) /\ w.node[s] = v.node[s]  BY DEF Ballots
  <2>2. PICK t, k : t = v.node[s].term /\ k = v.node[s].votes  OBVIOUS
  <2>3. k \in Nat
    <3>1. v.node[s] \in NodeType(s, W)  BY DEF Ok
    <3>2. PICK n : n = v.node[s]  OBVIOUS
    <3>3. n.votes \in Nat  BY <3>1, <3>2, LenNat
    <3> QED  BY <2>2, <3>2, <3>3
  <2>4. Pending(w, s, t) \subseteq Pending(v, s, t)  BY DEF Pending, Granted
  <2>5. Counted(b, v, s, t) \subseteq Counted(b, w, s, t) /\ Counted(b, w, s, t) \subseteq Server
    BY <2>4 DEF Counted, Voters
  <2>6. PICK i, j : /\ i = Cardinality(Counted(b, v, s, t)) /\ j = Cardinality(Counted(b, w, s, t))
                    /\ i \in Nat /\ j \in Nat /\ i <= j
    BY <2>5, MoreVoters
  <2>7. b[s][t] = s => k <= i  BY <2>1, <2>2, <2>6 DEF Counts
  <2>8. b[s][t] = s => k <= j  BY <2>3, <2>6, <2>7
  <2> QED  BY <2>1, <2>2, <2>6, <2>8 DEF Counts
<1>3. \A s \in Server : Cast(b, w.node[s], s) /\ Earned(b, w.node[s], s)  BY DEF Ballots
<1> QED  BY <1>1, <1>2, <1>3 DEF Ballots

(* A candidate asks for votes: in the term in which it voted for itself, or its votes *)
(* have strayed; a server that is no candidate any more counts none.                  *)
LEMMA SendRequestsGood ==
    ASSUME Inv, NEW m \in msgs, SendRequests(m)
    PROVE  Good(World', used') /\ Echo(World, World')
<1> DEFINE W == used.writes
           s == m.from
           moved == node[s].role = "Candidate" /\ node[s].term # m.term
           strayed == node[s].strayed \/ moved
           n == [node[s] EXCEPT !.strayed = strayed]
           new == send_request_vote(s, node[s])
           ms == (msgs \ {m}) \cup new
<1>1. Sane /\ W \in Idx  BY InvIs, SaneFine
<1>2. m.type = "asking" /\ s \in Server /\ m.term \in Terms
  BY <1>1, MsgIs DEF SendRequests
<1>3. node[s] \in NodeType(s, W) /\ node[s].term \in Terms /\ node[s].strayed \in BOOLEAN
  <2>1. node[s] \in NodeType(s, W)  BY <1>1, <1>2, Typed
  <2> QED  BY <2>1 DEF NodeType
<1>4. node' = [node EXCEPT ![s] = n] /\ msgs' = ms /\ UNCHANGED <<conn, used>>
  BY DEF SendRequests
<1>5. PICK T : T = node[s].term  OBVIOUS
<1>6. new \subseteq Msg /\ \A x \in new : x.type = "request" /\ x.from = s /\ x.term = T
  <2>1. Len(node[s].log) \in Idx  BY <1>1, <1>3, LogLength
  <2>2. LastTerm(node[s].log) \in Terms
    <3>1. node[s].log \in Seq(Entry)  BY <1>3 DEF NodeType
    <3> QED  BY <3>1, GetTermIs DEF LastTerm
  <2>3. node[s].nodes \subseteq Server /\ s \notin node[s].nodes  BY <1>3 DEF NodeType, Others
  <2>4. PICK i, l : i = Len(node[s].log) /\ l = LastTerm(node[s].log)  OBVIOUS
  <2>5. new = {[type |-> "request", from |-> s, to |-> d, term |-> T, index |-> i, last |-> l]
                  : d \in node[s].nodes}
    BY <2>4, <1>5 DEF send_request_vote
  <2> HIDE DEF new
  <2> QED  BY <2>1, <2>2, <2>3, <2>4, <2>5, <1>2, <1>3, <1>5 DEF Msg, Request
<1> HIDE DEF new
<1>7. msgs \subseteq Msg  BY <1>1, WorldIs DEF Sane, Ok
<1>8. ms \subseteq Msg /\ \A x \in ms : x \in msgs \/ x \in new  BY <1>6, <1>7
<1> HIDE DEF ms
<1>9. strayed \in BOOLEAN /\ (node[s].strayed => strayed)  BY <1>3
<1>10. ~strayed => node[s].strayed = strayed /\ ~moved  BY <1>3
<1> HIDE DEF strayed
<1>11. n \in NodeType(s, W) /\ n.strayed = strayed /\ (node[s].strayed = strayed => n = node[s])
       /\ n.log = node[s].log /\ n.peers = node[s].peers /\ n.match = node[s].match
       /\ n.exec = node[s].exec /\ n.applied = node[s].applied /\ n.role = node[s].role
  BY <1>3, <1>9 DEF NodeType
<1> HIDE DEF n
<1>12. /\ used' \in UsedType /\ used' = used
       /\ Ok(World', W) /\ Held(World', Server) /\ World'.node[s] = n /\ World'.msgs = ms
       /\ \A y \in Server \ {s} : World'.node[y] = World.node[y]
       /\ Echo(World, World')
  BY <1>1, <1>2, <1>4, <1>8, <1>11, VoteWorld
<1>13. ASSUME ~Strayed(World') PROVE \E b \in Books : Ballots(b, World')
  <2>1. ~n.strayed  BY <1>2, <1>12, <1>13 DEF Strayed
  <2>2. ~strayed /\ n = node[s] /\ ~moved  BY <2>1, <1>10, <1>11
  <2>3. PICK v, w : v = World /\ w = World'  OBVIOUS
  <2>4. \A y \in Server : w.node[y] = v.node[y]  BY <2>2, <2>3, <1>12, WorldIs
  <2>5. ~Strayed(v)  BY <2>3, <2>4, <1>13 DEF Strayed
  <2>6. PICK b \in Books : Ballots(b, v)  BY <2>3, <2>5 DEF Inv, Good
  <2>7. b[s][m.term] = s
    <3>1. Booked(b, v, m)  BY <2>3, <2>6, WorldIs DEF Ballots
    <3> QED  BY <3>1, <1>2 DEF Booked
  <2>8. b[s][T] = s \/ Idle(w.node[s], T)
    <3>1. w.node[s].term = T /\ w.node[s].role = node[s].role
      BY <2>2, <2>3, <1>5, <1>12
    <3>2. CASE node[s].role = "Candidate"  BY <2>2, <2>7, <3>2, <1>5
    <3>3. CASE node[s].role # "Candidate"  BY <3>1, <3>3 DEF Idle
    <3> QED  BY <3>2, <3>3
  <2>9. \A x \in w.msgs : x \in v.msgs \/ (x.type = "request" /\ Booked(b, w, x))
    BY <2>3, <2>8, <1>6, <1>8, <1>12, WorldIs DEF Booked
  <2>10. Ok(v, W)  BY <2>3, <1>1 DEF Sane
  <2>11. Ballots(b, w)
    <3> HIDE DEF W, s
    <3> QED  BY <2>4, <2>6, <2>9, <2>10, BallotsSend
  <2> QED  BY <2>3, <2>11
<1> QED  BY <1>12, <1>13 DEF Good


(* A server grants a vote in a term in which it has not voted, to one that has     *)
(* voted for itself in it.                                                         *)
LEMMA GrantVotes ==
    ASSUME NEW W, NEW v, NEW w, Ok(v, W), Ok(w, W), NEW b \in Books, Ballots(b, v),
           NEW m \in v.msgs, m.type = "request", NEW s, s = m.to, NEW T, T = m.term,
           v.node[s].term <= T, ~(v.node[s].term = T /\ v.node[s].voted),
           w.node[s].term = T, w.node[s].voted, w.node[s].won = v.node[s].won,
           w.node[s].votes = v.node[s].votes,
           w.node[s].role = "Candidate" => v.node[s].role = "Candidate",
           \A y \in Server \ {s} : w.node[y] = v.node[y],
           w.msgs \subseteq v.msgs \cup {Granted(s, m.from, T)}
    PROVE  \E a \in Books : Ballots(a, w)
<1>1. PICK c : c = m.from  OBVIOUS
<1>2. c \in Server /\ s \in Server /\ c # s /\ T \in Nat
  <2>1. m \in Msg  BY DEF Ok
  <2>2. c \in Server /\ s \in Server /\ T \in Nat  BY <2>1, <1>1, BallotIs DEF IsBallot
  <2>3. c # s  BY <2>1, <1>1 DEF Msg, Request, Vote, NewMaster, Heard, Asking, Notice, Run
  <2> QED  BY <2>2, <2>3
<1>3. b[c][T] = c \/ Idle(w.node[c], T)
  <2>1. b[c][T] = c \/ Idle(v.node[c], T)  BY <1>1 DEF Ballots, Booked
  <2> QED  BY <2>1, <1>2
<1>4. v.node[s].term \in Nat
  <2>1. v.node[s] \in NodeType(s, W)  BY <1>2 DEF Ok
  <2>2. PICK n : n = v.node[s]  OBVIOUS
  <2>3. n.term \in Nat  BY <2>1, <2>2, LenNat
  <2> QED  BY <2>2, <2>3
<1>5. b[s][T] = Null
  <2>1. Cast(b, v.node[s], s)  BY <1>2 DEF Ballots
  <2> QED  BY <2>1, <1>2, <1>4 DEF Cast
<1>6. [b EXCEPT ![s] = [@ EXCEPT ![T] = c]][s][T] = c
      /\ ([b EXCEPT ![s] = [@ EXCEPT ![T] = c]][c][T] = c \/ Idle(w.node[c], T))
  <2>1. b[s] \in [Nat -> Server \cup {Null}]  BY <1>2 DEF Books
  <2>2. PICK row : row = [b[s] EXCEPT ![T] = c]  OBVIOUS
  <2>3. row[T] = c  BY <2>1, <2>2, <1>2
  <2>4. [b EXCEPT ![s] = row][s] = row /\ [b EXCEPT ![s] = row][c] = b[c]  BY <1>2 DEF Books
  <2> QED  BY <2>2, <2>3, <2>4, <1>3
<1>7. ASSUME NEW x \in w.msgs, x \notin v.msgs
      PROVE  Booked([b EXCEPT ![s] = [@ EXCEPT ![T] = c]], w, x)
  <2>1. x = Granted(s, c, T)  BY <1>1, <1>7
  <2>2. x.type = "vote" /\ x.from = s /\ x.to = c /\ x.term = T  BY <2>1 DEF Granted
  <2> QED  BY <2>2, <1>6 DEF Booked
<1>8. ASSUME NEW t \in Server, NEW U \in Nat, NEW y \in Pending(w, t, U) \ Pending(v, t, U)
      PROVE  y = s /\ U = T /\ c # s
  <2>1. Granted(y, t, U) = Granted(s, c, T)  BY <1>1, <1>8 DEF Pending
  <2> QED  BY <2>1, <1>2 DEF Granted
<1>9. \A z \in w.msgs : z \in v.msgs \/ Booked([b EXCEPT ![s] = [@ EXCEPT ![T] = c]], w, z)  BY <1>7
<1> QED  BY <1>2, <1>4, <1>5, <1>8, <1>9, BallotsCast

LEMMA RequestGood ==
    ASSUME Inv, NEW m \in msgs, handle_request_vote(m)
    PROVE  Good(World', used') /\ Echo(World, World')
<1> DEFINE W == used.writes
           s == m.to
           raised == m.term > node[s].term
           n == IF raised THEN [node[s] EXCEPT !.term = m.term, !.voted = FALSE, !.role = "Follower"]
                ELSE node[s]
           granted == m.term >= n.term /\ can_vote(n) /\ log_is_ok(n, m)
           z == IF granted THEN [n EXCEPT !.voted = TRUE] ELSE n
           reply == [type |-> "vote", from |-> s, to |-> m.from, term |-> n.term, granted |-> granted]
           ms == (msgs \ {m}) \cup {reply}
<1>1. Sane /\ W \in Idx  BY InvIs, SaneFine
<1>2. m.type = "request" /\ node' = [node EXCEPT ![s] = z] /\ msgs' = ms /\ UNCHANGED <<conn, used>>
  BY DEF handle_request_vote
<1>3. /\ msgs \subseteq Msg /\ s \in Server /\ m.from \in Server /\ m.from # s
      /\ m.term \in Terms /\ m.term \in Nat
  BY <1>1, <1>2, MsgIs, Constants DEF Request
<1>4. node[s] \in NodeType(s, W) /\ node[s].term \in Nat /\ node[s].term \in Terms
      /\ node[s].voted \in BOOLEAN
  <2>1. node[s] \in NodeType(s, W)  BY <1>1, <1>3, Typed
  <2>2. node[s].term \in Nat  BY <2>1, LenNat
  <2> QED  BY <2>1, <2>2 DEF NodeType
<1>5. granted \in BOOLEAN /\ (granted => m.term >= n.term /\ ~n.voted)  BY DEF can_vote
<1> HIDE DEF granted
<1>6. /\ n \in NodeType(s, W) /\ n.won = node[s].won /\ n.strayed = node[s].strayed
      /\ n.votes = node[s].votes /\ n.log = node[s].log /\ n.peers = node[s].peers /\ n.match = node[s].match
      /\ n.exec = node[s].exec /\ n.applied = node[s].applied
      /\ (n.role = "Leader" => node[s].role = "Leader") /\ n.voted \in BOOLEAN
      /\ (n.role = "Candidate" => node[s].role = "Candidate")
  BY <1>3, <1>4 DEF NodeType
<1>7. /\ n.term \in Nat /\ n.term \in Terms /\ n.term >= m.term
      /\ \/ node[s].term < n.term
         \/ n.term = node[s].term /\ n.voted = node[s].voted
  <2>1. CASE raised
    <3>1. n.term = m.term  BY <2>1, <1>4 DEF NodeType
    <3>2. m.term > node[s].term  BY <2>1
    <3> HIDE DEF n
    <3> QED  BY <3>1, <3>2, <1>3, <1>4
  <2>2. CASE ~raised  BY <2>2, <1>3, <1>4
  <2> QED  BY <2>1, <2>2
<1> HIDE DEF n
<1>8. /\ z \in NodeType(s, W) /\ z.won = node[s].won /\ z.strayed = node[s].strayed
      /\ z.votes = node[s].votes /\ z.log = node[s].log /\ z.peers = node[s].peers
      /\ z.exec = node[s].exec /\ z.applied = node[s].applied
      /\ z.match = node[s].match /\ (z.role = "Leader" => node[s].role = "Leader")
      /\ z.term = n.term /\ (granted => z.voted) /\ (~granted => z.voted = n.voted)
      /\ (z.role = "Candidate" => node[s].role = "Candidate")
  <2>1. CASE granted
    <3>1. z = [n EXCEPT !.voted = TRUE]  BY <2>1
    <3> QED  BY <2>1, <3>1, <1>6 DEF NodeType
  <2>2. CASE ~granted
    <3>1. z = n  BY <2>2
    <3> HIDE DEF z
    <3> QED  BY <2>2, <3>1, <1>6
  <2> QED  BY <2>1, <2>2
<1> HIDE DEF z
<1>9. ms \subseteq Msg
  <2>1. reply \in Msg  BY <1>3, <1>5, <1>7 DEF Msg, Vote
  <2> HIDE DEF reply
  <2> QED  BY <2>1, <1>3
<1>10. ms \subseteq msgs \cup {reply}
       /\ (granted => reply = Granted(s, m.from, n.term)) /\ (~granted => ~IsBallot(reply))
  <2>1. ms \subseteq msgs \cup {reply}  OBVIOUS
  <2>2. granted => reply = Granted(s, m.from, n.term)  BY <1>5 DEF Granted
  <2>3. ~granted => ~IsBallot(reply)  BY <1>5 DEF IsBallot
  <2> QED  BY <2>1, <2>2, <2>3
<1> HIDE DEF ms, reply
<1>11. /\ used' \in UsedType /\ used' = used
       /\ Ok(World', W) /\ Held(World', Server) /\ World'.node[s] = z /\ World'.msgs = ms
       /\ \A y \in Server \ {s} : World'.node[y] = World.node[y]
       /\ Echo(World, World')
  BY <1>1, <1>2, <1>3, <1>8, <1>9, VoteWorld
<1>12. PICK v, w, T : v = World /\ w = World' /\ T = n.term  OBVIOUS
<1>13. /\ Ok(v, W) /\ Ok(w, W) /\ Held(w, Server) /\ v.msgs = msgs /\ v.node[s] = node[s]
       /\ w.node[s] = z /\ w.msgs = ms /\ \A y \in Server \ {s} : w.node[y] = v.node[y]
  BY <1>1, <1>11, <1>12, WorldIs DEF Sane
<1>14. CASE ~granted
  <2>1. Keeps(v, w)
    <3>1. Keeps(v, v)  BY <1>1, <1>12, SaneFine DEF Fine
    <3>2. Later(node[s], z)
      <4>1. node[s].votes \in Nat /\ node[s].votes <= node[s].votes  BY <1>4, LenNat
      <4> QED  BY <4>1, <1>7, <1>8, <1>14 DEF Later
    <3>3. \A y \in Server : Later(v.node[y], w.node[y])  BY <3>1, <3>2, <1>13 DEF Keeps
    <3> QED  BY <3>1, <3>3, <1>10, <1>13, <1>14 DEF Keeps
  <2>2. Keeps(World, World')  BY <2>1, <1>12
  <2> QED  BY <2>2, <1>11, FineGood
<1>15. CASE granted
  <2>1. T = m.term /\ T \in Nat /\ ~n.voted
    <3>1. m.term >= n.term /\ ~n.voted  BY <1>5, <1>15
    <3> QED  BY <3>1, <1>3, <1>7, <1>12
  <2>2. v.node[s].term <= T /\ ~(v.node[s].term = T /\ v.node[s].voted)
    <3>1. node[s].term < T \/ (T = node[s].term /\ ~node[s].voted)  BY <2>1, <1>7, <1>12
    <3>2. v.node[s].term = node[s].term /\ v.node[s].voted = node[s].voted  BY <1>13
    <3>3. node[s].term <= T  BY <3>1, <2>1, <1>4
    <3>4. ~(node[s].term = T /\ node[s].voted)
      <4>1. CASE node[s].term < T  BY <4>1, <2>1, <1>4
      <4> QED  BY <4>1, <3>1
    <3> QED  BY <3>2, <3>3, <3>4
  <2>3. w.node[s].term = T /\ w.node[s].voted /\ w.node[s].won = v.node[s].won
        /\ w.node[s].votes = v.node[s].votes /\ w.node[s].strayed = v.node[s].strayed
        /\ (w.node[s].role = "Candidate" => v.node[s].role = "Candidate")
    BY <1>8, <1>12, <1>13, <1>15
  <2>4. w.msgs \subseteq v.msgs \cup {Granted(s, m.from, T)}  BY <1>10, <1>12, <1>13, <1>15
  <2>5. ASSUME ~Strayed(w) PROVE \E a \in Books : Ballots(a, w)
    <3>1. ~Strayed(v)  BY <2>3, <2>5, <1>3, <1>13, NotStrayed
    <3>2. PICK b \in Books : Ballots(b, v)  BY <3>1, <1>12 DEF Inv, Good
    <3> HIDE DEF s
    <3>3. m \in v.msgs /\ s = m.to  BY <1>13 DEF s
    <3> QED  BY <3>2, <3>3, <2>1, <2>2, <2>3, <2>4, <1>2, <1>13, GrantVotes
  <2>6. Good(World', used')  BY <2>5, <1>11, <1>12, <1>13 DEF Good
  <2> QED  BY <2>6, <1>11
<1> QED  BY <1>14, <1>15


(* The last vote: become_leader, with the known nodes kept, and the announcement. *)
Elected(n, votes, e) == [n EXCEPT !.votes = votes, !.won = @ \cup {e}]
AfterWin(w, s, n, x, y) ==
    [become_leader(SetNode(w, s, n), s) EXCEPT !.node[s].nodes = x, !.msgs = @ \cup y]

WonIs(w, s, ms, votes, e, y) ==
    /\ Ok(w, used.writes) /\ Held(w, Server) /\ w.msgs = ms \cup y
    /\ \A z \in Server \ {s} : w.node[z] = node[z]
    /\ w.node[s].term = node[s].term /\ w.node[s].voted = node[s].voted
    /\ w.node[s].votes = votes /\ w.node[s].won = node[s].won \cup {e}
    /\ w.node[s].strayed = node[s].strayed /\ Echo(World, w)

LEMMA WonWorld ==
    ASSUME Sane, NEW s \in Server, node[s].role # "Leader", NEW ms, ms \subseteq Msg,
           NEW votes \in Nat,
           NEW e, e = [term |-> node[s].term, votes |-> votes],
           NEW x, x = node[s].nodes, NEW y, y \subseteq Msg,
           NEW won, won = AfterWin(SetMsgs(World, ms), s, Elected(node[s], votes, e), x, y)
    PROVE  WonIs(won, s, ms, votes, e, y)
<1> DEFINE W == used.writes
           w == SetMsgs(World, ms)
           all == node[s].won \cup {e}
           n == [node[s] EXCEPT !.votes = votes, !.won = all]
           w1 == SetNode(w, s, n)
           lead == become_leader(w1, s)
           k == [lead.node[s] EXCEPT !.nodes = x]
           w2 == SetNode(lead, s, k)
           u == SetMsgs(w2, ms \cup y)
<1>1. W \in Idx /\ Ok(World, W) /\ Held(World, Server)  BY SaneFine DEF Sane
<1>2. node[s] \in NodeType(s, W) /\ node[s].nodes \subseteq Others(s) /\ node[s].term \in Terms
      /\ node[s].won \subseteq [term : Terms, votes : Nat]
  <2>1. node[s] \in NodeType(s, W)  BY Typed
  <2> QED  BY <2>1 DEF NodeType
<1>3. Ok(w, W) /\ Held(w, Server) /\ w.node = node /\ w.conn = conn /\ w.msgs = ms
  BY <1>1, WorldIs, SafeMsgs
<1> HIDE DEF w
<1>5. all \subseteq [term : Terms, votes : Nat]  BY <1>2
<1> HIDE DEF all
<1>6. /\ n \in NodeType(s, W) /\ n.won = all /\ n.votes = votes /\ n.term = node[s].term
      /\ n.voted = node[s].voted /\ n.strayed = node[s].strayed /\ n.log = node[s].log
      /\ n.peers = node[s].peers /\ n.match = node[s].match /\ n.role = node[s].role
      /\ n.exec = node[s].exec /\ n.applied = node[s].applied
  BY <1>2, <1>5 DEF NodeType
<1> HIDE DEF n
<1>7. Ok(w1, W) /\ Held(w1, Server) /\ NodeSet(w, w1, s, n)
  <2>1. Len(node[s].log) \in Nat /\ Len(node[s].log) <= Len(n.log)  BY <1>2, <1>6, LenNat
  <2>2. ASSUME NEW f \in n.peers \cap Server, conn[f].to = s, conn[f].open
        PROVE  At(n.match, f) <= Len(node[f].log)
    BY <1>1, <1>6, <2>2, WorldIs DEF Held, Sound
  <2> QED  BY <2>1, <2>2, <1>3, <1>6, SafeNode
<1> HIDE DEF w1
<1>8. Fine(w1, w1, W, Server)  BY <1>7, SafeFine
<1>9. /\ Fine(w1, lead, W, Server) /\ lead.node[s] = Lead(w1.node[s]) /\ lead.msgs = w1.msgs
      /\ \A z \in Server \ {s} : lead.node[z] = w1.node[z]
  BY <1>1, <1>8, BecomeLeaderFine
<1> HIDE DEF lead
<1>10. /\ lead.node[s] = Lead(n) /\ lead.msgs = ms
       /\ \A z \in Server \ {s} : lead.node[z] = node[z]
  BY <1>3, <1>7, <1>9 DEF NodeSet
<1>11. /\ lead.node[s] \in NodeType(s, W) /\ lead.node[s].won = all /\ lead.node[s].votes = votes
       /\ lead.node[s].term = n.term /\ lead.node[s].voted = n.voted
       /\ lead.node[s].strayed = n.strayed
  <2>1. lead.node[s] \in NodeType(s, W)  BY <1>9, Parts
  <2> QED  BY <2>1, <1>6, <1>10 DEF NodeType, Lead
<1>12. k \in NodeType(s, W) /\ Alike(lead.node[s], k) /\ k.role = lead.node[s].role
  BY <1>2, <1>11 DEF NodeType, Alike, Tidy, Runs, Over
<1>13. [lead EXCEPT !.node[s].nodes = x, !.msgs = @ \cup y] = u
  <2>1. \A d : [d EXCEPT !.node[s].nodes = x, !.msgs = @ \cup y]
               = SetMsgs(SetNode(d, s, [d.node[s] EXCEPT !.nodes = x]), d.msgs \cup y)
    BY DEF SetNode, SetMsgs
  <2> QED  BY <2>1, <1>10
<1> HIDE DEF k
<1>14. Fine(w1, w2, W, Server) /\ NodeSet(lead, w2, s, k)
  <2>1. Mild(lead.node[s], k)  BY <1>11, <1>12, AlikeMild
  <2> QED  BY <2>1, <1>9, <1>12, PutNode
<1> HIDE DEF w2
<1>15. Ok(u, W) /\ Held(u, Server) /\ u.node = w2.node /\ u.msgs = ms \cup y
       /\ u.conn = w2.conn
  <2>1. ms \cup y \subseteq Msg  OBVIOUS
  <2>2. Ok(w2, W) /\ Held(w2, Server)  BY <1>14 DEF Fine
  <2> QED  BY <2>1, <2>2, SafeMsgs
<1> HIDE DEF u
<1>16. u.node[s] = k /\ \A z \in Server \ {s} : u.node[z] = node[z]
  BY <1>10, <1>14, <1>15 DEF NodeSet
<1>17. /\ u.node[s].term = node[s].term /\ u.node[s].voted = node[s].voted
       /\ u.node[s].votes = votes /\ u.node[s].won = all /\ u.node[s].strayed = node[s].strayed
  BY <1>6, <1>11, <1>12, <1>16 DEF Alike
<1>18. won = u  BY <1>13 DEF AfterWin, Elected, w, w1, all, lead, n
<1>19. Echo(World, u)
  <2>1. /\ \A z \in Server : Runs(World.node[z]) => Runs(w1.node[z])
        /\ \A L : Copied(World, L) => Copied(w1, L)
        /\ \A z \in Server : w1.node[z].log = World.node[z].log
    <3>1. /\ w1.conn = World.conn /\ w1.node[s] = n /\ World.node[s] = node[s]
          /\ \A z \in Server \ {s} : w1.node[z] = World.node[z]
      BY <1>3, <1>7, WorldIs DEF NodeSet
    <3>2. /\ \A z \in Server : Runs(World.node[z]) => Runs(w1.node[z])
          /\ \A L : Copied(World, L) => Copied(w1, L)
      BY <3>1, <1>1, <1>6, QuietEcho
    <3> QED  BY <3>1, <3>2, <1>6
  <2>2. Echo(w1, w2)  BY <1>14 DEF Fine
  <2>4. \A L \in Seq(Entry) : Copied(World, L) => Copied(u, L)
    BY <2>1, <2>2, <1>15 DEF Echo, Copied
  <2>5. \A z \in Server : Runs(World.node[z]) => Tidy(u.node[z])
    BY <2>1, <2>2, <1>15 DEF Echo
  <2>6. \A z \in Server \ Joiners : Len(World.node[z].log) <= Len(u.node[z].log)
    BY <2>1, <2>2, <1>15 DEF Echo
  <2> QED  BY <2>4, <2>5, <2>6 DEF Echo
<1> QED  BY <1>15, <1>16, <1>17, <1>18, <1>19 DEF all, WonIs


(* A vote counted, whether or not it is the one that decides. *)
LEMMA CountGood ==
    ASSUME Inv, NEW m \in msgs, m.type = "vote", m.granted, NEW s, s = m.to,
           m.term = node[s].term, node[s].role = "Candidate", NEW w, World' = w, UNCHANGED used,
           Ok(w, used.writes), Held(w, Server),
           w.msgs \subseteq (msgs \ {m}) \cup [type : {"elected"}, from : Server, term : Terms],
           \A y \in Server \ {s} : w.node[y] = node[y],
           w.node[s].term = node[s].term, w.node[s].voted = node[s].voted,
           w.node[s].votes = node[s].votes + 1, w.node[s].strayed = node[s].strayed,
           w.node[s].won \subseteq
               node[s].won \cup {[term |-> node[s].term, votes |-> node[s].votes + 1]}
    PROVE  Good(World', used')
<1>1. Sane /\ used' \in UsedType /\ Ok(World, used.writes)  BY InvIs DEF Sane
<1>2. m \in Vote /\ s \in Server /\ m.from \in Server  BY <1>1, MsgIs DEF Vote
<1>3. PICK T, x : T = node[s].term /\ x = m.from  OBVIOUS
<1>4. m = Granted(x, s, T)  BY <1>2, <1>3 DEF Vote, Granted
<1>5. \A z \in w.msgs : IsBallot(z) => z \in msgs \ {Granted(x, s, T)}
  <2> SUFFICES ASSUME NEW z \in w.msgs, IsBallot(z) PROVE z \in msgs \ {Granted(x, s, T)}
    OBVIOUS
  <2>1. z \notin [type : {"elected"}, from : Server, term : Terms]  BY DEF IsBallot
  <2> QED  BY <2>1, <1>4
<1>6. ASSUME ~Strayed(w) PROVE \E b \in Books : Ballots(b, w)
  <2>1. PICK v : v = World  OBVIOUS
  <2>2. v.node = node /\ v.msgs = msgs /\ Ok(v, used.writes)  BY <2>1, <1>1, WorldIs
  <2>3. ~Strayed(v)  BY <2>2, <1>2, <1>6, NotStrayed
  <2>4. PICK b \in Books : Ballots(b, v)  BY <2>1, <2>3 DEF Inv, Good
  <2>5. /\ T = v.node[s].term /\ v.node[s].role = "Candidate" /\ Granted(x, s, T) \in v.msgs
        /\ \A z \in w.msgs : IsBallot(z) => z \in v.msgs \ {Granted(x, s, T)}
        /\ \A y \in Server \ {s} : w.node[y] = v.node[y]
        /\ w.node[s].term = T /\ w.node[s].voted = v.node[s].voted
        /\ w.node[s].votes = v.node[s].votes + 1
        /\ w.node[s].won \subseteq v.node[s].won \cup {[term |-> T, votes |-> v.node[s].votes + 1]}
    BY <2>2, <1>3, <1>4, <1>5
  <2>6. Ballots(b, w)  BY <2>2, <2>4, <2>5, <1>2, <1>3, BallotsCount
  <2> QED  BY <2>6
<1> QED  BY <1>1, <1>6 DEF Good

LEMMA ResponseGood ==
    ASSUME Inv, NEW m \in msgs, handle_request_vote_response(m)
    PROVE  Good(World', used') /\ Echo(World, World')
<1> DEFINE W == used.writes
           s == m.to
           n == node[s]
           votes == n.votes + 1
           wins == votes >= (Cardinality(n.nodes) + 1) \div 2 + 1
           ms == msgs \ {m}
           w == SetMsgs(World, ms)
           e == [term |-> n.term, votes |-> votes]
           elected == [n EXCEPT !.votes = votes, !.won = @ \cup {e}]
           lead == become_leader(SetNode(w, s, elected), s)
           won == [lead EXCEPT !.node[s].nodes = n.nodes,
                       !.msgs = @ \cup {[type |-> "elected", from |-> s, term |-> n.term]}]
           r == [n EXCEPT !.term = m.term, !.voted = FALSE, !.role = "Follower"]
           raised == SetNode(w, s, r)
           c == [n EXCEPT !.votes = votes]
           counted == SetNode(w, s, c)
<1>1. Sane /\ W \in Idx /\ m.type = "vote"  BY InvIs, SaneFine DEF handle_request_vote_response
<1>2. /\ msgs \subseteq Msg /\ s \in Server /\ m.from \in Server /\ m.term \in Terms /\ m.term \in Nat
  BY <1>1, MsgIs, Constants DEF Vote
<1>3. /\ n \in NodeType(s, W) /\ n.term \in Nat /\ n.votes \in Nat /\ n.term \in Terms
      /\ Len(n.log) <= Len(n.log)
  <2>1. node[s] \in NodeType(s, W)  BY <1>1, <1>2, Typed
  <2>2. node[s].term \in Nat /\ node[s].votes \in Nat /\ Len(node[s].log) <= Len(node[s].log)
    BY <2>1, LenNat
  <2> QED  BY <2>1, <2>2 DEF NodeType
<1>4. /\ Ok(w, W) /\ Held(w, Server) /\ w.node = node /\ w.conn = conn /\ w.msgs = ms
      /\ Fine(World, w, W, Server)
  <2>1. Ok(World, W) /\ Held(World, Server) /\ ms \subseteq Msg  BY <1>1, <1>2 DEF Sane
  <2>2. Fine(World, World, W, Server) /\ \A x \in ms : IsBallot(x) => x \in World.msgs
    BY <1>1, SaneFine, WorldIs
  <2> HIDE DEF ms
  <2>3. Ok(w, W) /\ Held(w, Server) /\ w.node = node /\ w.conn = conn /\ w.msgs = ms
    BY <2>1, SafeMsgs, WorldIs
  <2> QED  BY <2>1, <2>2, <2>3, PutMsgs
<1>5. UNCHANGED used
      /\ \/ m.term > n.term /\ Becomes(raised)
         \/ m.term = n.term /\ n.role = "Candidate" /\ m.granted /\ Becomes(won)
         \/ m.term = n.term /\ n.role = "Candidate" /\ m.granted /\ Becomes(counted)
         \/ Becomes(w)
  <2>1. /\ [World EXCEPT !.msgs = @ \ {m}] = w
    BY WorldIs DEF SetMsgs
  <2>2. /\ UNCHANGED used
        /\ Becomes(CASE m.term > n.term ->
                          [w EXCEPT !.node[s] = [@ EXCEPT !.term = m.term, !.voted = FALSE,
                                                          !.role = "Follower"]]
                     [] m.term = n.term /\ n.role = "Candidate" /\ m.granted /\ wins ->
                          [become_leader([w EXCEPT !.node[s] = elected], s)
                               EXCEPT !.node[s].nodes = n.nodes,
                              !.msgs = @ \cup {[type |-> "elected", from |-> s, term |-> n.term]}]
                     [] m.term = n.term /\ n.role = "Candidate" /\ m.granted /\ ~wins ->
                          [w EXCEPT !.node[s].votes = votes]
                     [] OTHER -> w)
    BY <2>1 DEF handle_request_vote_response
  <2>3. [w EXCEPT !.node[s] = [@ EXCEPT !.term = m.term, !.voted = FALSE, !.role = "Follower"]]
        = raised
    <3>1. PICK z : z = w  OBVIOUS
    <3>2. z.node[s] = n  BY <3>1, <1>4
    <3>3. [z EXCEPT !.node[s] = [@ EXCEPT !.term = m.term, !.voted = FALSE, !.role = "Follower"]]
          = SetNode(z, s, [z.node[s] EXCEPT !.term = m.term, !.voted = FALSE, !.role = "Follower"])
      BY DEF SetNode
    <3> QED  BY <3>1, <3>2, <3>3
  <2>4. [w EXCEPT !.node[s].votes = votes] = counted
    <3>1. \A d : [d EXCEPT !.node[s].votes = votes]
                 = SetNode(d, s, [d.node[s] EXCEPT !.votes = votes])
      BY DEF SetNode
    <3> QED  BY <3>1, <1>4
  <2>5. [w EXCEPT !.node[s] = elected] = SetNode(w, s, elected)  BY DEF SetNode
  <2>6. PICK A, B, C : A = raised /\ B = won /\ C = counted  OBVIOUS
  <2>7. Becomes(CASE m.term > n.term -> A
                  [] m.term = n.term /\ n.role = "Candidate" /\ m.granted /\ wins -> B
                  [] m.term = n.term /\ n.role = "Candidate" /\ m.granted /\ ~wins -> C
                  [] OTHER -> w)
    BY <2>2, <2>3, <2>4, <2>5, <2>6
  <2> HIDE DEF w, raised, won, counted, wins
  <2> QED  BY <2>2, <2>6, <2>7
<1>6. CASE Becomes(w)
  <2>1. Steady  BY <1>1, <1>4, <1>5, <1>6, SteadyIs
  <2> QED  BY <2>1, SteadyGood
<1>7. CASE m.term > n.term /\ Becomes(raised)
  <2>1. /\ r \in NodeType(s, W) /\ r.won = n.won /\ r.strayed = n.strayed /\ r.votes = n.votes
        /\ r.log = n.log /\ r.peers = n.peers /\ r.match = n.match /\ r.term = m.term
        /\ r.role = "Follower" /\ r.exec = n.exec /\ r.applied = n.applied
    BY <1>2, <1>3 DEF NodeType
  <2> HIDE DEF r
  <2>2. n.term < r.term /\ n.votes <= n.votes
    <3>1. m.term > n.term  BY <1>7
    <3> HIDE DEF n
    <3> QED  BY <3>1, <2>1, <1>2, <1>3
  <2>3. Mild(n, r)  BY <2>1, <2>2, <1>3, MildIs
  <2> HIDE DEF w
  <2>4. Fine(World, raised, W, Server)  BY <2>1, <2>3, <1>2, <1>4, PutNode
  <2> HIDE DEF raised
  <2>5. Steady  BY <2>4, <1>1, <1>5, <1>7, SteadyIs
  <2> QED  BY <2>5, SteadyGood
<1>8. votes \in Nat /\ ms \subseteq Msg
  <2> HIDE DEF n
  <2> QED  BY <1>2, <1>3
<1>9. CASE m.term = n.term /\ n.role = "Candidate" /\ m.granted /\ Becomes(won)
  <2> DEFINE y == {[type |-> "elected", from |-> s, term |-> n.term]}
  <2>1. y \subseteq [type : {"elected"}, from : Server, term : Terms] /\ y \subseteq Msg
    BY <1>2, <1>3 DEF Msg, Notice
  <2>2. /\ Ok(won, W) /\ Held(won, Server) /\ won.msgs = ms \cup y
        /\ \A z \in Server \ {s} : won.node[z] = node[z]
        /\ won.node[s].term = node[s].term /\ won.node[s].voted = node[s].voted
        /\ won.node[s].votes = votes /\ won.node[s].won = node[s].won \cup {e}
        /\ won.node[s].strayed = node[s].strayed /\ Echo(World, won)
    <3>1. node[s].role # "Leader"  BY <1>9
    <3>2. won = AfterWin(w, s, Elected(node[s], votes, e), node[s].nodes, y)
      BY DEF AfterWin, Elected
    <3> HIDE DEF won, y
    <3>3. y \subseteq Msg /\ ms \subseteq Msg  BY <2>1, <1>8
    <3>4. PICK v, x, q : v = votes /\ x = node[s].nodes /\ q = e  OBVIOUS
    <3>5. v \in Nat /\ q = [term |-> node[s].term, votes |-> v]  BY <3>4, <1>8
    <3>6. won = AfterWin(SetMsgs(World, ms), s, Elected(node[s], v, q), x, y)  BY <3>2, <3>4
    <3>7. PICK t, k, z, d : t = s /\ k = ms /\ z = won /\ d = y  OBVIOUS
    <3>8. /\ t \in Server /\ k \subseteq Msg /\ d \subseteq Msg /\ node[t].role # "Leader"
          /\ x = node[t].nodes /\ q = [term |-> node[t].term, votes |-> v]
          /\ z = AfterWin(SetMsgs(World, k), t, Elected(node[t], v, q), x, d)
      BY <3>1, <3>3, <3>4, <3>5, <3>6, <3>7, <1>2
    <3>9. WonIs(z, t, k, v, q, d)  BY <3>5, <3>8, <1>1, WonWorld
    <3> QED  BY <3>4, <3>7, <3>9 DEF WonIs
  <2> HIDE DEF won, y
  <2>3. World' = won
    <3>1. won = Wd(won.node, won.conn, won.msgs)  BY <2>2 DEF Ok
    <3>2. node' = won.node /\ conn' = won.conn /\ msgs' = won.msgs  BY <1>9 DEF Becomes
    <3> QED  BY <3>1, <3>2 DEF World, Wd
  <2>4. won.msgs \subseteq (msgs \ {m}) \cup [type : {"elected"}, from : Server, term : Terms]
    BY <2>1, <2>2
  <2>5. Good(World', used')  BY <2>2, <2>3, <2>4, <1>1, <1>5, <1>9, CountGood
  <2> QED  BY <2>2, <2>3, <2>5
<1>10. CASE m.term = n.term /\ n.role = "Candidate" /\ m.granted /\ Becomes(counted)
  <2>1. /\ c \in NodeType(s, W) /\ c.won = n.won /\ c.strayed = n.strayed /\ c.votes = votes
        /\ c.log = n.log /\ c.peers = n.peers /\ c.match = n.match /\ c.term = n.term
        /\ c.voted = n.voted /\ c.role = n.role /\ c.exec = n.exec /\ c.applied = n.applied
    BY <1>3, <1>8 DEF NodeType
  <2> HIDE DEF c, w
  <2>2. ASSUME NEW f \in c.peers \cap Server, conn[f].to = s, conn[f].open
        PROVE  At(c.match, f) <= Len(node[f].log)
    <3>1. f \in node[s].peers /\ c.match = node[s].match /\ f \in Server  BY <2>1, <2>2
    <3> QED  BY <3>1, <2>2, <1>1, <1>2, WorldIs DEF Sane, Held, Sound
  <2>3. Ok(counted, W) /\ Held(counted, Server) /\ NodeSet(w, counted, s, c)
    <3>1. Len(w.node[s].log) <= Len(c.log) /\ c.role = w.node[s].role  BY <2>1, <1>3, <1>4
    <3>2. \A f \in c.peers \cap Server : w.conn[f].to = s /\ w.conn[f].open =>
              At(c.match, f) <= Len(w.node[f].log)
      BY <2>2, <1>4
    <3>3. c \in NodeType(s, W) /\ s \in Server /\ Ok(w, W) /\ Held(w, Server)
      BY <2>1, <1>2, <1>4
    <3> HIDE DEF s, n, W
    <3> QED  BY <3>1, <3>2, <3>3, SafeNode
  <2> HIDE DEF counted
  <2>4. counted.node[s] = c /\ counted.msgs = ms /\ \A y \in Server \ {s} : counted.node[y] = node[y]
    BY <2>3, <1>4 DEF NodeSet
  <2>5. World' = counted
    <3>1. counted = Wd(counted.node, counted.conn, counted.msgs)  BY <2>3 DEF Ok
    <3>2. node' = counted.node /\ conn' = counted.conn /\ msgs' = counted.msgs
      BY <1>10 DEF Becomes
    <3> QED  BY <3>1, <3>2 DEF World, Wd
  <2>6. counted.msgs \subseteq (msgs \ {m}) \cup [type : {"elected"}, from : Server, term : Terms]
    BY <2>4
  <2>7. Good(World', used')  BY <2>1, <2>3, <2>4, <2>5, <2>6, <1>1, <1>5, <1>10, CountGood
  <2>8. Echo(World, counted)
    <3>1. counted.conn = World.conn /\ Ok(World, W) /\ World.node[s] = n
          /\ \A y \in Server \ {s} : counted.node[y] = World.node[y]
      BY <2>3, <2>4, <1>1, <1>4, WorldIs DEF NodeSet, Sane
    <3> HIDE DEF n, W
    <3> QED  BY <3>1, <2>1, <2>4, <1>2, QuietEcho
  <2> QED  BY <2>5, <2>7, <2>8
<1> QED  BY <1>5, <1>6, <1>7, <1>9, <1>10


-----------------------------------------------------------------------------
(* The cluster as it starts. *)

First == IF Behind = {} THEN <<>> ELSE <<[term |-> 0, id |-> 1]>>
Have(s) == IF s \in Behind THEN <<>> ELSE First
Followers == Members \ {Master}
Leading == [Fresh EXCEPT !.nodes = Followers, !.peers = Followers, !.log = First,
               !.next = [f \in Followers |-> Len(Have(f)) + 1],
               !.match = [f \in Followers |-> Len(Have(f))]]
Trailing(s) == [Fresh EXCEPT !.role = "Follower", !.leader = Master,
                   !.nodes = Members \ {s}, !.log = Have(s)]
Link(s) == [to |-> Master, open |-> TRUE, up |-> <<>>,
            down |-> IF s \in Behind THEN <<AppendEntries(Leading, s)>> ELSE <<>>]

LEMMA InitIs ==
    ASSUME Init
    PROVE  /\ node = [s \in Server |->
                  CASE s = Master -> IF Confirm THEN try_commit_entries(Leading)
                                     ELSE commit_entries(Leading)
                    [] s \in Followers -> Trailing(s)
                    [] OTHER -> Fresh]
           /\ conn = [s \in Server |-> IF s \in Followers THEN Link(s) ELSE NoConn]
           /\ msgs = {} /\ used = [writes |-> Len(First), drops |-> 0, restarts |-> 0, commands |-> 0]
BY DEF Init, First, Have, Followers, Leading, Trailing, Link

LEMMA FirstIs ==
    /\ Len(First) \in Idx /\ First \in {q \in Seq(Entry) : Len(q) <= Len(First)}
    /\ \A s : /\ Have(s) \in {q \in Seq(Entry) : Len(q) <= Len(First)}
              /\ Len(Have(s)) \in Idx /\ Len(Have(s)) + 1 \in 0..(MaxWrites + 1)
<1>1. MaxWrites \in Nat /\ 0 \in Terms /\ 0 \in Idx  BY Constants
<1>2. Behind # {} => MaxWrites >= 1  BY <1>1, RaftAssumption
<1>3. <<>> \in Seq(Entry) /\ Len(<<>>) = 0  BY EmptySeq
<1>4. First \in Seq(Entry) /\ Len(First) \in Idx
  <2>1. CASE Behind = {}
    <3>1. First = <<>>  BY <2>1 DEF First
    <3> QED  BY <3>1, <1>1, <1>3
  <2>2. CASE Behind # {}
    <3>1. PICK e : e = [term |-> 0, id |-> 1]  OBVIOUS
    <3>2. e \in Entry  BY <3>1, <2>2, <1>1, <1>2 DEF Entry
    <3>3. First = <<e>>  BY <3>1, <2>2 DEF First
    <3>4. First \in Seq(Entry) /\ Len(First) = 1  BY <3>2, <3>3
    <3>5. 1 \in Idx  BY <2>2, <1>1, <1>2 DEF Idx
    <3> QED  BY <3>4, <3>5
  <2> QED  BY <2>1, <2>2
<1>5. PICK W : W = Len(First)  OBVIOUS
<1>6. W \in Nat /\ W <= MaxWrites /\ 0 <= W  BY <1>4, <1>5, <1>1 DEF Idx
<1>7. ASSUME NEW s
      PROVE  /\ Have(s) \in {q \in Seq(Entry) : Len(q) <= W}
             /\ Len(Have(s)) \in Idx /\ Len(Have(s)) + 1 \in 0..(MaxWrites + 1)
  <2>1. CASE s \in Behind
    <3>1. Have(s) = <<>>  BY <2>1 DEF Have
    <3>2. Len(Have(s)) = 0 /\ Have(s) \in Seq(Entry)  BY <3>1, <1>3
    <3> QED  BY <3>2, <1>1, <1>6
  <2>2. CASE s \notin Behind
    <3>1. Have(s) = First  BY <2>2 DEF Have
    <3>2. Len(Have(s)) = W /\ Have(s) \in Seq(Entry)  BY <3>1, <1>4, <1>5
    <3> QED  BY <3>2, <1>1, <1>6 DEF Idx
  <2> QED  BY <2>1, <2>2
<1>8. First \in {q \in Seq(Entry) : Len(q) <= W}
  <2>1. Len(First) <= W  BY <1>5, <1>6
  <2> QED  BY <2>1, <1>4
<1> QED  BY <1>4, <1>5, <1>7, <1>8

LEMMA FreshIs ==
    ASSUME NEW s, NEW W \in Idx
    PROVE  Fresh \in NodeType(s, W) /\ ~Fresh.strayed /\ Fresh.votes = 0 /\ Fresh.won = {}
<1>1. <<>> \in {q \in Seq(Entry) : Len(q) <= W} /\ <<>> \in Seq(1..MaxWrites)
  <2>1. W >= 0  BY Constants DEF Idx
  <2> QED  BY <2>1, EmptySeq
<1>2. NoJoin \in JoinType(s)  BY Constants DEF JoinType, NoJoin
<1>3. NoMap \in Tables(0..(MaxWrites + 1)) /\ NoMap \in Tables(Idx)  BY NoMapIs
<1>4. 0 \in Idx /\ 0 \in Terms /\ 0 \in Nat  BY Constants
<1>5. "no" \in Stages(s)  BY DEF Stages
<1> QED  BY <1>1, <1>2, <1>3, <1>4, <1>5 DEF Fresh, NodeType

LEMMA LeadingIs ==
    LET W == Len(First)
    IN  /\ Leading \in NodeType(Master, W) /\ ~Leading.strayed /\ Leading.votes = 0
        /\ Leading.won = {} /\ Leading.log = First
        /\ \A f \in Followers : At(Leading.match, f) = Len(Have(f))
<1> DEFINE W == Len(First)
           next == [f \in Followers |-> Len(Have(f)) + 1]
           match == [f \in Followers |-> Len(Have(f))]
<1>1. W \in Idx /\ First \in {q \in Seq(Entry) : Len(q) <= W}  BY FirstIs
<1>2. Followers \in SUBSET Server /\ Followers \in SUBSET Others(Master)
  BY Constants DEF Followers, Others
<1>3. next \in Tables(0..(MaxWrites + 1)) /\ match \in Tables(Idx)
  <2>1. next \in [Followers -> 0..(MaxWrites + 1)] /\ match \in [Followers -> Idx]  BY FirstIs
  <2> HIDE DEF next, match
  <2> QED  BY <2>1, <1>2 DEF Tables
<1>4. \A f \in Followers : At(match, f) = Len(Have(f))  BY DEF At
<1>5. Leading = [Fresh EXCEPT !.nodes = Followers, !.peers = Followers, !.log = First,
                     !.next = next, !.match = match]
  BY DEF Leading
<1> HIDE DEF next, match, W
<1>6. Fresh \in NodeType(Master, W) /\ ~Fresh.strayed /\ Fresh.votes = 0 /\ Fresh.won = {}
  BY <1>1, FreshIs
<1>7. /\ Leading \in NodeType(Master, W) /\ Leading.strayed = Fresh.strayed
      /\ Leading.votes = Fresh.votes /\ Leading.won = Fresh.won /\ Leading.log = First
      /\ Leading.match = match
  BY <1>1, <1>2, <1>3, <1>5, <1>6 DEF NodeType
<1> QED  BY <1>4, <1>6, <1>7 DEF W

LEMMA TrailingIs ==
    ASSUME NEW s \in Followers
    PROVE  /\ Trailing(s) \in NodeType(s, Len(First)) /\ ~Trailing(s).strayed
           /\ Trailing(s).votes = 0 /\ Trailing(s).won = {} /\ Trailing(s).log = Have(s)
           /\ Trailing(s).role = "Follower" /\ Trailing(s).peers = {}
<1> DEFINE W == Len(First)
           nodes == Members \ {s}
           log == Have(s)
<1>1. W \in Idx /\ log \in {q \in Seq(Entry) : Len(q) <= W}  BY FirstIs
<1>2. nodes \in SUBSET Others(s) /\ Master \in Others(s) \cup {Null}
  BY Constants DEF Followers, Others
<1>3. Trailing(s) = [Fresh EXCEPT !.role = "Follower", !.leader = Master, !.nodes = nodes,
                         !.log = log]
  BY DEF Trailing
<1>4. Fresh.peers = {}  BY DEF Fresh
<1> HIDE DEF nodes, log, W
<1>5. Fresh \in NodeType(s, W) /\ ~Fresh.strayed /\ Fresh.votes = 0 /\ Fresh.won = {}
  BY <1>1, FreshIs
<1>6. PICK n, z, l, q : n = Fresh /\ z = Trailing(s) /\ l = nodes /\ q = log  OBVIOUS
<1>7. z = [n EXCEPT !.role = "Follower", !.leader = Master, !.nodes = l, !.log = q]
  BY <1>3, <1>6
<1>8. n \in NodeType(s, W) /\ l \in SUBSET Others(s) /\ q \in {x \in Seq(Entry) : Len(x) <= W}
  BY <1>1, <1>2, <1>5, <1>6
<1>9. z \in NodeType(s, W)  BY <1>2, <1>7, <1>8 DEF NodeType
<1>10. /\ z.strayed = n.strayed /\ z.votes = n.votes /\ z.won = n.won
       /\ z.log = q /\ z.role = "Follower" /\ z.peers = n.peers
  BY <1>7, <1>8 DEF NodeType
<1> QED  BY <1>4, <1>5, <1>6, <1>9, <1>10 DEF W, log

LEMMA LinkIs ==
    ASSUME NEW s \in Followers
    PROVE  /\ Link(s) \in ConnType(s, Len(First)) /\ Link(s).to = Master /\ Link(s).up = <<>>
<1> DEFINE W == Len(First)
           m == AppendEntries(Leading, s)
           down == IF s \in Behind THEN <<m>> ELSE <<>>
<1>1. W \in Idx /\ Leading \in NodeType(Master, W)  BY FirstIs, LeadingIs
<1>2. m \in DownType(W)  BY <1>1, AppendDown
<1>3. Link(s) = [to |-> Master, open |-> TRUE, up |-> <<>>, down |-> down]  BY DEF Link
<1> HIDE DEF m, W
<1>4. down \in Seq(DownType(W))  BY <1>2
<1> HIDE DEF down
<1>5. Master \in Others(s) \cup {Null}  BY Constants DEF Followers, Others
<1>6. <<>> \in Seq(UpType)  BY EmptySeq
<1> QED  BY <1>3, <1>4, <1>5, <1>6 DEF ConnType, W

LEMMA FreshRuns ==
    ASSUME NEW n, n.exec = <<>>, n.applied = 0,
           n.log = <<>> \/ n.log = First \/ \E s : n.log = Have(s)
    PROVE  Runs(n)
<1>1. Len(n.log) \in Nat
  <2>1. n.log \in Seq(Entry)  BY FirstIs, EmptySeq
  <2> QED  BY <2>1
<1>2. Len(n.exec) = 0  OBVIOUS
<1> QED  BY <1>1, <1>2 DEF Runs

LEMMA StartsAs ==
    ASSUME Init, NEW s \in Server
    PROVE  /\ node[s] \in NodeType(s, Len(First)) /\ ~node[s].strayed
           /\ node[s].votes = 0 /\ node[s].won = {}
           /\ s = Master => node[s].match = Leading.match
           /\ s \in Followers => node[s].role = "Follower" /\ node[s].log = Have(s)
           /\ s = Master => node[s].log = First
           /\ s # Master /\ s \notin Followers => node[s].log = <<>>
           /\ Tidy(node[s])
<1> DEFINE W == Len(First)
           n == IF Confirm THEN try_commit_entries(Leading) ELSE commit_entries(Leading)
<1>1. W \in Idx  BY FirstIs
<1>2. /\ s = Master => node[s] = n
      /\ s \in Followers => node[s] = Trailing(s)
      /\ s # Master /\ s \notin Followers => node[s] = Fresh
  BY InitIs DEF Followers
<1>3. CASE s = Master
  <2>1. /\ Leading \in NodeType(s, W) /\ ~Leading.strayed /\ Leading.votes = 0
        /\ Leading.won = {}
    BY <1>3, LeadingIs
  <2>2. Ran(Leading, n) /\ Tidy(n)
    <3>0. Runs(Leading)
      <4>1. Leading.log = First /\ Leading.exec = <<>> /\ Leading.applied = 0
        BY DEF Leading, Fresh
      <4> QED  BY <4>1, FreshRuns
    <3>1. RanWell(Leading, try_commit_entries(Leading))  BY <2>1, <1>1, TryCommitRan
    <3>2. /\ Ran(Leading, commit_entries(Leading))
          /\ Runs(Leading) => Tidy(commit_entries(Leading))
      BY <2>1, <1>1, CommitEntriesRan
    <3> QED  BY <3>0, <3>1, <3>2 DEF RanWell, Tidy
  <2> HIDE DEF n
  <2>3. /\ n \in NodeType(s, W) /\ n.strayed = Leading.strayed /\ n.votes = Leading.votes
        /\ n.won = Leading.won /\ n.match = Leading.match /\ n.log = Leading.log
    BY <2>1, <2>2, <1>1, RanIs
  <2>4. s \notin Followers  BY <1>3 DEF Followers
  <2>5. Leading.log = First  BY LeadingIs
  <2> QED  BY <2>1, <2>2, <2>3, <2>4, <2>5, <1>2, <1>3
<1>4. CASE s \in Followers
  <2>1. s # Master  BY <1>4 DEF Followers
  <2>2. Tidy(Trailing(s))
    <3>1. Trailing(s).log = Have(s) /\ Trailing(s).exec = <<>> /\ Trailing(s).applied = 0
      BY DEF Trailing, Fresh
    <3> QED  BY <3>1, FreshRuns DEF Tidy
  <2> QED  BY <2>1, <2>2, <1>2, <1>4, TrailingIs
<1>5. CASE s # Master /\ s \notin Followers
  <2>1. Fresh.log = <<>> /\ Fresh.exec = <<>> /\ Fresh.applied = 0  BY DEF Fresh
  <2>2. Tidy(Fresh)  BY <2>1, FreshRuns DEF Tidy
  <2> QED  BY <2>1, <2>2, <1>1, <1>2, <1>5, FreshIs
<1> QED  BY <1>3, <1>4, <1>5

LEMMA LinkedAs ==
    ASSUME Init, NEW s \in Server
    PROVE  /\ conn[s] \in ConnType(s, Len(First))
           /\ conn[s].open => s \in Followers /\ conn[s].to = Master /\ conn[s].up = <<>>
<1>1. conn[s] = IF s \in Followers THEN Link(s) ELSE NoConn  BY InitIs
<1>2. CASE s \in Followers  BY <1>1, <1>2, LinkIs
<1>3. CASE s \notin Followers  BY <1>1, <1>3, NoConnIs
<1> QED  BY <1>2, <1>3

LEMMA InitGood ==
    ASSUME Init PROVE Inv
<1> DEFINE W == Len(First)
<1>1. used \in UsedType /\ used.writes = W
  <2>1. W \in Idx  BY FirstIs
  <2>2. used = [writes |-> W, drops |-> 0, restarts |-> 0, commands |-> 0]  BY InitIs
  <2> HIDE DEF W
  <2> QED  BY <2>1, <2>2 DEF UsedType
<1>2. Ok(World, W)
  <2>1. node = [s \in Server |-> node[s]] /\ conn = [s \in Server |-> conn[s]] /\ msgs = {}
    BY InitIs
  <2>2. \A s \in Server : node[s] \in NodeType(s, W) /\ conn[s] \in ConnType(s, W)
    BY StartsAs, LinkedAs
  <2> HIDE DEF W
  <2> QED  BY <2>1, <2>2, WorldIs DEF Ok
<1>3. Held(World, Server)
  <2> SUFFICES ASSUME NEW f \in Server, conn[f].open
               PROVE  /\ node[f].role # "Leader"
                      /\ \A i \in DOMAIN conn[f].up : conn[f].up[i].index <= Len(node[f].log)
                      /\ \A l \in Server : conn[f].to = l /\ f \in node[l].peers =>
                            At(node[l].match, f) <= Len(node[f].log)
    BY WorldIs DEF Held, Sound
  <2>1. f \in Followers /\ conn[f].to = Master /\ conn[f].up = <<>>  BY LinkedAs
  <2>2. node[f].role = "Follower" /\ node[f].log = Have(f)  BY <2>1, StartsAs
  <2>3. DOMAIN conn[f].up = {}  BY <2>1
  <2>4. node[Master].match = Leading.match  BY StartsAs, Constants
  <2>5. At(Leading.match, f) = Len(Have(f)) /\ Len(Have(f)) \in Nat
    BY <2>1, LeadingIs, FirstIs, Constants
  <2> QED  BY <2>1, <2>2, <2>3, <2>4, <2>5
<1>4. \E b \in Books : Ballots(b, World)
  <2> DEFINE b == [s \in Server |-> [T \in Nat |-> Null]]
  <2>1. b \in Books  BY DEF Books
  <2>2. \A s \in Server, T \in Nat : b[s][T] = Null  OBVIOUS
  <2> HIDE DEF b
  <2>3. ASSUME NEW s \in Server
        PROVE  Cast(b, node[s], s) /\ Counts(b, World, s) /\ Earned(b, node[s], s)
    <3>1. node[s].votes = 0 /\ node[s].won = {} /\ node[s] \in NodeType(s, W)  BY StartsAs
    <3>2. node[s].term \in Nat
      <4> HIDE DEF W
      <4> QED  BY <3>1, Constants DEF NodeType
    <3>3. Cast(b, node[s], s)  BY <2>2 DEF Cast
    <3>4. Earned(b, node[s], s)  BY <3>1 DEF Earned
    <3>5. s # Null  BY Constants
    <3>6. b[s][node[s].term] # s  BY <2>2, <3>2, <3>5
    <3>7. 0 <= Cardinality(Server)  BY VotersFinite
    <3>8. Counts(b, World, s)  BY <3>1, <3>6, <3>7, WorldIs DEF Counts
    <3> QED  BY <3>3, <3>4, <3>8
  <2>4. World.msgs = {}  BY InitIs, WorldIs
  <2>5. Ballots(b, World)  BY <2>3, <2>4, WorldIs DEF Ballots
  <2> QED  BY <2>1, <2>5
<1> QED  BY <1>1, <1>2, <1>3, <1>4 DEF Inv, Good

-----------------------------------------------------------------------------
(* Every step keeps the invariant. *)

LEMMA NextGood ==
    ASSUME Inv, [Next]_vars
    PROVE  Inv' /\ (Echo(World, World') \/ \E s \in Server : SubmitAppend(s))
<1> DEFINE Kept == /\ Good(World', used')
                   /\ Echo(World, World') \/ \E s \in Server : SubmitAppend(s)
<1>1. Sane  BY InvIs
<1>2. ASSUME Steady PROVE Kept  BY <1>2, SteadyGood
<1>3. CASE UNCHANGED vars
  <2>1. Kept  BY <1>3, StutterGood
  <2> QED  BY <2>1, InvNext
<1>4. ASSUME NEW s \in Server,
             \/ Refused(s) \/ Redirected(s) \/ Ask(s) \/ NoAnswer(s)
             \/ Timeout(s) \/ handle_leader_message(s) \/ Reconnect(s) \/ Apply(s)
             \/ SubmitCheck(s) \/ SubmitAppend(s) \/ SubmitCommit(s)
             \/ Drop(s) \/ Crash(s) \/ Restart(s)
      PROVE  Kept
  <2>1. CASE Refused(s)  BY <2>1, <1>1, <1>2, RefusedSteady
  <2>2. CASE Redirected(s)  BY <2>2, <1>1, <1>2, RedirectedSteady
  <2>3. CASE Ask(s)  BY <2>3, <1>1, <1>2, AskSteady
  <2>4. CASE NoAnswer(s)  BY <2>4, <1>1, <1>2, NoAnswerSteady
  <2>5. CASE Timeout(s)  BY <2>5, <1>1, <1>2, TimeoutSteady
  <2>6. CASE handle_leader_message(s)  BY <2>6, <1>1, <1>2, MessageSteady
  <2>7. CASE Reconnect(s)  BY <2>7, <1>1, <1>2, ReconnectSteady
  <2>8. CASE Apply(s)  BY <2>8, <1>1, <1>2, ApplySteady
  <2>9. CASE SubmitCheck(s)  BY <2>9, <1>1, <1>2, SubmitCheckSteady
  <2>10. CASE SubmitAppend(s)  
    <3>1. Good(World', used')  BY <2>10, <1>1, SubmitAppendFine, FineGood
    <3> QED  BY <2>10, <3>1
  <2>11. CASE SubmitCommit(s)  BY <2>11, <1>1, <1>2, SubmitCommitSteady
  <2>12. CASE Drop(s)  BY <2>12, <1>1, <1>2, DropSteady
  <2>13. CASE Crash(s)  BY <2>13, <1>1, <1>2, CrashSteady
  <2>14. CASE Restart(s)  BY <2>14, <1>1, <1>2, RestartSteady
  <2> QED
    BY <1>4, <2>1, <2>2, <2>3, <2>4, <2>5, <2>6, <2>7, <2>8, <2>9, <2>10, <2>11, <2>12,
       <2>13, <2>14
<1>5. ASSUME NEW m \in msgs,
             \/ handle_request_vote(m) \/ handle_request_vote_response(m)
             \/ broadcast_new_master_with_check(m) \/ CheckNewMaster(m)
             \/ handle_new_master(m) \/ Accepted(m) \/ AcceptedLate(m)
             \/ BecomeCandidate(m) \/ SendRequests(m)
      PROVE  Kept
  <2>1. CASE handle_request_vote(m)  BY <2>1, RequestGood
  <2>2. CASE handle_request_vote_response(m)  BY <2>2, ResponseGood
  <2>3. CASE broadcast_new_master_with_check(m)  BY <2>3, <1>1, <1>2, AnnounceSteady
  <2>4. CASE CheckNewMaster(m)  BY <2>4, <1>1, <1>2, CheckSteady
  <2>5. CASE handle_new_master(m)  BY <2>5, <1>1, <1>2, NewMasterSteady
  <2>6. CASE Accepted(m)  BY <2>6, <1>1, <1>2, AcceptedSteady
  <2>7. CASE AcceptedLate(m)  BY <2>7, <1>1, <1>2, AcceptedLateSteady
  <2>8. CASE BecomeCandidate(m)  BY <2>8, BecomeCandidateGood
  <2>9. CASE SendRequests(m)  BY <2>9, SendRequestsGood
  <2> QED  BY <1>5, <2>1, <2>2, <2>3, <2>4, <2>5, <2>6, <2>7, <2>8, <2>9
<1>6. ASSUME NEW l \in Server, NEW f \in Server,
             \/ handle_append_entries_response(l, f) \/ Heartbeat(l, f)
             \/ close_socket(l, f) \/ SetMaster(l, f) \/ remove_node(l, f)
      PROVE  Kept
  <2>1. CASE handle_append_entries_response(l, f)  BY <2>1, <1>1, <1>2, AnswerSteady
  <2>2. CASE Heartbeat(l, f)  BY <2>2, <1>1, <1>2, HeartbeatSteady
  <2>3. CASE close_socket(l, f)  BY <2>3, <1>1, <1>2, CloseSocketSteady
  <2>4. CASE SetMaster(l, f)  BY <2>4, <1>1, <1>2, SetMasterSteady
  <2>5. CASE remove_node(l, f)  BY <2>5, <1>1, <1>2, RemoveNodeSteady
  <2> QED  BY <1>6, <2>1, <2>2, <2>3, <2>4, <2>5
<1>7. CASE Next
  <2>1. Kept  BY <1>4, <1>5, <1>6, <1>7 DEF Next
  <2> QED  BY <2>1, InvNext
<1> QED  BY <1>3, <1>7


LEMMA InvTypes ==
    ASSUME Inv PROVE TypeOK
<1>1. PICK W : W = used.writes  OBVIOUS
<1>2. \A s \in Server : node[s] \in NodeType(s, W) /\ conn[s] \in ConnType(s, W)
  BY <1>1, WorldIs DEF Inv, Good, Ok
<1>3. ASSUME NEW s \in Server, NEW n, n = node[s]
      PROVE  /\ n.life \in {"up", "boot", "down"} /\ n.role \in {"Leader", "Follower", "Candidate"}
             /\ n.term \in Terms /\ n.voted \in BOOLEAN /\ n.votes \in Nat
             /\ n.nodes \subseteq Server \ {s} /\ n.peers \subseteq Server \ {s}
             /\ n.leader \in (Server \ {s}) \cup {Null}
             /\ n.log \in Seq(Entry) /\ n.exec \in Seq(1..MaxWrites)
             /\ n.commit \in 0..MaxWrites /\ n.applied \in 0..MaxWrites
             /\ DOMAIN n.next \subseteq Server /\ DOMAIN n.match \subseteq Server
  <2>1. n \in NodeType(s, W)  BY <1>2, <1>3
  <2>2. /\ n.next \in Tables(0..(MaxWrites + 1)) /\ n.match \in Tables(Idx)
        /\ n.life \in {"up", "boot", "down"} /\ n.role \in {"Leader", "Follower", "Candidate"}
        /\ n.term \in Terms /\ n.voted \in BOOLEAN /\ n.votes \in Nat
        /\ n.nodes \subseteq Others(s) /\ n.peers \subseteq Others(s)
        /\ n.leader \in Others(s) \cup {Null}
        /\ n.log \in Seq(Entry) /\ n.exec \in Seq(1..MaxWrites)
        /\ n.commit \in Idx /\ n.applied \in Idx
    BY <2>1 DEF NodeType
  <2>3. DOMAIN n.next \subseteq Server /\ DOMAIN n.match \subseteq Server
    BY <2>2 DEF Tables
  <2> QED  BY <2>2, <2>3 DEF Others, Idx
<1>4. ASSUME NEW s \in Server PROVE conn[s].to \in (Server \ {s}) \cup {Null}
  BY <1>2 DEF ConnType, Others
<1> QED  BY <1>3, <1>4 DEF TypeOK

LEMMA InvHeld ==
    ASSUME Inv PROVE MatchIndexHeld
BY WorldIs DEF Inv, Good, Held, Sound, MatchIndexHeld, Connected

(* Two majorities have a voter in common, who voted for one server in that term.   *)
LEMMA OneElected ==
    ASSUME Inv, NEW b \in Books, Ballots(b, World),
           NEW s \in Server, NEW t \in Server, NEW T, T \in ElectedIn(s), T \in ElectedIn(t)
    PROVE  s = t
<1>1. ASSUME NEW x \in Server, T \in ElectedIn(x)
      PROVE  /\ IsFiniteSet(Voters(b, x, T)) /\ Cardinality(Voters(b, x, T)) \in Nat
             /\ 2 * Cardinality(Voters(b, x, T)) > Cardinality(Server)
  <2>1. PICK e \in node[x].won : e.term = T /\ 2 * e.votes > Cardinality(Server)
    BY <1>1 DEF ElectedIn
  <2>2. e.votes <= Cardinality(Voters(b, x, T))  BY <2>1, WorldIs DEF Ballots, Earned
  <2>3. e.votes \in Nat
    <3>1. node[x] \in NodeType(x, used.writes)  BY WorldIs DEF Inv, Good, Ok
    <3>2. node[x].won \subseteq [term : Terms, votes : Nat]  BY <3>1 DEF NodeType
    <3> QED  BY <3>2
  <2>4. Voters(b, x, T) \in SUBSET Server  BY DEF Voters
  <2>5. /\ IsFiniteSet(Voters(b, x, T)) /\ Cardinality(Voters(b, x, T)) \in Nat
        /\ Cardinality(Server) \in Nat
    BY <2>4, VotersFinite
  <2> QED  BY <2>1, <2>2, <2>3, <2>5
<1>2. PICK i, j, k : /\ i = Cardinality(Voters(b, s, T)) /\ j = Cardinality(Voters(b, t, T))
                     /\ k = Cardinality(Server)
  OBVIOUS
<1>3. i \in Nat /\ j \in Nat /\ k \in Nat /\ 2 * i > k /\ 2 * j > k
  BY <1>1, <1>2, VotersFinite
<1>4. i + j > k  BY <1>3
<1>5. Voters(b, s, T) \cap Voters(b, t, T) # {}
  <2>1. Voters(b, s, T) \subseteq Server /\ Voters(b, t, T) \subseteq Server  BY DEF Voters
  <2> QED  BY <2>1, <1>2, <1>4, Constants, FS_MajoritiesIntersect
<1> QED  BY <1>5 DEF Voters

LEMMA InvElection ==
    ASSUME Inv PROVE TwoLeadersNeedStrayedVotes
<1>1. CASE Strayed(World)  BY <1>1, WorldIs DEF Strayed, TwoLeadersNeedStrayedVotes
<1>2. CASE ~Strayed(World)
  <2>1. PICK b \in Books : Ballots(b, World)  BY <1>2 DEF Inv, Good
  <2>2. \A s, t \in Server : s # t => ElectedIn(s) \cap ElectedIn(t) = {}
    <3> SUFFICES ASSUME NEW s \in Server, NEW t \in Server, NEW T,
                        T \in ElectedIn(s), T \in ElectedIn(t)
                 PROVE  s = t
      OBVIOUS
    <3> QED  BY <2>1, OneElected
  <2>3. \A s \in Server : node[s].votes <= Cardinality(Server)
    BY <2>1, WorldIs DEF Ballots, Counts
  <2> QED  BY <2>2, <2>3 DEF TwoLeadersNeedStrayedVotes, ElectionSafety
<1> QED  BY <1>1, <1>2

-----------------------------------------------------------------------------
(* One writer.  Its log, which no command clears, is the one that all are copies of. *)

Copies == Copied(World, node[Master].log)
AllRun == \A s \in Server : Runs(node[s])

LEMMA CopySelf ==
    ASSUME NEW S, NEW L \in Seq(S) PROVE Copy(L, L)
<1>1. Len(L) \in Nat  OBVIOUS
<1> QED  BY <1>1 DEF Copy

LEMMA CopyWhole ==
    ASSUME NEW S, NEW L \in Seq(S), NEW q \in Seq(S), Copy(q, L), Len(L) <= Len(q)
    PROVE  q = L
<1>1. Len(L) \in Nat /\ Len(q) \in Nat  OBVIOUS
<1>2. Len(q) = Len(L) /\ \A i \in 1..Len(q) : q[i] = L[i]  BY <1>1 DEF Copy
<1> QED  BY <1>2, SeqEqual

LEMMA CopiesMeet ==
    ASSUME NEW S, NEW L \in Seq(S), NEW q \in Seq(S), NEW r \in Seq(S), Copy(q, L), Copy(r, L)
    PROVE  Comparable(q, r)
<1>1. ASSUME NEW x \in Seq(S), NEW y \in Seq(S), Copy(x, L), Copy(y, L), Len(x) <= Len(y)
      PROVE  IsPrefix(x, y)
  <2>1. Len(x) \in Nat /\ Len(y) \in Nat /\ Len(L) \in Nat  OBVIOUS
  <2>2. /\ SubSeq(y, 1, Len(x)) \in Seq(S) /\ Len(SubSeq(y, 1, Len(x))) = Len(x)
        /\ \A i \in 1..Len(x) : SubSeq(y, 1, Len(x))[i] = y[i]
    BY <1>1, <2>1
  <2>3. \A i \in 1..Len(x) : x[i] = SubSeq(y, 1, Len(x))[i]  BY <1>1, <2>1, <2>2 DEF Copy
  <2>4. x = SubSeq(y, 1, Len(x))  BY <2>2, <2>3, SeqEqual
  <2> QED  BY <1>1, <2>4 DEF IsPrefix
<1>2. Len(q) \in Nat /\ Len(r) \in Nat  OBVIOUS
<1>3. Len(q) <= Len(r) \/ Len(r) <= Len(q)  BY <1>2
<1> QED  BY <1>1, <1>3 DEF Comparable

(* The writer appends. *)
LEMMA CopyGrows ==
    ASSUME NEW L \in Seq(Entry), NEW e \in Entry
    PROVE  /\ Append(L, e) \in Seq(Entry)
           /\ \A q \in Seq(Entry) : Copy(q, L) => Copy(q, Append(L, e))
           /\ \A m : Excerpt(m, L) /\ (m.type = "append" => m.prev \in Nat /\ m.entries \in Seq(Entry))
                        => Excerpt(m, Append(L, e))
<1>1. PICK M : M = Append(L, e)  OBVIOUS
<1>2. /\ M \in Seq(Entry) /\ Len(L) \in Nat /\ Len(M) = Len(L) + 1
      /\ \A i \in 1..Len(L) : M[i] = L[i]
  BY <1>1
<1>3. ASSUME NEW q \in Seq(Entry), Copy(q, L) PROVE Copy(q, M)
  <2>1. Len(q) \in Nat  OBVIOUS
  <2> QED  BY <1>2, <1>3, <2>1 DEF Copy
<1>4. ASSUME NEW m, Excerpt(m, L), m.type = "append", m.prev \in Nat, m.entries \in Seq(Entry)
      PROVE  Excerpt(m, M)
  <2>1. ASSUME NEW k \in DOMAIN m.entries
        PROVE  m.prev + k <= Len(M) /\ m.entries[k] = M[m.prev + k]
    <3>1. k \in Nat /\ k >= 1  BY <1>4
    <3>2. PICK i : i = m.prev + k  OBVIOUS
    <3>3. i <= Len(L) /\ m.entries[k] = L[i]  BY <1>4, <3>2 DEF Excerpt
    <3>4. i \in 1..Len(L)  BY <1>2, <1>4, <3>1, <3>2, <3>3
    <3>5. i <= Len(M) /\ M[i] = L[i]  BY <1>2, <3>4
    <3> QED  BY <3>2, <3>3, <3>5
  <2> QED  BY <2>1 DEF Excerpt
<1>5. \A m : m.type # "append" => Excerpt(m, M)  BY DEF Excerpt
<1> QED  BY <1>1, <1>2, <1>3, <1>4, <1>5

LEMMA InitCopies ==
    ASSUME Init PROVE Copies
<1>1. First \in Seq(Entry) /\ node[Master].log = First  BY FirstIs, StartsAs, Constants
<1>2. Copy(First, First) /\ Copy(<<>>, First)
  <2>1. Copy(First, First)  BY <1>1, CopySelf
  <2>2. Len(First) \in Nat /\ Len(<<>>) = 0  BY <1>1, EmptySeq
  <2> QED  BY <2>1, <2>2 DEF Copy
<1>3. ASSUME NEW s PROVE Copy(Have(s), First)  BY <1>2 DEF Have
<1>4. ASSUME NEW s \in Server PROVE Copy(node[s].log, First)
  <2>1. node[s].log \in {First, Have(s), <<>>}  BY StartsAs
  <2> QED  BY <2>1, <1>2, <1>3
<1>5. ASSUME NEW s \in Server, NEW i \in DOMAIN conn[s].down
      PROVE  Excerpt(conn[s].down[i], First)
  <2>1. conn[s] = IF s \in Followers THEN Link(s) ELSE NoConn  BY InitIs
  <2>2. NoConn.down = <<>>  BY DEF NoConn
  <2>3. s \in Behind /\ conn[s].down = <<AppendEntries(Leading, s)>>
    <3>1. conn[s].down \in {<<>>, <<AppendEntries(Leading, s)>>}  BY <2>1, <2>2 DEF Link
    <3>2. conn[s].down # <<>>  OBVIOUS
    <3> QED  BY <2>1, <2>2, <3>1, <3>2 DEF Link
  <2>4. Excerpt(AppendEntries(Leading, s), First)
    <3>1. Len(First) \in Idx  BY FirstIs
    <3>2. Leading \in NodeType(Master, Len(First)) /\ Leading.log = First  BY LeadingIs
    <3> QED  BY <3>1, <3>2, <1>1, <1>2, AppendExcerpt
  <2> QED  BY <2>3, <2>4
<1> QED  BY <1>1, <1>4, <1>5, WorldIs DEF Copies, Copied

(* Only the writer makes its log longer, and nobody makes it shorter. *)
LEMMA NextCopies ==
    ASSUME Inv, TypeOK, TypeOK', [Next]_vars, Copies,
           Writers \subseteq {Master}, Master \notin Joiners
    PROVE  Copies'
<1>1. World'.node = node' /\ World'.conn = conn' /\ Master \in Server  BY Constants DEF World
<1>2. PICK L, M : L = node[Master].log /\ M = node'[Master].log  OBVIOUS
<1>3. L \in Seq(Entry) /\ M \in Seq(Entry)  BY <1>1, <1>2 DEF TypeOK
<1>4. Copied(World, L)  BY <1>2 DEF Copies
<1>5. CASE Echo(World, World')
  <2>1. Copied(World', L)  BY <1>3, <1>4, <1>5 DEF Echo
  <2>2. Copy(M, L)  BY <2>1, <1>1, <1>2 DEF Copied
  <2>3. Len(L) <= Len(M)  BY <1>1, <1>2, <1>5, WorldIs DEF Echo
  <2>4. M = L  BY <2>2, <2>3, <1>3, CopyWhole
  <2> QED  BY <2>1, <2>4, <1>2 DEF Copies
<1>6. ASSUME NEW s \in Server, SubmitAppend(s) PROVE Copies'
  <2>1. /\ s = Master /\ World'.conn = World.conn
        /\ \A x \in Server \ {s} : World'.node[x] = World.node[x]
        /\ \E e \in Entry : World'.node[s].log = Append(World.node[s].log, e)
    BY <1>6, InvIs, SubmitAppendFine
  <2>2. PICK e \in Entry : M = Append(L, e)  BY <2>1, <1>1, <1>2, WorldIs
  <2>3. ASSUME NEW x \in Server PROVE Copy(World'.node[x].log, M)
    <3>1. CASE x = s
      <4>1. World'.node[x].log = M  BY <3>1, <2>1, <1>1, <1>2
      <4> QED  BY <4>1, <1>3, CopySelf
    <3>2. CASE x # s
      <4>1. World'.node[x].log = World.node[x].log /\ Copy(World.node[x].log, L)
        BY <3>2, <2>1, <1>4 DEF Copied
      <4>2. World.node[x].log \in Seq(Entry)  BY WorldIs DEF TypeOK
      <4> QED  BY <4>1, <4>2, <2>2, <1>3, CopyGrows
    <3> QED  BY <3>1, <3>2
  <2>4. ASSUME NEW f \in Server, NEW i \in DOMAIN World'.conn[f].down
        PROVE  Excerpt(World'.conn[f].down[i], M)
    <3>1. PICK m : m = World.conn[f].down[i]  OBVIOUS
    <3>2. Excerpt(m, L) /\ i \in DOMAIN World.conn[f].down  BY <3>1, <2>1, <1>4 DEF Copied
    <3>3. m \in DownType(used.writes)
      <4>1. World.conn[f] \in ConnType(f, used.writes)  BY DEF Inv, Good, Ok
      <4>2. World.conn[f].down \in Seq(DownType(used.writes))  BY <4>1 DEF ConnType
      <4> QED  BY <4>2, <3>1, <3>2
    <3>4. m.type = "append" => m.prev \in Nat /\ m.entries \in Seq(Entry)
      <4>1. m.type = "append" => m \in AppendType(used.writes)  BY <3>3 DEF DownType
      <4> QED  BY <4>1, Constants DEF AppendType
    <3>5. Excerpt(m, M)  BY <3>2, <3>4, <2>2, <1>3, CopyGrows
    <3> QED  BY <3>1, <3>5, <2>1
  <2>5. Copied(World', M)  BY <2>3, <2>4 DEF Copied
  <2> QED  BY <2>5, <1>2 DEF Copies
<1>7. Echo(World, World') \/ \E s \in Server : SubmitAppend(s)  BY NextGood
<1> QED  BY <1>5, <1>6, <1>7

LEMMA InitRuns ==
    ASSUME Init, TypeOK, AppliedWithinLog PROVE AllRun
<1> SUFFICES ASSUME NEW s \in Server PROVE Runs(node[s])
  BY DEF AllRun
<1>1. PICK n : n = node[s]  OBVIOUS
<1>2. n.applied \in Nat /\ Len(n.log) \in Nat
  <2>1. n.applied \in Idx /\ n.log \in Seq(Entry)  BY <1>1 DEF TypeOK, Idx
  <2>2. n.applied \in Nat  BY <2>1, Constants
  <2>3. Len(n.log) \in Nat  BY <2>1
  <2> QED  BY <2>2, <2>3
<1>3. n.applied <= Len(n.log)  BY <1>1 DEF AppliedWithinLog
<1>4. Tidy(n)  BY <1>1, StartsAs
<1> QED  BY <1>1, <1>2, <1>3, <1>4 DEF Tidy, Over

LEMMA NextRuns ==
    ASSUME Inv, TypeOK, TypeOK', [Next]_vars, AllRun, AppliedWithinLog'
    PROVE  AllRun'
<1> SUFFICES ASSUME NEW s \in Server PROVE Runs(node'[s])
  BY DEF AllRun
<1>1. World'.node = node' /\ World.node = node  BY DEF World
<1>2. PICK n, m : n = node[s] /\ m = node'[s]  OBVIOUS
<1>3. /\ n.log \in Seq(Entry) /\ n.applied \in Nat /\ n.exec \in Seq(1..MaxWrites)
      /\ m.log \in Seq(Entry) /\ m.applied \in Nat
  <2>1. /\ n.log \in Seq(Entry) /\ n.applied \in Idx /\ n.exec \in Seq(1..MaxWrites)
        /\ m.log \in Seq(Entry) /\ m.applied \in Idx
    BY <1>2 DEF TypeOK, Idx
  <2> QED  BY <2>1, Constants
<1>4. Runs(n)  BY <1>2 DEF AllRun
<1>5. CASE Echo(World, World')
  <2>1. Tidy(m)  BY <1>1, <1>2, <1>4, <1>5 DEF Echo
  <2>2. m.applied <= Len(m.log)  BY <1>2 DEF AppliedWithinLog
  <2>3. Len(m.log) \in Nat  BY <1>3
  <2> QED  BY <2>1, <2>2, <2>3, <1>2, <1>3 DEF Tidy, Over
<1>6. ASSUME NEW x \in Server, SubmitAppend(x) PROVE Runs(m)
  <2>1. /\ \A y \in Server \ {x} : World'.node[y] = World.node[y]
        /\ \E e \in Entry : World'.node[x].log = Append(World.node[x].log, e)
        /\ World'.node[x].exec = World.node[x].exec
        /\ World'.node[x].applied = World.node[x].applied
    BY <1>6, InvIs, SubmitAppendFine
  <2>2. CASE s # x  BY <2>1, <2>2, <1>1, <1>2, <1>4
  <2>3. CASE s = x
    <3>1. PICK e \in Entry : m.log = Append(n.log, e)  BY <2>1, <2>3, <1>1, <1>2
    <3>2. m.exec = n.exec /\ m.applied = n.applied  BY <2>1, <2>3, <1>1, <1>2
    <3>3. /\ Len(n.log) \in Nat /\ Len(m.log) = Len(n.log) + 1 /\ Len(n.exec) \in Nat
          /\ \A i \in 1..Len(n.log) : m.log[i] = n.log[i]
      BY <3>1, <1>3
    <3> QED  BY <3>2, <3>3, <1>3, <1>4 DEF Runs
  <2> QED  BY <2>2, <2>3
<1>7. Echo(World, World') \/ \E x \in Server : SubmitAppend(x)  BY NextGood
<1> QED  BY <1>2, <1>5, <1>6, <1>7

LEMMA LogsMeet ==
    ASSUME TypeOK, Copies PROVE LogsAgree
<1> SUFFICES ASSUME NEW s \in Server, NEW t \in Server
             PROVE  Comparable(node[s].log, node[t].log)
  BY DEF LogsAgree
<1>1. Master \in Server  BY Constants
<1>2. \A x \in Server : node[x].log \in Seq(Entry)  BY DEF TypeOK
<1>3. \A x \in Server : Copy(node[x].log, node[Master].log)  BY WorldIs DEF Copies, Copied
<1> QED  BY <1>1, <1>2, <1>3, CopiesMeet

LEMMA ReplicasMeet ==
    ASSUME TypeOK, Copies, AllRun PROVE ReplicasAgree
<1> DEFINE L == node[Master].log
           X == [i \in 1..Len(L) |-> L[i].id]
<1>1. L \in Seq(Entry)  BY Constants DEF TypeOK
<1>2. X \in Seq(1..MaxWrites) /\ Len(X) = Len(L) /\ \A i \in 1..Len(L) : X[i] = L[i].id
  <2>1. Len(L) \in Nat /\ \A i \in 1..Len(L) : L[i] \in Entry  BY <1>1
  <2>2. \A i \in 1..Len(L) : L[i].id \in 1..MaxWrites  BY <2>1 DEF Entry
  <2>3. X \in [1..Len(L) -> 1..MaxWrites]  BY <2>2
  <2>4. X \in Seq(1..MaxWrites)  BY <2>1, <2>3, SeqDef
  <2>5. DOMAIN X = 1..Len(L)  OBVIOUS
  <2> HIDE DEF X
  <2>6. Len(X) = Len(L)  BY <2>1, <2>4, <2>5, LenProperties
  <2> QED  BY <2>4, <2>6 DEF X
<1> HIDE DEF X
<1>3. ASSUME NEW s \in Server
      PROVE  node[s].exec \in Seq(1..MaxWrites) /\ Copy(node[s].exec, X)
  <2>1. PICK n, M : n = node[s] /\ M = L  OBVIOUS
  <2>2. n.exec \in Seq(1..MaxWrites) /\ n.log \in Seq(Entry)  BY <2>1 DEF TypeOK
  <2>3. Runs(n) /\ Copy(n.log, M)  BY <2>1, WorldIs DEF AllRun, Copies, Copied
  <2>4. Len(n.exec) \in Nat /\ Len(n.log) \in Nat /\ Len(M) \in Nat  BY <2>1, <2>2, <1>1
  <2>5. Len(n.exec) <= Len(n.log) /\ Len(n.log) <= Len(M)  BY <2>3 DEF Runs, Copy
  <2>6. Len(n.exec) <= Len(X)  BY <2>1, <2>4, <2>5, <1>2
  <2>7. ASSUME NEW i \in 1..Len(n.exec) PROVE n.exec[i] = X[i]
    <3>1. i \in 1..Len(n.log) /\ i \in 1..Len(M)  BY <2>4, <2>5
    <3>2. n.exec[i] = n.log[i].id  BY <2>3 DEF Runs
    <3>3. n.log[i] = M[i]  BY <3>1, <2>3 DEF Copy
    <3> QED  BY <3>1, <3>2, <3>3, <2>1, <1>2
  <2>8. Copy(n.exec, X)  BY <2>6, <2>7 DEF Copy
  <2> QED  BY <2>1, <2>2, <2>8
<1>4. \A s, t \in Server : Comparable(node[s].exec, node[t].exec)  BY <1>2, <1>3, CopiesMeet
<1> QED  BY <1>4, LogsMeet DEF ReplicasAgree, LogsAgree

-----------------------------------------------------------------------------
(* Theorems *)

(* The invariant holds whatever the servers, the votes and the faults. *)
THEOREM InvAlways == Spec => []Inv
<1>1. Init => Inv  BY InitGood
<1>2. Inv /\ [Next]_vars => Inv'  BY NextGood
<1> QED  BY <1>1, <1>2, PTL DEF Spec

(* The fields of RaftNode keep the values that raft.h gives them, through every     *)
(* handler, election, join, command, lost connection, crash and restart.            *)
THEOREM TypeCorrect == Spec => []TypeOK
<1>1. Inv => TypeOK  BY InvTypes
<1> QED  BY <1>1, InvAlways, PTL

(* The match_index_ that handle_append_entries_response sets from an answer is not  *)
(* more than the connected follower has in its log, also when the follower left,    *)
(* had its log cleared by handle_join_cluster_response and came back.               *)
THEOREM MatchIndexHeldAlways == Spec => []MatchIndexHeld
<1>1. Inv => MatchIndexHeld  BY InvHeld
<1> QED  BY <1>1, InvAlways, PTL

(* handle_request_vote and voted_for_ let no two servers be elected in one term by   *)
(* more than half of all servers, and count no vote twice, as long as no votes have  *)
(* strayed: no join, SET_MASTER or stale announcement (handle_new_master) has taken  *)
(* a term back or cleared a vote, and no candidate has asked for votes in another    *)
(* term than the one in which it voted for itself.                                   *)
THEOREM TwoLeadersNeedStrayedVotesAlways == Spec => []TwoLeadersNeedStrayedVotes
<1>1. Inv => TwoLeadersNeedStrayedVotes  BY InvElection
<1> QED  BY <1>1, InvAlways, PTL

(* If clients write to one leader that SET_MASTER is not sent to, the logs of any two *)
(* servers agree on the indexes both have, because handle_append_entries stores what  *)
(* was taken from that leader's log at the indexes it was taken from.                 *)
THEOREM LogsAgreeAlways ==
    ASSUME Writers \subseteq {Master}, Master \notin Joiners
    PROVE  Spec => []LogsAgree
<1>1. Init => Copies  BY InitCopies
<1>2. Inv /\ TypeOK /\ TypeOK' /\ Copies /\ [Next]_vars => Copies'  BY NextCopies
<1>3. TypeOK /\ Copies => LogsAgree  BY LogsMeet
<1> QED  BY <1>1, <1>2, <1>3, InvAlways, TypeCorrect, PTL DEF Spec

(* Then the servers also execute the same writes in the same order, each of them once, *)
(* whatever joins do to the commit index: as long as apply_committed_entries does not  *)
(* run past the end of a log, which get_term does not prevent (see README).            *)
THEOREM ReplicasAgreeAlways ==
    ASSUME Writers \subseteq {Master}, Master \notin Joiners
    PROVE  Spec /\ []AppliedWithinLog => []ReplicasAgree
<1>1. Init => Copies  BY InitCopies
<1>2. Inv /\ TypeOK /\ TypeOK' /\ Copies /\ [Next]_vars => Copies'  BY NextCopies
<1>3. Init /\ TypeOK /\ AppliedWithinLog => AllRun  BY InitRuns
<1>4. Inv /\ TypeOK /\ TypeOK' /\ AllRun /\ AppliedWithinLog' /\ [Next]_vars => AllRun'
  BY NextRuns
<1>5. TypeOK /\ Copies /\ AllRun => ReplicasAgree  BY ReplicasMeet
<1> QED  BY <1>1, <1>2, <1>3, <1>4, <1>5, InvAlways, TypeCorrect, PTL DEF Spec

=============================================================================
