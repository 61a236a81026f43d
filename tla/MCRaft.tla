------------------------------ MODULE MCRaft ------------------------------
(* Raft on clusters of three servers, named so that a .cfg can say who leads, *)
(* who is a member at the start and who joins later.                          *)
EXTENDS Raft
CONSTANTS a, b, c

\* Once a server's term went back or its vote was forgotten, the properties of
\* elections say nothing: states after that are not explored further.
UntilStrayed == \A s \in Server : ~node[s].strayed

\* Once a connection has broken, states in which more than one thread waits for a
\* mutex_ are not explored further.
Waiting == {m \in msgs : m.type \in {"due", "asking", "heard", "join"}}
FewThreads == used.drops > 0 => Cardinality(Waiting) <= 1
=============================================================================
