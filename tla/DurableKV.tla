------------------------------ MODULE DurableKV ------------------------------
(***************************************************************************)
(* What the storage engine promises: a map of keys to contents, changed by *)
(* one operation after the other, each of them exactly once.               *)
(*                                                                         *)
(* Seen by its readers (Spec) the map takes an operation some time after   *)
(* it was asked for.  Seen by a restart (DurableSpec) the operation takes  *)
(* effect when it is logged, and a crash changes nothing.                  *)
(***************************************************************************)
EXTENDS Processors

CONSTANT Operations      \* records [op, key, arg]

VARIABLES
    map,                 \* the contents of every key
    pending              \* the operation in progress

NoOperation == [op |-> "none", key |-> 0, arg |-> <<>>]

\* The map when nothing is promised of it.
Unknown == <<>>

After(m, o) == [m EXCEPT ![o.key] = Do(o.op, @, o.arg)]

Init == map \in {[k \in Keys |-> Missing], Unknown} /\ pending = NoOperation

Ask == pending = NoOperation /\ pending' \in Operations /\ UNCHANGED map

Take == pending # NoOperation /\ map' = After(map, pending) /\ pending' = NoOperation

Log == pending = NoOperation /\ pending' \in Operations /\ map' = After(map, pending')

\* The end of the operation, or its end by a crash.
Finish == pending' = NoOperation /\ UNCHANGED map

\* Nothing is promised from here, or up to here.
NoPromise == map = Unknown \/ map' = Unknown

Spec == Init /\ [][Ask \/ Take]_<<map, pending>>
DurableSpec == Init /\ [][NoPromise \/ Log \/ Finish]_<<map, pending>>

=============================================================================
