----------------------------- MODULE MCStorage -----------------------------
(***************************************************************************)
(* The storage engine for TLC: what clients use each key for.              *)
(***************************************************************************)
EXTENDS Storage

Strings == {Keys \X {"set"}}
DeletedStrings == {Keys \X {"set", "remove"}}
Collections == {{1} \X ListOps \cup {2} \X SetOps, {1} \X HashOps \cup {2} \X ZSetOps}
Everything == DeletedStrings \cup Collections

\* Readers are followed where their properties speak of them: on strings.
ReadersOfStrings == rd.pc = "idle" \/ uses \in DeletedStrings

\* Four operations with one crash, three with two.
Effort == nops + crashes <= MaxOps + 1
=============================================================================
