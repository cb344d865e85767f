------------------------------ MODULE MCMemoMesh ------------------------------
(* Small instances of MemoMesh for TLC: one agent is declared in an inner  *)
(* scope and has a default, the others are global.                         *)
EXTENDS MemoMesh

CONSTANTS g, l, inner

Scopes == [a \in Agent |-> IF a = inner THEN {g, l} ELSE {g}]
=============================================================================
