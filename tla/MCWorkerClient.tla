--------------------------- MODULE MCWorkerClient ---------------------------
(***************************************************************************)
(* Small instances of WorkerClient for TLC.                                *)
(***************************************************************************)
EXTENDS WorkerClient, TLC

CONSTANTS a, b

One == {a}
Two == {a, b}

Queries == {"query"}
Exports == {"messages.export"}
Both == {"query", "messages.export"}

Swaps == Permutations(Two)
=============================================================================
