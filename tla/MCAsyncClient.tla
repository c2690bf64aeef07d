--------------------------- MODULE MCAsyncClient ----------------------------
(***************************************************************************)
(* AsyncClient on small instances: calls, slots and clients are            *)
(* interchangeable.                                                        *)
(***************************************************************************)
EXTENDS CallDiscipline

Symmetry == Permutations(Threads) \cup Permutations(Slots) \cup Permutations(Clients)
=============================================================================
