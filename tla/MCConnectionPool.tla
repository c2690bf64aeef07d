-------------------------- MODULE MCConnectionPool --------------------------
(***************************************************************************)
(* ConnectionPool on a small instance, without symmetry: the run checks    *)
(* liveness too.                                                           *)
(***************************************************************************)
EXTENDS ConnectionPool
=============================================================================
