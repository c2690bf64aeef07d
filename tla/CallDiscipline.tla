--------------------------- MODULE CallDiscipline ---------------------------
(***************************************************************************)
(* How the calls of an AsyncClient are to use the pool: the pool with      *)
(* callers that recycle no client that is lent to somebody else.           *)
(***************************************************************************)
EXTENDS AsyncClient

\* The calls keep the discipline under which the pool is correct: whatever is
\* cancelled when, no call recycles a client that is lent to somebody else.
Disciplined == INSTANCE ConnectionPool WITH StaleReleases <- FALSE
KeepsDiscipline == Disciplined!Spec
=============================================================================
