--------------------------- MODULE MCCommWorker ---------------------------
(***************************************************************************)
(* CommWorker with a few submitters.  The task results are two, so that a  *)
(* result that belongs to another task can be told apart.                  *)
(***************************************************************************)
EXTENDS CommWorker
=============================================================================
