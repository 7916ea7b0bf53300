-------------------------- MODULE MCCommWorkerMgr --------------------------
(* CommWorkerMgr with two communicators, two callers and one callback      *)
(* thread.                                                                 *)
EXTENDS CommWorkerMgr

CONSTANTS c1, c2, t1, t2, k1, x

=============================================================================
