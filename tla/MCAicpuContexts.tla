--------------------------- MODULE MCAicpuContexts ---------------------------
(* AicpuContexts with one algorithm of each kind.                          *)
EXTENDS AicpuContexts
=============================================================================
