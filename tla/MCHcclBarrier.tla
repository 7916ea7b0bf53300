--------------------------- MODULE MCHcclBarrier ---------------------------
(***************************************************************************)
(* HcclBarrier on lines of 3 and 5 ranks, one of them out of order, and on *)
(* three servers of two ranks and of one.                                  *)
(***************************************************************************)
EXTENDS HcclBarrier

Line(ranks)   == [dpu |-> FALSE, servers |-> << ranks >>]
Servers(rows) == [dpu |-> TRUE, servers |-> rows]

MCLayouts == <<
  Line(<<0, 1, 2>>),
  Line(<<3, 0, 4, 1, 2>>),
  Servers(<< <<0, 1>>, <<2, 3>>, <<4, 5>> >>),
  Servers(<< <<4>>, <<2>>, <<3>> >>)
>>
=============================================================================
