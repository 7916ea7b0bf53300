----------------------- MODULE MCChannelHandshake -----------------------
(***************************************************************************)
(* A schedule in which every kind of wrapper call follows every other:     *)
(* the four NHR AllReduce steps of N ranks (the last one a read, as        *)
(* InsTempAllReduceNHR does), then a one-sided write and a one-sided read  *)
(* between ranks 0 and 1 and a second exchange with the first peer.        *)
(***************************************************************************)
EXTENDS ChannelHandshake

CONSTANT N

MCRanks == 0..(N - 1)

(* distance to the receiver; one-sided steps name the sender *)
Ring(d) == [r \in MCRanks |-> (r + d) % N]
OneSided(s, d) == [r \in MCRanks |-> IF r = s THEN d ELSE NoPeer]

MCMode == <<"write", "write", "write", "read", "write", "read", "write">>
MCSteps == 7

MCTx == <<Ring(N - 1), Ring(N - 2), Ring(2), Ring(1),
          OneSided(0, 1), OneSided(0, 1), Ring(N - 1)>>
MCRx == <<Ring(1), Ring(2), Ring(N - 2), Ring(N - 1),
          OneSided(1, 0), OneSided(1, 0), Ring(1)>>
=============================================================================
