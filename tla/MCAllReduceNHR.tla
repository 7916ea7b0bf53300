-------------------------- MODULE MCAllReduceNHR --------------------------
(***************************************************************************)
(* AllReduceNHR for every mode of the template.                            *)
(***************************************************************************)
EXTENDS AllReduceNHR

Call(counts, dmaRead, symmetric, inPlace) ==
  [counts |-> counts, dmaRead |-> dmaRead, symmetric |-> symmetric, inPlace |-> inPlace]

(* One round in every mode, and two rounds that share the scratch buffer,  *)
(* the second one shorter: it has data in the last slice only.             *)
OneRound ==
  {Call(<<N * Channels>>, d, s, p) : d, s, p \in BOOLEAN}

TwoRounds ==
  {Call(<<N * Channels, 1>>, d, FALSE, p) : d, p \in BOOLEAN}

AllModes == OneRound \cup TwoRounds

(* A selection for larger rings. *)
SomeModes ==
  {Call(<<N * Channels>>, d, s, FALSE) : d, s \in BOOLEAN}
  \cup {Call(<<N * Channels>>, FALSE, TRUE, TRUE), Call(<<N * Channels, 1>>, FALSE, FALSE, TRUE)}

(* The schedule is one that ChannelHandshake is about. *)
ASSUME HandshakeScheduled == \A o \in Options : Handshake(o, 1)!ScheduleAssumption
=============================================================================
