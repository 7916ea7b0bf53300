--------------------------- MODULE MCOrderLaunch ---------------------------
(* OrderLaunch on two devices with two communicators.                      *)
EXTENDS OrderLaunch

CONSTANTS d1, d2, a, b

Op(c, m) == [comm |-> c, mode |-> m]

Instance(ops, n, g, mishap) ==
  [program |-> ops, cores |-> n, grant |-> g, mishaps |-> mishap]

(* One core: the two communicators in turn; two operations with one        *)
(* mishap; the two communicators captured in a graph, and a captured       *)
(* operation with a mishap; one single operation and one from a GE graph,  *)
(* whose streams are others; a device order thread that cannot be had.     *)
(* And cores enough to need none.                                          *)
InstancesChosen ==
  {Instance(<<Op(a, "opbase"), Op(b, "opbase"), Op(a, "opbase")>>, 1, "both", 0)}
  \cup {Instance(<<Op(a, "opbase"), Op(c, "opbase")>>, 1, "both", 1) : c \in Comms}
  \cup {Instance(<<Op(a, "aclgraph"), Op(b, "aclgraph")>>, 1, "both", 0),
        Instance(<<Op(a, "aclgraph")>>, 1, "both", 1),
        Instance(<<Op(a, "opbase"), Op(a, "ge")>>, 1, "both", 0),
        Instance(<<Op(a, "aclgraph"), Op(b, "aclgraph")>>, 1, "host", 0),
        Instance(<<Op(a, "opbase"), Op(b, "opbase")>>, 3, "none", 0)}
=============================================================================
