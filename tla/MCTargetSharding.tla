-------------------------- MODULE MCTargetSharding --------------------------
(* Addresses of three bits; nets of eight, four, two addresses and one;    *)
(* sockets inside a net, on an edge, excluded, in and out of the port set. *)
EXTENDS TargetSharding

Net(v6, base, len) == [v6 |-> v6, base |-> base, len |-> len]
Socket(v6, n, port) == [ip |-> <<v6, n>>, port |-> port]

MCLines ==
  {Net(FALSE, 0, 0), Net(FALSE, 4, 1), Net(FALSE, 4, 2), Net(FALSE, 5, 3), Net(TRUE, 0, 1),
   Socket(FALSE, 5, 4), Socket(FALSE, 7, 6)}
MCExclusions ==
  {Net(FALSE, 4, 1), Net(FALSE, 0, 2), Net(FALSE, 7, 3), Net(FALSE, 5, 3), Net(TRUE, 2, 2)}
MCPortSets == {{3}, {1, 2, 4}, {2, 3, 4, 6}}
=============================================================================
