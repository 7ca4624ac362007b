--------------------------- MODULE MCCheckRouting ---------------------------
(***************************************************************************)
(* CheckRouting for one check and two regions: its own comes first or      *)
(* second in the proxy's order.  MCRequests race a change and two deletes; *)
(* FairRequests, a delete and a read.                                      *)
(***************************************************************************)
EXTENDS CheckRouting

CONSTANTS g1, g2

Ask(nr, op) == [nr |-> nr, op |-> op, check |-> "c", region |-> g1]

\* The requests of the two runs; the number tells the two deletes apart.
MCRequests == {Ask(1, "create"), Ask(2, "update"), Ask(3, "delete"), Ask(4, "delete")}
FairRequests == {Ask(1, "create"), Ask(2, "delete"), Ask(3, "get")}
=============================================================================
