------------------------------- MODULE MCSweep ------------------------------
(***************************************************************************)
(* Two values of L, below and above one wave, neither a multiple of the    *)
(* namespaces; topologies with too few senders and with enough.            *)
(***************************************************************************)
EXTENDS Topology

MCLs == <<2, 7>>
=============================================================================
