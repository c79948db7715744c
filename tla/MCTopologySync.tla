--------------------------- MODULE MCTopologySync ---------------------------
(* TopologySync with two topologies, one of them with a local image. *)
EXTENDS TopologySync

CONSTANTS plain, local

MCTopologies == {plain, local}
MCWithLocalImages == {local}
=============================================================================
