---------------------------- MODULE MCManifestRepair ----------------------------
(***************************************************************************)
(* Small instances of ManifestRepair.                                      *)
(***************************************************************************)
EXTENDS ManifestRepair

Server(port) == [port |-> port, public |-> FALSE]
Worker == [port |-> 0, public |-> FALSE]
Web(port) == [port |-> port, public |-> TRUE]

mcComponents == {1, 2}
mcPorts == {1, 2}
\* A server and a web application; the same with the server's port closed.
mcProfiles == {<<Server(1), Web(2)>>, <<Worker, Server(2)>>}
==============================================================================
