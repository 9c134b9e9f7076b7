---------------------------- MODULE MCReplication ----------------------------
(* Instance: two clients of a server.                                       *)
EXTENDS Replication
CONSTANTS c1, c2
TwoClients == {c1, c2}
=============================================================================
