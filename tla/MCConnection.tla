---------------------------- MODULE MCConnection ----------------------------
(* A small instance of Connection for TLC. *)
EXTENDS Connection

NoLeftover  == {0}
Conforming  == {"noauth"}
Ipv4Replies == {"ipv4", "refused"}
=============================================================================
