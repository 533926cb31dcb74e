------------------------------ MODULE MCProxy ------------------------------
(* Small instances of Proxy for TLC. *)
EXTENDS Proxy

CONSTANTS c1, c2, c3

BothPumps  == {"bufferpump", "splicepump"}
BufferOnly == {"bufferpump"}
SpliceOnly == {"splicepump"}

ThreeClients == {c1, c2, c3}
=============================================================================
