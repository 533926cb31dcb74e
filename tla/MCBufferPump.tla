---------------------------- MODULE MCBufferPump ----------------------------
(* Small instances of BufferPump for TLC. *)
EXTENDS BufferPump

NoLeftover   == {0}
SomeLeftover == {0, 1}
=============================================================================
