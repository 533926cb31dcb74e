---------------------------- MODULE MCSplicePump ----------------------------
(* Small instances of SplicePump for TLC. *)
EXTENDS SplicePump

NoLeftover == {0}
=============================================================================
