----------------------------- MODULE MCListApi -----------------------------
(* Two lists and three entries: enough for a list to be empty, to have one *)
(* entry, and to have a middle while another list is in use.               *)
EXTENDS ListApi

CONSTANTS h1, h2, e1, e2, e3

TwoHeads     == {h1, h2}
ThreeEntries == {e1, e2, e3}
=============================================================================
