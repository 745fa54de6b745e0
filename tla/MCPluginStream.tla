--------------------------- MODULE MCPluginStream ---------------------------
(* A small instance of PluginStream for TLC.                               *)
EXTENDS PluginStream

CONSTANT s1

OneStream == {s1}
TwoLines  == [s \in Stream |-> 2]
=============================================================================
