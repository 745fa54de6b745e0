-------------------------- MODULE MCInstanceStreams --------------------------
(* Small instances of InstanceStreams for TLC.                             *)
EXTENDS InstanceStreams

CONSTANTS s1, s2

OneStream  == {s1}
TwoStreams == {s1, s2}
TwoEach    == [s \in Stream |-> 2]
TwoAndOne  == [s \in Stream |-> IF s = s1 THEN 2 ELSE 1]
NoFaults   == {}
CrashOnly  == {"crash"}
AllFaults  == {"crash", "stop"}
=============================================================================
