---------------------------- MODULE MCChatRequest ----------------------------
(* A small instance of ChatRequest for TLC.                                *)
EXTENDS ChatRequest

CONSTANTS r1, r2

TwoRequests == {r1, r2}
FirstOnly   == {r1}
OneAndTwo   == [r \in Request |-> IF r = r1 THEN 1 ELSE 2]
TwoEach     == [r \in Request |-> 2]
=============================================================================
