------------------------------ MODULE MCJsonRpc ------------------------------
(* Small instances of JsonRpc for TLC.                                     *)
EXTENDS JsonRpc

CONSTANTS c1, c2

TwoCalls   == {c1, c2}
=============================================================================
