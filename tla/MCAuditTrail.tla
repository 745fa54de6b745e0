---------------------------- MODULE MCAuditTrail ----------------------------
(* A small instance of AuditTrail for TLC.                                 *)
EXTENDS AuditTrail

CONSTANTS r1, r2

OneRequest  == {r1}
TwoRequests == {r1, r2}
=============================================================================
