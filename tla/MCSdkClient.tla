---------------------------- MODULE MCSdkClient -----------------------------
(* A small instance of SdkClient for TLC.                                   *)
EXTENDS SdkClient, TLC

CONSTANTS u1, q1, q2, c1, c2, c3
=============================================================================
