-------------------------- MODULE MCDeviceSessions --------------------------
(* Two handlers at work on one device. *)
EXTENDS DeviceSessions, TLC

CONSTANTS r1, r2

Interchangeable == Permutations(Requests)
=============================================================================
