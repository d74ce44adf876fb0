---------------------------- MODULE MCSseClient ----------------------------
(* The instance of SseClient for TLC.                                       *)
EXTENDS SseClient

CONSTANTS alice, bob, s1, s2

=============================================================================
