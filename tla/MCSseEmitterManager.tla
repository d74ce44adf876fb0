------------------------ MODULE MCSseEmitterManager ------------------------
(* Instances of SseEmitterManager for TLC.  A configuration chooses Conns   *)
(* and Notifications; whose they are is the same in all of them.            *)
EXTENDS SseEmitterManager, TLC

CONSTANTS alice, bob, c1, c2, c3, n1, n2

\* Alice opens the streams c1 and c2 (two tabs, or one that reconnects), Bob c3.
MCUser == [c \in Conns |-> IF c = c3 THEN bob ELSE alice]

\* n1 is for Alice and n2 for Bob.
MCTarget == [n \in Notifications |-> IF n = n2 THEN bob ELSE alice]

\* Alice's two connections are alike, in what they do and in every property.
TabSymmetry == Permutations({c1, c2})

=============================================================================
