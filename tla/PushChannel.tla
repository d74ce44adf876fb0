---------------------------- MODULE PushChannel ----------------------------
(* What the push half of the backend promises whoever calls sendToUser, with *)
(* no sink, map, heartbeat or reconnect in it: a notification that is taken  *)
(* waits on one stream of its user at most, and is then shown or lost.  It   *)
(* does not wait twice, does not come back, and what was shown stays shown.  *)
CONSTANTS
    Notifications,
    Streams,
    Audience            \* [Notifications -> SUBSET Streams]: its user's streams

VARIABLES
    taken,              \* notifications that a stream has taken
    waiting,            \* of each stream: taken, not yet shown
    shown               \* of each stream: what its browser got

vars == <<taken, waiting, shown>>

Init ==
    /\ taken = {}
    /\ waiting = [c \in Streams |-> {}]
    /\ shown = [c \in Streams |-> {}]

\* A stream keeps some of what waits on it; all of it, unless it is only starting
\* or has ended.
Keep(c, S) == \E K \in SUBSET S : waiting' = [waiting EXCEPT ![c] = K]

Take(n, c) ==
    /\ n \notin taken
    /\ c \in Audience[n]
    /\ taken' = taken \cup {n}
    /\ Keep(c, waiting[c] \cup {n})
    /\ UNCHANGED shown

Lose(c) == Keep(c, waiting[c]) /\ UNCHANGED <<taken, shown>>

Show(n, c) ==
    /\ n \in waiting[c]
    /\ waiting' = [waiting EXCEPT ![c] = @ \ {n}]
    /\ shown' = [shown EXCEPT ![c] = @ \cup {n}]
    /\ UNCHANGED taken

Next == \E c \in Streams :
    Lose(c) \/ \E n \in Notifications : Take(n, c) \/ Show(n, c)

Spec == Init /\ [][Next]_vars

=============================================================================
