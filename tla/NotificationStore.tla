------------------------- MODULE NotificationStore -------------------------
(* What the pipeline promises of the notifications table, seen by readers:  *)
(* an event is there for everybody it is addressed to or for nobody, it     *)
(* stays, and only a restart (the database is in memory) takes it away.     *)
CONSTANTS
    Events,
    Users,
    Audience       \* [Events -> SUBSET Users]

VARIABLE inbox      \* the <<event, user>> pairs that are stored

Init == inbox = {}

Store(e) == inbox' = inbox \cup ({e} \X Audience[e])

Wipe == inbox' = {}

Next == (\E e \in Events : Store(e)) \/ Wipe

Spec == Init /\ [][Next]_inbox

=============================================================================
