----------------------- MODULE MCNotificationPipeline -----------------------
(* Instances of NotificationPipeline for TLC.                               *)
EXTENDS NotificationPipeline, TLC

CONSTANTS alice, bob, long, alert, late, poison, nameless, garbled, behind,
          k1, k2, r1, r2, r3, Security, Promo

MCEveryone == <<alice, bob>>

\* alert: critical, for Alice, a blank id, Bob, and Alice again.
\* poison: for Alice and a user id of more than 255 characters.
\* late: a broadcast, of the type of poison; in one run its content is too long.
\* nameless: without an event id; garbled cannot be read, behind is behind it.
MCTargets == [e \in Events |->
    CASE e = alert -> <<alice, Blank, bob, alice>>
      [] e = poison -> <<alice, long>>
      [] e = late -> <<All>>
      [] OTHER -> <<bob>>]

MCTypeOf == [e \in Events |-> IF e = alert THEN Security ELSE Promo]

\* Bob wants no mail.
MCWantsMail == {<<alice, Security>>}

\* Which records share a partition, in which order.
MCAhead ==
    LET InTopics == StandardTopic \cup CriticalTopic IN
    [e \in InTopics |-> InTopics \cap
        (CASE e = poison -> {alert} [] e = nameless -> {late}
           [] e = behind -> {garbled} [] OTHER -> {})]

\* r1 repeats what is also on Kafka, r2 sends poison, r3 what has no id.
MCBody == [r \in Requests |->
    CASE r = r1 -> alert [] r = r2 -> poison [] OTHER -> nameless]

=============================================================================
