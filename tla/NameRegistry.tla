---------------------------- MODULE NameRegistry ----------------------------
(* What registration promises the people who want a name, with no form,      *)
(* request or statement in it: a name goes to one of them and stays theirs,  *)
(* and whoever is told that it is theirs can use it from then on; all of it  *)
(* until the registry is wiped, with every name and every promise at once.   *)
CONSTANTS
    People,
    Names,
    Wants,              \* [People -> Names]
    Nobody,
    Given               \* [Names -> People \cup {Nobody, ...}]: owners at the start

VARIABLES
    owner,              \* whose a name is, or Nobody
    usable,             \* the names that can be signed in with
    told                \* the people who were told that the name is theirs

vars == <<owner, usable, told>>

GivenNames == {n \in Names : Given[n] # Nobody}

Init ==
    /\ owner = Given
    /\ usable = GivenNames
    /\ told = {}

Take(p) ==
    /\ owner[Wants[p]] = Nobody
    /\ owner' = [owner EXCEPT ![Wants[p]] = p]
    /\ UNCHANGED <<usable, told>>

\* Only for its owner: whoever lost the race opens nothing.
MakeUsable(p) ==
    /\ owner[Wants[p]] = p
    /\ usable' = usable \cup {Wants[p]}
    /\ UNCHANGED <<owner, told>>

Tell(p) ==
    /\ owner[Wants[p]] = p /\ Wants[p] \in usable
    /\ told' = told \cup {p}
    /\ UNCHANGED <<owner, usable>>

Wipe ==
    /\ owner' = Given
    /\ usable' = GivenNames
    /\ told' = {}

Next == Wipe \/ \E p \in People : Take(p) \/ MakeUsable(p) \/ Tell(p)

Spec == Init /\ [][Next]_vars

=============================================================================
