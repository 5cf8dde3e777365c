------------------------------ MODULE Broadcast ------------------------------
(***************************************************************************)
(* What announcing article events to followers promises, with no queue, no *)
(* pages and no consumers: an announcement is open until everybody it is   *)
(* owed to has been told, and it may only close early if it is flawed.     *)
(* Delivery implements it.                                                 *)
(***************************************************************************)
CONSTANTS Users, Inboxes, Events

VARIABLES
    follows,    \* <<user, inbox>>: the inbox follows the user
    announced,  \* events announced so far
    open,       \* events still being delivered
    reach,      \* event -> who may be told: followed at some time since
    owed,       \* event -> who must be told
    told,       \* event -> who was told, or is known to be out of reach
    flawed      \* events a failure of the platform interfered with

vars == <<follows, announced, open, reach, owed, told, flawed>>

Pairs == Users \X Inboxes

Init ==
    /\ follows \in SUBSET Pairs
    /\ announced = {} /\ open = {} /\ flawed = {}
    /\ reach = [e \in Events |-> {}]
    /\ owed = [e \in Events |-> {}]
    /\ told = [e \in Events |-> {}]

Follow(p) ==
    /\ follows' = follows \cup {p}
    /\ reach' = [e \in Events |-> IF e \in announced THEN reach[e] \cup {p} ELSE reach[e]]
    /\ UNCHANGED <<announced, open, owed, told, flawed>>

\* Those who stop following are no longer owed anything.
Unfollow(P) ==
    /\ follows' = follows \ P
    /\ owed' = [e \in Events |-> owed[e] \ P]
    /\ UNCHANGED <<announced, open, reach, told, flawed>>

Announce(e) ==
    /\ e \notin announced
    /\ announced' = announced \cup {e}
    /\ open' = open \cup {e}
    /\ reach' = [reach EXCEPT ![e] = follows]
    /\ UNCHANGED <<follows, owed, told, flawed>>

\* The author u is known: whoever follows u now is owed the event.
Owe(e, u) ==
    /\ e \in open
    /\ owed' = [owed EXCEPT ![e] = @ \cup {p \in follows : p[1] = u}]
    /\ UNCHANGED <<follows, announced, open, reach, told, flawed>>

Tell(e, p) ==
    /\ e \in open
    /\ p \in reach[e]
    /\ told' = [told EXCEPT ![e] = @ \cup {p}]
    /\ UNCHANGED <<follows, announced, open, reach, owed, flawed>>

Close(e) ==
    /\ e \in open
    /\ e \in flawed \/ owed[e] \subseteq told[e]
    /\ open' = open \ {e}
    /\ UNCHANGED <<follows, announced, reach, owed, told, flawed>>

\* A failure interferes with the events E, and ends some of them, C, at once.
Fail(E, C) ==
    /\ C \subseteq E /\ E \subseteq open
    /\ flawed' = flawed \cup E
    /\ open' = open \ C
    /\ UNCHANGED <<follows, announced, reach, owed, told>>

Next ==
    \/ \E p \in Pairs : Follow(p)
    \/ \E P \in SUBSET follows : Unfollow(P)
    \/ \E e \in Events : Announce(e) \/ Close(e)
    \/ \E e \in Events, u \in Users : Owe(e, u)
    \/ \E e \in Events, p \in Pairs : Tell(e, p)
    \/ \E E \in SUBSET open : \E C \in SUBSET E : Fail(E, C)

Spec == Init /\ [][Next]_vars
==============================================================================
