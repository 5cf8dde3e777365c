---------------------------- MODULE FollowerTable ----------------------------
(***************************************************************************)
(* What the rest of the system assumes of the followers table: a row is    *)
(* added with an inbox its actor's profile gives, and an actor's rows with *)
(* one user go all at once.  Delivery lets its environment change the      *)
(* table this way; Inbox, which does change it, implements this module.    *)
(***************************************************************************)
CONSTANTS
    Users, Actors, Inboxes,
    InboxesOfActor  \* the inboxes an actor's profile may give over time

VARIABLE follows    \* rows <<user, actor, inbox>>

Row == Users \X Actors \X Inboxes

Init == follows \subseteq Row

Add(u, a, i) ==
    /\ i \in InboxesOfActor[a]
    /\ follows' = follows \cup {<<u, a, i>>}

Remove(u, a) == follows' = {r \in follows : ~(r[1] = u /\ r[2] = a)}

Next == \E u \in Users, a \in Actors :
    \/ Remove(u, a)
    \/ \E i \in Inboxes : Add(u, a, i)

Spec == Init /\ [][Next]_follows
==============================================================================
