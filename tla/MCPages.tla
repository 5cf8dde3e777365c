------------------------------- MODULE MCPages -------------------------------
(* Values for Pages: two authors, each with a version of every article.     *)
EXTENDS Pages, TLC

CONSTANTS first, moved, ann, bob

Authorship == (first :> ann) @@ (moved :> bob)
Asks(media) == <<[media |-> media, q |-> 10]>>
Accepts == {Asks("activity+json"), Asks("any"), Asks("text/html")}
Symmetric == Permutations(Slugs)
=============================================================================
