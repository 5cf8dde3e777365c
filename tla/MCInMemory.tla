------------------------------ MODULE MCInMemory ------------------------------
(***************************************************************************)
(* Instances of InMemoryServer for TLC.  Every article is written by one   *)
(* author, as the server's main makes it.                                  *)
(***************************************************************************)
EXTENDS InMemoryServer, TLC

CONSTANTS author, other, post, ann, ben, cat

\* ann and ben share an inbox, cat has another one.
SharedInboxes == (ann :> 1) @@ (ben :> 1) @@ (cat :> 2)
Authors == post :> author

Announced(u) == Fanned("ToAll", post, u, EmptyString)
Activity(type, slug, actor) ==
    [type |-> type, slug |-> slug, user |-> author, actor |-> actor, at |-> EmptyString]
\* Another activity of the same content, as its event id tells them apart.
Second(j) == [j EXCEPT !.at = 1]

\* ann follows twice and stops once, ben and cat follow, and the article
\* is announced.
FollowJobs == {
    Activity("Follow", None, ann), Second(Activity("Follow", None, ann)),
    Activity("UndoFollow", None, ann), Activity("Follow", None, ben),
    Activity("Follow", None, cat), Announced(None)}

\* Activities about an article that is deleted, and its deletion announced.
ArticleJobs == {
    Activity("Create", post, ann), Activity("Like", post, ann), Activity("UndoLike", post, ann),
    [Activity("Like", post, ben) EXCEPT !.user = other],
    Activity("Follow", None, ben), Announced(author)}
===============================================================================
