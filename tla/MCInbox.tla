------------------------------- MODULE MCInbox -------------------------------
(***************************************************************************)
(* Instances of Inbox for TLC.                                             *)
(***************************************************************************)
EXTENDS Inbox, TLC

CONSTANTS alice, bob, ann, ben, post, missing

\* alice wrote post; the article missing is not deployed any more.
Authors == (post :> alice) @@ (missing :> None)

\* ann's profile changes from her own inbox to the shared one; ben has that one.
Profiles == (ann :> {1, 2}) @@ (ben :> {2})

Activity(type, id, a, t) == [type |-> type, id |-> id, actor |-> a, of |-> None, target |-> t]
UndoOf(b, id, a) ==
    [type |-> IF b.type = "Like" THEN "UndoLike" ELSE "UndoFollow",
     id |-> id, actor |-> a, of |-> b.actor, target |-> b.target]
Sent(u, b, signer) == [to |-> u, body |-> b, actor |-> signer]

\* ann follows alice and stops; ben undoes ann's follow, in his own name and in
\* hers.
Follow1 == Activity("Follow", 1, ann, alice)
Unfollow == UndoOf(Follow1, 2, ann)
Meddling == UndoOf(Follow1, 3, ben)
FollowActivities == {Follow1, Unfollow, Meddling}
FollowRequests ==
    {Sent(alice, Follow1, ann), Sent(alice, Unfollow, ann), Sent(alice, Meddling, ben),
     Sent(alice, Unfollow, ben)}

\* ann and ben like alice's post.  ann takes her like back, and then ben's.
Like1 == Activity("Like", 1, ann, post)
Like2 == Activity("Like", 2, ben, post)
Unlike == UndoOf(Like1, 3, ann)
Grudge == UndoOf(Like2, 4, ann)
LikeActivities == {Like1, Like2, Unlike, Grudge}
LikeRequests ==
    {Sent(alice, Like1, ann), Sent(alice, Like2, None), Sent(alice, Unlike, ann),
     Sent(alice, Grudge, ann)}

\* Comments on the post, one of them also sent to bob, who did not write it.  What
\* is served at id 3 changes, from a comment on the missing article to one on the post.
Comment1 == Activity("Create", 1, ann, post)
Comment2 == Activity("Create", 2, ben, post)
Late == Activity("Create", 3, ben, missing)
Moved == Activity("Create", 3, ben, post)
CommentActivities == {Comment1, Comment2, Late, Moved}
CommentRequests ==
    {Sent(alice, Comment1, ann), Sent(alice, Comment2, None), Sent(bob, Comment1, ann),
     Sent(alice, Late, None)}
==============================================================================
