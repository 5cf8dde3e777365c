----------------------------- MODULE MCDelivery -----------------------------
(***************************************************************************)
(* Instances of Delivery for TLC.                                          *)
(***************************************************************************)
EXTENDS Delivery, TLC

CONSTANTS alice, bob, post, ann, ben, cat

\* Three inboxes and pages of two: the walk over all of them takes two pages.
\* ann and ben share inbox 1; ben has another one; cat is alone on inbox 3.
SharedInboxes == (ann :> {1}) @@ (ben :> {1, 2}) @@ (cat :> {3})
\* Two actors, each on an inbox of its own: with pages of one, every page is
\* full and the walk ends with an empty page.
OwnInboxes == (ann :> {1}) @@ (ben :> {2})
\* Two actors on one shared inbox: every page is full or empty.
OneInbox == (ann :> {1}) @@ (ben :> {1})

NewPost == [id |-> 1, kind |-> "New", slug |-> post, author |-> None]
UpdatePost == [id |-> 2, kind |-> "Update", slug |-> post, author |-> None]
DeletePost == [id |-> 3, kind |-> "Delete", slug |-> post, author |-> alice]

New == {NewPost}
Delete == {DeletePost}
NewAndDelete == {NewPost, DeletePost}
=============================================================================
