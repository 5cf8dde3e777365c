-------------------------------- MODULE Inbox --------------------------------
(***************************************************************************)
(* What remote servers send to the inbox of a user, on the Workers         *)
(* deployment.  POST /users/{username}/inbox verifies the signature and    *)
(* queues an Inbox message; the queue consumer processes it step by step,  *)
(* one await at a time, against three stores that know no transaction      *)
(* together: the D1 tables, the R2 bucket and the remote servers.          *)
(*                                                                         *)
(*   Create       R2 object, then comment count                            *)
(*   Like         R2 object, then reaction count, then row of its actor    *)
(*   Follow       actor fetched, then follower row, then Accept sent       *)
(*   Undo Like    reaction count, then row of its actor                    *)
(*   Undo Follow  follower rows                                            *)
(*                                                                         *)
(* The queue delivers at least once and in any order, to consumers that    *)
(* may die at any await.                                                   *)
(***************************************************************************)
EXTENDS Integers, Sequences, FiniteSets

CONSTANTS
    Users,          \* local users, who have inboxes
    Slugs,          \* article slugs that activities mention
    AuthorOf,       \* slug -> author of the deployed article, None if absent
    Actors,         \* remote actors
    Inboxes,        \* inbox URLs of remote actors
    InboxesOfActor, \* the inboxes an actor's profile may give over time
    Activities,     \* the activities that may be sent, or fetched by id
    Requests,       \* the POSTs that may pass verification
    MaxPosts,       \* how often each of them may come: servers send again
    Workers,        \* concurrent invocations of queue_event
    MaxBatch,       \* max_batch_size of the queue consumer
    MaxRetries,     \* redeliveries before the platform drops a message
    Failures,       \* the classes of failure that may happen
    None

\* An activity, as far as ResponseBody tells activities apart.  "of" is the
\* actor of the activity an Undo undoes, and an Undo's target is the target of
\* that activity.  Anything else, an Undo of anything else included, is Other.
\* The id of a Create also stands for the id of its note, the key in R2.
ActivityTypes == {"Create", "Like", "Follow", "UndoLike", "UndoFollow", "Other"}
Undos == {"UndoLike", "UndoFollow"}
AboutArticle == {"Create", "Like", "UndoLike"}
AboutUser == {"Follow", "UndoFollow"}

ASSUME ActivitiesAssumption ==
    Activities \subseteq [type : ActivityTypes, id : Nat, actor : Actors,
                          of : Actors \cup {None}, target : Slugs \cup Users \cup {None}]

\* A POST to the inbox of a user.  "actor" owns the key its signature was
\* verified with; None is VerifiedRequest::CannotVerify.
ASSUME RequestsAssumption ==
    Requests \subseteq [to : Users, body : Activities, actor : Actors \cup {None}]
ASSUME NoneAssumption == None \notin Users \cup Actors \cup Activities
ASSUME AuthorOfAssumption == AuthorOf \in [Slugs -> Users \cup {None}]
ASSUME SlugsAssumption == Slugs \cap Users = {}
ASSUME InboxesOfActorAssumption == InboxesOfActor \in [Actors -> SUBSET Inboxes]
ASSUME BoundsAssumption == MaxPosts \in Nat /\ MaxBatch \in Nat \ {0} /\ MaxRetries \in Nat
ASSUME WorkersAssumption == IsFiniteSet(Workers)
ASSUME FailuresAssumption == Failures \subseteq {"enqueue", "d1", "r2", "asset", "crash"}

\* The QueueData::Inbox a request is queued as: the verified body, or just its
\* id.  "tries" is the redelivery count the platform keeps.
Enqueued(r) ==
    [to |-> r.to, id |-> r.body.id, body |-> IF r.actor = None THEN None ELSE r.body,
     actor |-> r.actor, tries |-> 0]
Message == {[Enqueued(r) EXCEPT !.tries = n] : r \in Requests, n \in 0..MaxRetries}

VARIABLES
    received,       \* request -> how often it came
    queue,          \* messages waiting in the queue: message -> copies
    batch,          \* worker -> messages of its batch not yet acked
    pc,             \* worker -> the step it is at with the head of its batch
    act,            \* worker -> the activity it is processing, None before
    inbox,          \* worker -> the inbox found in the profile of a follower
    followers,      \* D1: rows <<user, actor, inbox, event id>>
    reactionCount,  \* D1: slug -> count
    reactionActors, \* D1: rows <<slug, actor>>
    commentCount,   \* D1: slug -> count
    objects         \* R2: the stored objects <<type, slug, id>>

\* History of what happened.
VARIABLES
    accepted,       \* <<user, actor>>: the actor's server took an Accept
    left,           \* <<user, actor>>: the last the actor sent was an Undo, and
                    \*   its Follows had all been dealt with by then
    spoiled,        \* activities that a failure interfered with
    irregular       \* slugs whose reactions did not come one after the other,
                    \*   like and undo by turns and undisturbed, for each actor

consumer == <<batch, pc, act, inbox>>
reactions == <<reactionCount, reactionActors>>
stores == <<followers, reactions, commentCount, objects>>
history == <<accepted, left, spoiled, irregular>>
vars == <<received, queue, consumer, stores, history>>

-------------------------------------------------------------------------------
\* What processing message m may find itself with: the verified body, or
\* whatever is served at the id.
Bodies(m) == IF m.body # None THEN {m.body} ELSE {b \in Activities : b.id = m.id}

Copies(s, m) == Cardinality({k \in DOMAIN s : s[k] = m})
Queued == {m \in Message : queue[m] > 0}
Held(w) == {batch[w][k] : k \in DOMAIN batch[w]}
InFlight == Queued \cup UNION {Held(w) : w \in Workers}

\* Some message in flight may turn out to be of this type, by actor a, at u's inbox.
Coming(type, u, a) ==
    \E m \in InFlight : m.to = u /\ \E b \in Bodies(m) :
        b.type = type /\ b.actor = a /\ b.target = u

Current(w) == Head(batch[w])

\* Worker w is at this step with its current message.
At(w, step) == pc[w] = step /\ batch[w] # <<>>

-------------------------------------------------------------------------------
Init ==
    /\ received = [r \in Requests |-> 0]
    /\ queue = [m \in Message |-> 0]
    /\ batch = [w \in Workers |-> <<>>]
    /\ pc = [w \in Workers |-> "next"]
    /\ act = [w \in Workers |-> None]
    /\ inbox = [w \in Workers |-> None]
    /\ followers = {}
    /\ reactionCount = [s \in Slugs |-> 0]
    /\ reactionActors = {}
    /\ commentCount = [s \in Slugs |-> 0]
    /\ objects = {}
    /\ accepted = {} /\ left = {} /\ spoiled = {} /\ irregular = {}

-------------------------------------------------------------------------------
(* user_inbox_post.                                                        *)

\* An Undo is obeyed if the actor who signed it undoes what it did itself.
AuthorisedByUndoActor(b, signer) == b.actor = b.of            \* a faulty variant
AuthorisedByInnerActor(b, signer) == signer = b.of \/ signer = b.actor  \* faulty
Authorised(b, signer) == signer # None /\ signer = b.actor /\ b.actor = b.of

\* The request stops the follow of <<user, actor>>.
Unfollows(r, p) ==
    /\ r.body.type = "UndoFollow" /\ r.actor = r.body.actor /\ r.body.actor = r.body.of
    /\ r.to = p[1] /\ r.body.target = p[1] /\ r.actor = p[2]

\* The answer is 202.  A request to an unknown user, with another content type, a
\* bad signature or an unreadable body is answered 4xx and changes nothing.
Receive(r) ==
    /\ received[r] < MaxPosts
    /\ received' = [received EXCEPT ![r] = @ + 1]
    /\ queue' = [queue EXCEPT ![Enqueued(r)] = @ + 1]
    /\ left' = {p \in left : ~\E b \in Bodies(Enqueued(r)) :
                                  b.type = "Follow" /\ b.actor = p[2] /\ r.to = p[1]}
               \cup {p \in Users \X Actors : Unfollows(r, p) /\ ~Coming("Follow", p[1], p[2])}
    /\ UNCHANGED <<consumer, stores, accepted, spoiled, irregular>>

\* queue.send fails: enqueue logs it, and the answer is 202 all the same.
EnqueueFails(r) ==
    /\ "enqueue" \in Failures
    /\ received[r] < MaxPosts
    /\ received' = [received EXCEPT ![r] = @ + 1]
    /\ spoiled' = spoiled \cup Bodies(Enqueued(r))
    /\ UNCHANGED <<queue, consumer, stores, accepted, left, irregular>>

-------------------------------------------------------------------------------
(* process_queue, its Inbox arm.                                           *)

\* The platform hands worker w a batch of at most MaxBatch messages.
ReceiveBatch(w) ==
    /\ batch[w] = <<>>
    /\ \E n \in 1..MaxBatch : \E b \in [1..n -> Queued] :
          /\ \A k \in 1..n : Copies(b, b[k]) <= queue[b[k]]
          /\ queue' = [m \in Message |-> queue[m] - Copies(b, m)]
          /\ batch' = [batch EXCEPT ![w] = b]
    /\ UNCHANGED <<received, pc, act, inbox, stores, history>>

Goes(w, step) == pc' = [pc EXCEPT ![w] = step]

\* The steps that are one D1 statement.
D1Steps == {"countComment", "countReaction", "putActor", "decrement", "dropActor",
            "insert", "remove"}

\* The order of the awaits in the Follow and Undo Follow arms, and in the store
\* methods of the others; first a faulty variant of each.
AcceptFirst == [actor |-> "accept", accept |-> "insert", insert |-> "finished",
                remove |-> "finished"]
FollowOrder == [actor |-> "insert", insert |-> "accept", accept |-> "finished",
                remove |-> "finished"]
RowLeft ==
    [putComment |-> "countComment", countComment |-> "finished",
     putReaction |-> "countReaction", countReaction |-> "putActor", putActor |-> "finished",
     decrement |-> "finished", dropActor |-> "finished"]
StoreOrder ==
    [putComment |-> "countComment", countComment |-> "finished",
     putReaction |-> "countReaction", countReaction |-> "putActor", putActor |-> "finished",
     decrement |-> "dropActor", dropActor |-> "finished"]
After(step) == IF step \in DOMAIN FollowOrder THEN FollowOrder[step] ELSE StoreOrder[step]
Proceeds(w) == Goes(w, After(pc[w]))

\* The checks made before the first await of each arm.
Admissible(m, b) ==
    /\ b.type \in AboutArticle => b.target \in Slugs
    /\ b.type \in AboutUser => b.target = m.to
    /\ b.type \in Undos => Authorised(b, m.actor)
    /\ b.type # "Other"

\* The step an activity is at after those checks.
Entry(b) == IF b.type \in AboutArticle THEN "author"
            ELSE IF b.type = "Follow" THEN "actor" ELSE "remove"

\* The body, verified or fetched, is parsed and dispatched.  If the id has come to
\* serve something else, what an earlier delivery had begun is never completed.
Dispatch(w) ==
    /\ At(w, "next")
    /\ \E b \in Bodies(Current(w)) :
          /\ act' = [act EXCEPT ![w] = b]
          /\ Goes(w, IF Admissible(Current(w), b) THEN Entry(b) ELSE "finished")
          /\ spoiled' = spoiled \cup IF Current(w).tries = 0 THEN {} ELSE Bodies(Current(w)) \ {b}
    /\ UNCHANGED <<received, queue, batch, inbox, stores, accepted, left, irregular>>

\* get_ap_data_raw fails: an unverified message comes to nothing, and nor does
\* what an earlier delivery of it had begun.
FetchFails(w) ==
    /\ At(w, "next")
    /\ Current(w).body = None
    /\ Goes(w, "finished")
    /\ spoiled' = spoiled \cup IF Current(w).tries = 0 THEN {} ELSE Bodies(Current(w))
    /\ UNCHANGED <<received, queue, batch, act, inbox, stores, accepted, left, irregular>>

\* get_author_id: only the author of the article takes notice.
UncountedUndo ==                                              \* a faulty variant
    [Create |-> "putComment", Like |-> "putReaction", UndoLike |-> "dropActor"]
FirstEffect == [Create |-> "putComment", Like |-> "putReaction", UndoLike |-> "decrement"]

CheckAuthor(w) ==
    /\ At(w, "author")
    /\ Goes(w, IF AuthorOf[act[w].target] = Current(w).to
               THEN FirstEffect[act[w].type] ELSE "finished")
    /\ UNCHANGED <<received, queue, batch, act, inbox, stores, history>>

\* get_author_id answers None because the asset cannot be fetched.
AssetFails(w) ==
    /\ "asset" \in Failures
    /\ At(w, "author")
    /\ Goes(w, "finished")
    /\ spoiled' = spoiled \cup {act[w]}
    /\ UNCHANGED <<received, queue, batch, act, inbox, stores, accepted, left, irregular>>

-------------------------------------------------------------------------------
(* add_comment and add_reaction begin with the R2 object.                  *)

Object(b) == <<b.type, b.target, b.id>>

\* A faulty variant of PutObject: what R2 already has is taken as counted.
PutNewObject(w) ==
    /\ At(w, "putComment") \/ At(w, "putReaction")
    /\ objects' = objects \cup {Object(act[w])}
    /\ IF Object(act[w]) \in objects THEN Goes(w, "finished") ELSE Proceeds(w)
    /\ UNCHANGED <<received, queue, batch, act, inbox, followers, reactions, commentCount, history>>

PutObject(w) ==
    /\ At(w, "putComment") \/ At(w, "putReaction")
    /\ objects' = objects \cup {Object(act[w])}
    /\ Proceeds(w)
    /\ UNCHANGED <<received, queue, batch, act, inbox, followers, reactions, commentCount, history>>

\* R2 fails: nothing is counted.
PutFails(w) ==
    /\ "r2" \in Failures
    /\ At(w, "putComment") \/ At(w, "putReaction")
    /\ Goes(w, "finished")
    /\ spoiled' = spoiled \cup {act[w]}
    /\ UNCHANGED <<received, queue, batch, act, inbox, stores, accepted, left, irregular>>

CountComment(w) ==
    /\ At(w, "countComment")
    /\ commentCount' = [commentCount EXCEPT ![act[w].target] = @ + 1]
    /\ Proceeds(w)
    /\ UNCHANGED <<received, queue, batch, act, inbox, followers, reactions, objects, history>>

-------------------------------------------------------------------------------
(* The rest of add_reaction, and remove_reaction_by.                       *)

\* The reaction_actors row that is written or deleted for worker w's activity.
ActorRow(w) ==
    <<act[w].target, IF act[w].type = "UndoLike" THEN act[w].of ELSE act[w].actor>>

\* Another worker is between the two D1 statements of a like or undo of the
\* same actor for the same article.
Racing(w) == \E v \in Workers \ {w} :
    pc[v] \in {"putActor", "dropActor"} /\ ActorRow(v) = ActorRow(w)

\* History: the reactions of an article are irregular from now on if ok is false.
Notes(w, ok) == irregular' = IF ok THEN irregular ELSE irregular \cup {act[w].target}

CountReaction(w) ==
    /\ At(w, "countReaction")
    /\ reactionCount' = [reactionCount EXCEPT ![act[w].target] = @ + 1]
    /\ Proceeds(w)
    /\ Notes(w, ActorRow(w) \notin reactionActors /\ ~Racing(w))
    /\ UNCHANGED <<received, queue, batch, act, inbox, followers, reactionActors,
                   commentCount, objects, accepted, left, spoiled>>

\* INSERT OR REPLACE: an actor has one row for an article.
PutActor(w) ==
    /\ At(w, "putActor")
    /\ reactionActors' = reactionActors \cup {ActorRow(w)}
    /\ Proceeds(w)
    /\ UNCHANGED <<received, queue, batch, act, inbox, followers, reactionCount,
                   commentCount, objects, history>>

LessOneUnguarded(n) == n - 1                                  \* a faulty variant
LessOne(n) == IF n > 0 THEN n - 1 ELSE 0

Decrement(w) ==
    /\ At(w, "decrement")
    /\ reactionCount' = [reactionCount EXCEPT ![act[w].target] = LessOne(@)]
    /\ Proceeds(w)
    /\ Notes(w, ActorRow(w) \in reactionActors /\ ~Racing(w))
    /\ UNCHANGED <<received, queue, batch, act, inbox, followers, reactionActors,
                   commentCount, objects, accepted, left, spoiled>>

DropActor(w) ==
    /\ At(w, "dropActor")
    /\ reactionActors' = reactionActors \ {ActorRow(w)}
    /\ Proceeds(w)
    /\ UNCHANGED <<received, queue, batch, act, inbox, followers, reactionCount,
                   commentCount, objects, history>>

-------------------------------------------------------------------------------
(* Follow and Undo Follow.                                                 *)

\* The actor's profile is fetched, unless that fails or it is not a Person.
FetchActor(w) ==
    /\ At(w, "actor")
    /\ \/ /\ \E i \in InboxesOfActor[act[w].actor] : inbox' = [inbox EXCEPT ![w] = i]
          /\ Proceeds(w)
       \/ /\ Goes(w, "finished")
          /\ UNCHANGED inbox
    /\ UNCHANGED <<received, queue, batch, act, stores, history>>

\* add_follower: a plain INSERT.  Rows equal in all columns cannot be told
\* apart by any query, so one stands for all.
AddFollower(w) ==
    /\ At(w, "insert")
    /\ followers' = followers \cup {<<Current(w).to, act[w].actor, inbox[w], act[w].id>>}
    /\ Proceeds(w)
    /\ UNCHANGED <<received, queue, batch, act, inbox, reactions, commentCount, objects, history>>

\* The Accept is posted; whatever the answer, the message is finished.
SendAccept(w) ==
    /\ At(w, "accept")
    /\ accepted' \in {accepted, accepted \cup {<<Current(w).to, act[w].actor>>}}
    /\ Proceeds(w)
    /\ UNCHANGED <<received, queue, batch, act, inbox, stores, left, spoiled, irregular>>

\* The rows that remain when actor a stops following u.
WithoutFirstOf(rows, u, a) ==                                 \* a faulty variant
    LET gone == {r \in rows : r[1] = u /\ r[2] = a}
    IN  IF gone = {} THEN rows ELSE rows \ {CHOOSE r \in gone : TRUE}
Without(rows, u, a) == {r \in rows : ~(r[1] = u /\ r[2] = a)}

\* remove_follower_by_actor
RemoveFollower(w) ==
    /\ At(w, "remove")
    /\ followers' = Without(followers, Current(w).to, act[w].of)
    /\ Proceeds(w)
    /\ UNCHANGED <<received, queue, batch, act, inbox, reactions, commentCount, objects, history>>

-------------------------------------------------------------------------------
\* A D1 statement fails: that is logged, and the next one is run.
StatementFails(w) ==
    /\ "d1" \in Failures
    /\ batch[w] # <<>> /\ pc[w] \in D1Steps
    /\ Proceeds(w)
    /\ spoiled' = spoiled \cup {act[w]}
    /\ Notes(w, act[w].type \notin {"Like", "UndoLike"})
    /\ UNCHANGED <<received, queue, batch, act, inbox, stores, accepted, left>>

\* A faulty variant of Ack: what could not be fetched is enqueued once more.
AckUnfetchedAnew(w) ==
    /\ At(w, "finished")
    /\ queue' = IF act[w] # None THEN queue
                ELSE [queue EXCEPT ![[Current(w) EXCEPT !.tries = 0]] = @ + 1]
    /\ batch' = [batch EXCEPT ![w] = Tail(@)]
    /\ Goes(w, "next")
    /\ act' = [act EXCEPT ![w] = None]
    /\ inbox' = [inbox EXCEPT ![w] = None]
    /\ UNCHANGED <<received, stores, history>>

\* message.ack(): an Inbox message is never asked to be retried.
Ack(w) ==
    /\ At(w, "finished")
    /\ batch' = [batch EXCEPT ![w] = Tail(@)]
    /\ Goes(w, "next")
    /\ act' = [act EXCEPT ![w] = None]
    /\ inbox' = [inbox EXCEPT ![w] = None]
    /\ UNCHANGED <<received, queue, stores, history>>

\* The platform redelivers a message until it has been retried MaxRetries times.
CanRedeliver(m) == m.tries < MaxRetries
Redelivered(m) == [m EXCEPT !.tries = @ + 1]
Requeued(s) ==
    [m \in Message |->
        queue[m] + Cardinality({k \in DOMAIN s : CanRedeliver(s[k]) /\ Redelivered(s[k]) = m})]
LostFrom(s) == UNION {Bodies(s[k]) : k \in {j \in DOMAIN s : ~CanRedeliver(s[j])}}

\* The invocation dies at any await: every message not yet acked is redelivered.
Crash(w) ==
    /\ "crash" \in Failures
    /\ batch[w] # <<>>
    /\ queue' = Requeued(batch[w])
    /\ spoiled' = spoiled \cup LostFrom(batch[w])
    /\ IF act[w] = None THEN UNCHANGED irregular
       ELSE Notes(w, pc[w] \notin {"putActor", "dropActor"})
    /\ batch' = [batch EXCEPT ![w] = <<>>]
    /\ Goes(w, "next")
    /\ act' = [act EXCEPT ![w] = None]
    /\ inbox' = [inbox EXCEPT ![w] = None]
    /\ UNCHANGED <<received, stores, accepted, left>>

-------------------------------------------------------------------------------
Request == \E r \in Requests : Receive(r) \/ EnqueueFails(r)

WorkerStep(w) ==
    \/ ReceiveBatch(w)
    \/ Dispatch(w) \/ FetchFails(w) \/ CheckAuthor(w)
    \/ PutObject(w) \/ CountComment(w)
    \/ CountReaction(w) \/ PutActor(w)
    \/ Decrement(w) \/ DropActor(w)
    \/ FetchActor(w) \/ AddFollower(w) \/ SendAccept(w)
    \/ RemoveFollower(w)
    \/ Ack(w)

Failure(w) == AssetFails(w) \/ PutFails(w) \/ StatementFails(w) \/ Crash(w)

Next == Request \/ \E w \in Workers : WorkerStep(w) \/ Failure(w)

Spec == Init /\ [][Next]_vars

\* The platform keeps invoking the consumer while messages wait, and an
\* invocation that does not die runs on.
FairSpec == Spec /\ WF_vars(\E w \in Workers : WorkerStep(w))
-------------------------------------------------------------------------------
(* Properties.                                                             *)

Steps == {"next", "author", "finished"} \cup DOMAIN FollowOrder \cup DOMAIN StoreOrder

\* Type invariant.  The counts are natural numbers: reaction_count casts the
\* i64 of D1 to usize, which turns a negative count into an enormous one.
TypeOK ==
    /\ received \in [Requests -> 0..MaxPosts]
    /\ queue \in [Message -> Nat]
    /\ batch \in [Workers -> Seq(Message)]
    /\ pc \in [Workers -> Steps]
    /\ act \in [Workers -> Activities \cup {None}]
    /\ inbox \in [Workers -> Inboxes \cup {None}]
    /\ followers \subseteq Users \X Actors \X Inboxes \X Nat
    /\ reactionCount \in [Slugs -> Nat]
    /\ reactionActors \subseteq Slugs \X Actors
    /\ commentCount \in [Slugs -> Nat]
    /\ objects \subseteq {"Create", "Like"} \X Slugs \X Nat
    /\ accepted \subseteq Users \X Actors
    /\ left \subseteq Users \X Actors
    /\ spoiled \subseteq Activities
    /\ irregular \subseteq Slugs

Follows(u, a) == \E r \in followers : r[1] = u /\ r[2] = a
Spoiled(type, u, a) == \E b \in spoiled : b.type = type /\ b.actor = a /\ b.target = u

\* Actor a has signed an Undo of its own that is addressed to u's inbox and
\* takes back what it did there: a follow of u, or a like of article t.
SignedUndo(type, u, a, t) == \E r \in Requests :
    /\ received[r] > 0 /\ r.to = u /\ r.actor = a
    /\ r.body.type = type /\ r.body.actor = a /\ r.body.of = a /\ r.body.target = t

\* A server that took the Accept of a Follow can rely on it: the follower is in
\* the table, through redeliveries and through Undos of others, until the actor
\* itself sends an Undo.  The row is written before the Accept is sent, and only
\* a failing INSERT leaves an Accept without a row.
AcceptedIsStored ==
    \A p \in accepted :
        \/ Follows(p[1], p[2])
        \/ SignedUndo("UndoFollow", p[1], p[2], p[1])
        \/ Spoiled("Follow", p[1], p[2])

\* Nobody else ends a follow or takes back a reaction: a row goes only if its
\* actor signed the Undo, sent it to the right user and names its own activity.
RemovedOnlyByItsActor ==
    [][/\ \A r \in followers \ followers' : SignedUndo("UndoFollow", r[1], r[2], r[1])
       /\ \A r \in reactionActors \ reactionActors' :
             SignedUndo("UndoLike", AuthorOf[r[1]], r[2], r[1])]_vars

\* An actor that sends an Undo once its Follows are dealt with, and no Follow
\* after it, is not a follower any more when the Undo is dealt with, however
\* often it had followed and whatever was redelivered.
UndoneNotFollowing ==
    \A p \in left :
        \/ ~Follows(p[1], p[2])
        \/ Coming("UndoFollow", p[1], p[2])
        \/ Spoiled("UndoFollow", p[1], p[2])

\* The workers between the two D1 statements of a like or an undo for article s.
Between(step, s) == {w \in Workers : pc[w] = step /\ act[w].target = s}

\* The reaction count of an article is the number of actors whose reaction is
\* kept, give or take the statements still to come, as long as each actor's
\* likes and undos come by turns and one after the other.  Likes and undos of
\* different actors may interleave in any way.
CountMatchesActors ==
    \A s \in Slugs \ irregular :
        reactionCount[s] = Cardinality({r \in reactionActors : r[1] = s})
                             + Cardinality(Between("putActor", s))
                             - Cardinality(Between("dropActor", s))

\* A comment in R2 is counted, at least once, by the time nothing of it is left
\* in the queue or with a consumer; only a failure can leave it uncounted.
StoredCommentsCounted ==
    \A s \in Slugs :
        \/ \E m \in InFlight : \E b \in Bodies(m) : b.type = "Create" /\ b.target = s
        \/ \E b \in spoiled : b.type = "Create" /\ b.target = s
        \/ commentCount[s] >= Cardinality({o \in objects : o[1] = "Create" /\ o[2] = s})

\* Whatever was accepted with a 202 comes to an end, for every request.
RequestsComplete ==
    \A r \in Requests : received[r] > 0 ~> ~\E m \in InFlight : m.to = r.to /\ m.id = r.body.id

\* Inbox changes the followers table as Delivery assumes it to change.
Table == INSTANCE FollowerTable WITH follows <- {<<r[1], r[2], r[3]>> : r \in followers}
KeepsTable == Table!Spec
===============================================================================
