------------------------------- MODULE Delivery -------------------------------
(***************************************************************************)
(* Announcing an article event to the followers of its author, on the      *)
(* Workers deployment.  The deploy script queues one ToAll message per     *)
(* event; the queue consumer expands it in steps, each one again a queue   *)
(* message:                                                                *)
(*                                                                         *)
(*   ToAll(event)              -> Batch(event, author, last_inbox = "")    *)
(*   Batch(event, author, l)   -> Batch(event, author, l') and one Post    *)
(*                                for each inbox of the page above l       *)
(*   Post(event, author, i)    -> one signed POST to the inbox i           *)
(*                                                                         *)
(* The queue delivers at least once, in any order and in batches, to       *)
(* consumers that may die at any await, while Follow and Undo activities   *)
(* change the followers table and deployments change the articles.         *)
(***************************************************************************)
EXTENDS InboxPage, FiniteSets

CONSTANTS
    Users,          \* local users, the authors of articles
    Slugs,          \* articles
    Actors,         \* remote actors that may follow
    InboxesOfActor, \* the inboxes an actor's profile may give over time
    Events,         \* the article events that may be announced
    Workers,        \* concurrent invocations of queue_event
    MaxBatch,       \* max_batch_size of the queue consumer
    MaxRetries,     \* redeliveries before the platform drops a message
    Changes,        \* the changes the environment may make meanwhile
    Failures,       \* the classes of failure that may happen
    None            \* no author

EventKinds == {"New", "Update", "Delete"}
ChangeKinds == {"follow", "undo", "deploy"}
FailureKinds == {"enqueue", "query", "asset", "crash"}

\* Only DeliveryDeleteArticleToAll carries an author: the article is gone by
\* then.  The other two look the author up when they are processed.
ASSUME EventsAssumption ==
    /\ Events \subseteq [id : Nat, kind : EventKinds, slug : Slugs,
                         author : Users \cup {None}]
    /\ \A e \in Events : e.kind = "Delete" <=> e.author # None
ASSUME UsersAssumption == None \notin Users
ASSUME InboxesOfActorAssumption == InboxesOfActor \in [Actors -> SUBSET Inboxes]
ASSUME MaxBatchAssumption == MaxBatch \in Nat \ {0}
ASSUME MaxRetriesAssumption == MaxRetries \in Nat
ASSUME ChangesAssumption == Changes \subseteq ChangeKinds
ASSUME FailuresAssumption == Failures \subseteq FailureKinds

\* QueueData, without its Inbox variant.  "at" is last_inbox of a Batch and
\* inbox of a Post; "tries" is the redelivery count the platform keeps.
Tries == 0..MaxRetries
Message ==
    [type : {"ToAll"}, ev : Events, author : {None}, at : {EmptyString}, tries : Tries]
      \cup [type : {"Batch"}, ev : Events, author : Users, at : Cursors, tries : Tries]
      \cup [type : {"Post"}, ev : Events, author : Users, at : Inboxes, tries : Tries]

ToAll(e) ==
    [type |-> "ToAll", ev |-> e, author |-> None, at |-> EmptyString, tries |-> 0]
Batch(e, u, last) ==
    [type |-> "Batch", ev |-> e, author |-> u, at |-> last, tries |-> 0]
Post(e, u, i) ==
    [type |-> "Post", ev |-> e, author |-> u, at |-> i, tries |-> 0]

\* Who a Post message is for.
Recipient(m) == <<m.author, m.at>>

VARIABLES
    author,     \* the deployed articles: slug -> its author, None if absent
    followers,  \* rows <<user, actor, inbox>> of the followers table
    queue,      \* messages waiting in the queue: message -> copies
    batch,      \* worker -> messages of its batch not yet acked or retried
    todo,       \* worker -> messages the head of its batch still has to enqueue
    pc          \* worker -> where it stands with the head of its batch

\* History of what was announced and of what became of it.
VARIABLES
    announced,  \* events whose ToAll message was queued
    eligible,   \* event -> <<user, inbox>> that followed at some time since
    due,        \* event -> <<user, inbox>> that must be told: they followed when
                \*          the fan-out started and have not stopped since
    settled,    \* event -> <<user, inbox>> whose server answered for good, or
                \*          could not be connected to: no retry is asked for
    damaged,    \* events that lost a message or a page to a failure
    repeated    \* events one of whose messages was begun and then redelivered

store == <<author, followers>>
consumer == <<batch, todo, pc>>
history == <<announced, eligible, due, settled, damaged, repeated>>
vars == <<store, queue, consumer, history>>

-------------------------------------------------------------------------------
\* The inboxes of a user's followers; DISTINCT makes duplicate rows invisible,
\* which is why followers is a set.
InboxesOfAnyUser(rows, u) == {r[3] : r \in rows}              \* a faulty variant
InboxesIn(rows, u) == {r[3] : r \in {q \in rows : q[1] = u}}
PairsIn(rows) == {<<r[1], r[3]>> : r \in rows}
Following == PairsIn(followers)

\* Copies of message m in the sequence s.
Copies(s, m) == Cardinality({k \in DOMAIN s : s[k] = m})

\* The messages of worker w that a consumer could still drop or send on.
Held(w) == {batch[w][k] : k \in DOMAIN batch[w]}
Pending(w) == {todo[w][k] : k \in DOMAIN todo[w]}
Queued == {m \in Message : queue[m] > 0}
InFlight == Queued \cup UNION {Held(w) \cup Pending(w) : w \in Workers}
Active(e) == \E m \in InFlight : m.ev = e

-------------------------------------------------------------------------------
Init ==
    /\ author \in [Slugs -> Users \cup {None}]
    /\ followers \in SUBSET {r \in Users \X Actors \X Inboxes : r[3] \in InboxesOfActor[r[2]]}
    /\ queue = [m \in Message |-> 0]
    /\ batch = [w \in Workers |-> <<>>]
    /\ todo = [w \in Workers |-> <<>>]
    /\ pc = [w \in Workers |-> "next"]
    /\ announced = {}
    /\ eligible = [e \in Events |-> {}]
    /\ due = [e \in Events |-> {}]
    /\ settled = [e \in Events |-> {}]
    /\ damaged = {}
    /\ repeated = {}

-------------------------------------------------------------------------------
(* Environment: deployments and the Follow and Undo activities.            *)

\* send_to_queue.sh pushes the event of the snapshot diff.
Announce(e) ==
    /\ e \notin announced
    /\ announced' = announced \cup {e}
    /\ queue' = [queue EXCEPT ![ToAll(e)] = @ + 1]
    /\ eligible' = [eligible EXCEPT ![e] = Following]
    /\ UNCHANGED <<store, consumer, due, settled, damaged, repeated>>

\* A deployment replaces the article assets.
Redeploy(site) ==
    /\ "deploy" \in Changes
    /\ author' = site
    /\ UNCHANGED <<followers, queue, consumer, history>>

\* add_follower: a plain INSERT.
AddFollower(u, a, i) ==
    /\ "follow" \in Changes
    /\ i \in InboxesOfActor[a]
    /\ followers' = followers \cup {<<u, a, i>>}
    /\ eligible' = [e \in Events |->
                      IF e \in announced THEN eligible[e] \cup {<<u, i>>} ELSE eligible[e]]
    /\ UNCHANGED <<author, queue, consumer, announced, due, settled, damaged, repeated>>

\* remove_follower_by_actor deletes every row of the actor.  An inbox another
\* follower shares keeps following.
RemoveFollower(u, a) ==
    /\ "undo" \in Changes
    /\ followers' = {r \in followers : ~(r[1] = u /\ r[2] = a)}
    /\ due' = [e \in Events |-> due[e] \cap PairsIn(followers')]
    /\ UNCHANGED <<author, queue, consumer, announced, eligible, settled, damaged, repeated>>

-------------------------------------------------------------------------------
(* The consumer.                                                           *)

\* The platform hands worker w a batch of at most MaxBatch messages.
ReceiveBatch(w) ==
    /\ batch[w] = <<>>
    /\ \E n \in 1..MaxBatch : \E b \in [1..n -> Queued] :
          /\ \A k \in 1..n : Copies(b, b[k]) <= queue[b[k]]
          /\ queue' = [m \in Message |-> queue[m] - Copies(b, m)]
          /\ batch' = [batch EXCEPT ![w] = b]
    /\ UNCHANGED <<store, todo, pc, history>>

\* The message worker w is at, the first of its batch not yet acked or retried.
Current(w) == Head(batch[w])

\* Worker w takes up its current message, which is of this type.
Begins(w, type) ==
    /\ pc[w] = "next"
    /\ batch[w] # <<>>
    /\ Current(w).type = type

\* The calls to enqueue that processing the head of the batch will make.
Enqueues(w, msgs) ==
    /\ todo' = [todo EXCEPT ![w] = msgs]
    /\ pc' = [pc EXCEPT ![w] = "enqueue"]
    /\ UNCHANGED <<store, queue, batch>>

\* What is queued for an event whose article has author u: nothing if the
\* article is no longer deployed.
UncheckedFirstBatch(e, u) == <<Batch(e, u, EmptyString)>>     \* a faulty variant
FirstBatch(e, u) == IF u = None THEN <<>> ELSE <<Batch(e, u, EmptyString)>>

\* DeliveryNewArticleToAll and DeliveryUpdateArticleToAll.
ResolveAuthor(w) ==
    /\ Begins(w, "ToAll") /\ Current(w).ev.kind # "Delete"
    /\ LET e == Current(w).ev
       IN  Enqueues(w, FirstBatch(e, author[e.slug]))
    /\ UNCHANGED history

\* DeliveryDeleteArticleToAll.
ForwardDelete(w) ==
    /\ Begins(w, "ToAll") /\ Current(w).ev.kind = "Delete"
    /\ LET e == Current(w).ev
       IN  Enqueues(w, FirstBatch(e, e.author))
    /\ UNCHANGED history

\* What the Batch arms enqueue for a page: the next Batch first if the page is
\* full, then one Post for each inbox.
Posts(m, page) == [k \in 1..Len(page) |-> Post(m.ev, m.author, page[k])]
EmptyPageAgain(m, page) ==                                    \* a faulty variant
    IF page = <<>> THEN <<Batch(m.ev, m.author, m.at)>>
    ELSE IF IsFull(page) THEN <<Batch(m.ev, m.author, NextLast(page))>> ELSE <<>>
NextBatch(m, page) ==
    IF IsFull(page) THEN <<Batch(m.ev, m.author, NextLast(page))>> ELSE <<>>
OnePageExpansion(m, page) == Posts(m, page)                   \* a faulty variant
SameCursorExpansion(m, page) ==                               \* a faulty variant
    (IF IsFull(page) THEN <<Batch(m.ev, m.author, m.at)>> ELSE <<>>) \o Posts(m, page)
Expansion(m, page) == NextBatch(m, page) \o Posts(m, page)

\* DeliveryNew/Update/DeleteArticleBatch: get_followers_inbox_batch answers.
ReadPage(w) ==
    /\ Begins(w, "Batch")
    /\ \E page \in Pages :
          /\ IsPage(page, InboxesIn(followers, Current(w).author), Current(w).at)
          /\ Enqueues(w, Expansion(Current(w), page))
    /\ UNCHANGED history

\* One enqueue call.  A fan-out starts when its first Batch is queued: from
\* then on every inbox that keeps following is due.
EnqueueNext(w) ==
    /\ pc[w] = "enqueue" /\ todo[w] # <<>>
    /\ LET m == Head(todo[w])
       IN  /\ queue' = [queue EXCEPT ![m] = @ + 1]
           /\ due' = [due EXCEPT ![m.ev] =
                 IF m.type = "Batch" /\ m.at = EmptyString
                 THEN @ \cup ({m.author} \X InboxesIn(followers, m.author))
                 ELSE @]
    /\ todo' = [todo EXCEPT ![w] = Tail(@)]
    /\ UNCHANGED <<store, batch, pc, announced, eligible, settled, damaged, repeated>>

\* The POST of a Post message.  The answer is final if the status is a success
\* or a client error, or if no answer came at all; anything else is retried.
SendPost(w) ==
    /\ Begins(w, "Post")
    /\ \/ /\ pc' = [pc EXCEPT ![w] = "finished"]
          /\ settled' = [settled EXCEPT ![Current(w).ev] = @ \cup {Recipient(Current(w))}]
       \/ /\ pc' = [pc EXCEPT ![w] = "retry"]
          /\ UNCHANGED settled
    /\ UNCHANGED <<store, queue, batch, todo, announced, eligible, due, damaged, repeated>>

\* The platform redelivers a message until it has been retried MaxRetries times.
CanRedeliver(m) == m.tries < MaxRetries
Redelivered(m) == [m EXCEPT !.tries = @ + 1]

\* Putting the messages of the sequence s back, the queue becomes this, and
\* these events lose a message.
Requeued(s) ==
    [m \in Message |->
        queue[m] + Cardinality({k \in DOMAIN s : CanRedeliver(s[k]) /\ Redelivered(s[k]) = m})]
LostIn(s) == {s[k].ev : k \in {j \in DOMAIN s : ~CanRedeliver(s[j])}}

\* A faulty variant of Ack: a finished Post is asked to be retried.
AckRetries(w) ==
    /\ \/ pc[w] = "finished"
       \/ pc[w] = "enqueue" /\ todo[w] = <<>>
    /\ queue' = IF pc[w] = "finished" THEN Requeued(<<Current(w)>>) ELSE queue
    /\ batch' = [batch EXCEPT ![w] = Tail(@)]
    /\ pc' = [pc EXCEPT ![w] = "next"]
    /\ UNCHANGED <<store, todo, history>>

\* message.ack(), once process_queue returned Finished.
Ack(w) ==
    /\ \/ pc[w] = "finished"
       \/ pc[w] = "enqueue" /\ todo[w] = <<>>
    /\ batch' = [batch EXCEPT ![w] = Tail(@)]
    /\ pc' = [pc EXCEPT ![w] = "next"]
    /\ UNCHANGED <<store, queue, todo, history>>

\* A faulty variant of Retry: the result of process_queue is ignored.
RetryIgnored(w) ==
    /\ pc[w] = "retry"
    /\ batch' = [batch EXCEPT ![w] = Tail(@)]
    /\ pc' = [pc EXCEPT ![w] = "next"]
    /\ UNCHANGED <<store, queue, todo, history>>

\* A faulty variant of Retry: the Post is enqueued anew, and its retries are not
\* counted.
RetryAnew(w) ==
    /\ pc[w] = "retry"
    /\ queue' = [queue EXCEPT ![[Current(w) EXCEPT !.tries = 0]] = @ + 1]
    /\ batch' = [batch EXCEPT ![w] = Tail(@)]
    /\ pc' = [pc EXCEPT ![w] = "next"]
    /\ UNCHANGED <<store, todo, history>>

\* message.retry(), once process_queue returned Retry.
Retry(w) ==
    /\ pc[w] = "retry"
    /\ queue' = Requeued(<<Current(w)>>)
    /\ damaged' = damaged \cup LostIn(<<Current(w)>>)
    /\ batch' = [batch EXCEPT ![w] = Tail(@)]
    /\ pc' = [pc EXCEPT ![w] = "next"]
    /\ UNCHANGED <<store, todo, announced, eligible, due, settled, repeated>>

-------------------------------------------------------------------------------
(* Failures.                                                               *)

\* queue.send fails: enqueue logs it and the message is gone.
EnqueueFails(w) ==
    /\ "enqueue" \in Failures
    /\ pc[w] = "enqueue" /\ todo[w] # <<>>
    /\ damaged' = damaged \cup {Head(todo[w]).ev}
    /\ todo' = [todo EXCEPT ![w] = Tail(@)]
    /\ UNCHANGED <<store, queue, batch, pc, announced, eligible, due, settled, repeated>>

\* D1 fails: get_followers_inbox_batch answers an empty page, so the walk over
\* the followers ends here and the message is acked all the same.
QueryFails(w) ==
    /\ "query" \in Failures
    /\ Begins(w, "Batch")
    /\ Enqueues(w, <<>>)
    /\ damaged' = damaged \cup {Current(w).ev}
    /\ UNCHANGED <<announced, eligible, due, settled, repeated>>

\* Fetching the author asset fails: get_author_id answers None.
AssetFails(w) ==
    /\ "asset" \in Failures
    /\ Begins(w, "ToAll") /\ Current(w).ev.kind # "Delete"
    /\ Enqueues(w, <<>>)
    /\ damaged' = damaged \cup {Current(w).ev}
    /\ UNCHANGED <<announced, eligible, due, settled, repeated>>

\* The invocation dies, at any await or by a panic: what it had enqueued stays
\* queued, and every message it had neither acked nor retried is redelivered.
Crash(w) ==
    /\ "crash" \in Failures
    /\ batch[w] # <<>>
    /\ queue' = Requeued(batch[w])
    /\ damaged' = damaged \cup LostIn(batch[w])
    /\ repeated' = IF pc[w] = "next" THEN repeated
                   ELSE repeated \cup {Current(w).ev}
    /\ batch' = [batch EXCEPT ![w] = <<>>]
    /\ todo' = [todo EXCEPT ![w] = <<>>]
    /\ pc' = [pc EXCEPT ![w] = "next"]
    /\ UNCHANGED <<store, announced, eligible, due, settled>>

-------------------------------------------------------------------------------
Environment ==
    \/ \E e \in Events : Announce(e)
    \/ \E site \in [Slugs -> Users \cup {None}] : Redeploy(site)
    \/ \E u \in Users, a \in Actors, i \in Inboxes : AddFollower(u, a, i)
    \/ \E u \in Users, a \in Actors : RemoveFollower(u, a)

WorkerStep(w) ==
    \/ ReceiveBatch(w)
    \/ ResolveAuthor(w)
    \/ ForwardDelete(w)
    \/ ReadPage(w)
    \/ EnqueueNext(w)
    \/ SendPost(w)
    \/ Ack(w)
    \/ Retry(w)

Failure(w) ==
    \/ EnqueueFails(w)
    \/ QueryFails(w)
    \/ AssetFails(w)
    \/ Crash(w)

Next == Environment \/ \E w \in Workers : WorkerStep(w) \/ Failure(w)

Spec == Init /\ [][Next]_vars

\* The platform keeps invoking the consumer while messages wait, and an
\* invocation that does not die runs on.
FairSpec == Spec /\ WF_vars(\E w \in Workers : WorkerStep(w))
-------------------------------------------------------------------------------
(* Properties.                                                             *)

\* Type invariant.
TypeOK ==
    /\ author \in [Slugs -> Users \cup {None}]
    /\ followers \subseteq Users \X Actors \X Inboxes
    /\ queue \in [Message -> Nat]
    /\ batch \in [Workers -> Seq(Message)]
    /\ todo \in [Workers -> Seq(Message)]
    /\ pc \in [Workers -> {"next", "enqueue", "finished", "retry"}]
    /\ announced \subseteq Events
    /\ eligible \in [Events -> SUBSET (Users \X Inboxes)]
    /\ due \in [Events -> SUBSET (Users \X Inboxes)]
    /\ settled \in [Events -> SUBSET (Users \X Inboxes)]
    /\ damaged \subseteq Events
    /\ repeated \subseteq Events

\* Once nothing of an event is left in the queue or with a consumer, every
\* inbox that followed from the start of the fan-out to its end has answered
\* for good.  Pages are read one by one, by different invocations, while
\* followers come and go, yet the walk by "inbox > last_inbox" skips nobody.
\* Only an event that lost a message or a page is excused.
NoFollowerSkipped ==
    \A e \in Events \ damaged : Active(e) \/ due[e] \subseteq settled[e]

\* An event is only ever posted to an inbox that followed the right user at
\* some moment since the announcement, and never to one that had stopped
\* following before it.
OnlyFollowersNotified ==
    \A e \in Events :
        /\ settled[e] \subseteq eligible[e]
        /\ \A m \in InFlight : m.ev = e /\ m.type = "Post" => Recipient(m) \in eligible[e]

\* What a message still has to enqueue lies behind it on the way from ToAll
\* over ascending cursors to the Posts, so that the expansion cannot loop.
ExpansionAdvances ==
    \A w \in Workers : \A m \in Pending(w) :
        /\ pc[w] = "enqueue" /\ batch[w] # <<>>
        /\ m.ev = Current(w).ev
        /\ m.tries = 0
        /\ \/ Current(w).type = "ToAll" /\ m.type = "Batch" /\ m.at = EmptyString
           \/ /\ Current(w).type = "Batch" /\ m.type # "ToAll"
              /\ m.author = Current(w).author
              /\ m.at > Current(w).at

\* An inbox whose server gave its final answer to an event is not sent that
\* event again, unless an invocation died in the middle of a message of it:
\* two pages never share an inbox, and a finished message is acked.
NoPostAfterFinalAnswer ==
    [][\A w \in Workers :
          /\ pc[w] = "next" /\ pc'[w] \in {"finished", "retry"}
          /\ Current(w).ev \notin repeated
          => Recipient(Current(w)) \notin settled[Current(w).ev]]_vars

\* Every announcement comes to its end, whatever fails and however the
\* followers change meanwhile: cursors only ascend, and redeliveries are
\* counted.
FanOutCompletes ==
    \A e \in Events : e \in announced ~> ~Active(e)

\* All of the above in one: the queue, its consumers and their pages keep the
\* promise of Broadcast.
Promise == INSTANCE Broadcast WITH
    follows <- Following,
    open <- {e \in announced : Active(e)},
    reach <- eligible,
    owed <- due,
    told <- settled,
    flawed <- damaged

KeepsPromise == Promise!Spec
===============================================================================
