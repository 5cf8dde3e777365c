---------------------------- MODULE InMemoryServer ----------------------------
(***************************************************************************)
(* The in-memory server the end-to-end tests run against.  Handlers of     *)
(* HTTP requests put jobs into an unbounded channel; one consumer takes    *)
(* them out in order and processes each with process_queue, which may put  *)
(* more jobs in.  pending_jobs is raised before a job is sent and lowered  *)
(* after it was processed; the tests wait until /job_queue_len shows 0.    *)
(*                                                                         *)
(* Articles, users and their followers are kept in maps behind locks, each *)
(* held for one access only.  The consumer ignores what process_queue      *)
(* answers, so nothing is retried, and its panic ends the server.          *)
(***************************************************************************)
EXTENDS InboxPage, FiniteSets

CONSTANTS
    Users,      \* local users
    Slugs,      \* articles
    AuthorOf,   \* slug -> author, as long as the article exists
    Actors,     \* remote actors
    InboxOf,    \* actor -> its inbox
    Jobs,       \* the jobs that come from outside, each at most once
    Handlers,   \* HTTP requests that can be handled at the same time
    None

\* Jobs, as far as process_queue tells them apart at this server.  Batch and
\* Post only come from other jobs; "user" of a ToAll is the author that comes
\* with a Delete, None with New and Update.
JobTypes == {"Create", "Like", "UndoLike", "Follow", "UndoFollow", "ToAll", "Batch", "Post"}
AboutArticle == {"Create", "Like", "UndoLike"}
Job == [type : JobTypes, slug : Slugs \cup {None}, user : Users \cup {None},
        actor : Actors \cup {None}, at : Cursors]
Fanned(type, slug, user, at) ==
    [type |-> type, slug |-> slug, user |-> user, actor |-> None, at |-> at]

ASSUME JobsAssumption ==
    /\ Jobs \subseteq {j \in Job : j.type \notin {"Batch", "Post"}}
    /\ \A j \in Jobs : j.type \in AboutArticle \cup {"ToAll"} => j.slug \in Slugs
    /\ \A j \in Jobs : j.type # "ToAll" => j.user \in Users /\ j.actor \in Actors
ASSUME AuthorOfAssumption == AuthorOf \in [Slugs -> Users]
ASSUME InboxOfAssumption == InboxOf \in [Actors -> Inboxes]
ASSUME HandlersAssumption == IsFiniteSet(Handlers)
ASSUME NoneAssumption == None \notin Users \cup Slugs \cup Actors \cup Job

VARIABLES
    articles,   \* slugs in the articles map
    comments,   \* slug -> comments.len()
    reactions,  \* slug -> author ids of the reactions vector
    followers,  \* user -> vector of the actors that follow, with their inboxes
    channel,    \* jobs sent and not received
    pending,    \* pending_jobs
    handler,    \* handler -> the job it has counted and not sent yet, or None
    pc,         \* where the consumer is
    job,        \* the job it processes
    todo        \* the jobs it still has to enqueue

\* History.
VARIABLES
    table,      \* the rows a table that loses all rows of an actor would hold
    again,      \* <<user, actor>> that followed while following, until none is left
    owed,       \* <<user, slug, inbox>> of the followers when a fan-out began, as long
                \*   as they follow
    posted,     \* <<user, slug, inbox>> a POST was tried for
    removed,    \* slugs deleted since the consumer received its job
    submitted   \* the jobs that came in; the bound on them

maps == <<articles, comments, reactions, followers>>
consumer == <<pc, job, todo>>
history == <<table, again, owed, posted, removed, submitted>>
vars == <<maps, channel, pending, handler, consumer, history>>

-------------------------------------------------------------------------------
(* get_followers_inbox_batch.                                              *)

InboxesIn(vec) == {vec[k].inbox : k \in DOMAIN vec}
ActorsIn(vec) == {vec[k].id : k \in DOMAIN vec}

\* The members of a finite set of numbers, in ascending order.
Ascending(S) ==
    CHOOSE s \in [1..Cardinality(S) -> S] : \A j, k \in DOMAIN s : j < k => s[j] < s[k]

\* sort and dedup
Unique(vec) == Ascending(InboxesIn(vec))

\* binary_search: how many to skip, one more if the cursor is found.  Faulty
\* variants: never one more, and always.
SkipBefore(unique, last) == Cardinality({k \in DOMAIN unique : unique[k] < last})
SkipNext(unique, last) == SkipBefore(unique, last) + 1
Skip(unique, last) ==
    LET before == Cardinality({k \in DOMAIN unique : unique[k] < last})
    IN  IF \E k \in DOMAIN unique : unique[k] = last THEN before + 1 ELSE before

\* push until the ArrayVec is full
MemoryPage(vec, last) ==
    LET unique == Unique(vec)
        start == Skip(unique, last)
        room == Len(unique) - start
    IN  SubSeq(unique, start + 1, start + IF room < BatchSize THEN room ELSE BatchSize)

-------------------------------------------------------------------------------
Init ==
    /\ articles = Slugs
    /\ comments = [s \in Slugs |-> 0]
    /\ reactions = [s \in Slugs |-> <<>>]
    /\ followers = [u \in Users |-> <<>>]
    /\ channel = <<>>
    /\ pending = 0
    /\ handler = [h \in Handlers |-> None]
    /\ pc = "recv" /\ job = None /\ todo = <<>>
    /\ table = {} /\ again = {} /\ owed = {} /\ posted = {}
    /\ removed = {} /\ submitted = {}

\* The main task has not been killed by a panic.
Up == pc # "down"

-------------------------------------------------------------------------------
(* Handlers.                                                               *)

\* POST to an inbox or to /job_queue: pending_jobs is raised, and then the job
\* is sent; a faulty variant does not count.
CountNoRequest(h, j) ==
    /\ Up
    /\ j \notin submitted
    /\ handler[h] = None
    /\ handler' = [handler EXCEPT ![h] = j]
    /\ submitted' = submitted \cup {j}
    /\ UNCHANGED <<maps, channel, pending, consumer, table, again, owed, posted, removed>>
Count(h, j) ==
    /\ Up
    /\ j \notin submitted
    /\ handler[h] = None
    /\ pending' = pending + 1
    /\ handler' = [handler EXCEPT ![h] = j]
    /\ submitted' = submitted \cup {j}
    /\ UNCHANGED <<maps, channel, consumer, table, again, owed, posted, removed>>

Send(h) ==
    /\ Up
    /\ handler[h] # None
    /\ channel' = Append(channel, handler[h])
    /\ handler' = [handler EXCEPT ![h] = None]
    /\ UNCHANGED <<maps, pending, consumer, history>>

\* DELETE /articles/{slug}
DeleteArticle(s) ==
    /\ Up
    /\ s \in articles
    /\ articles' = articles \ {s}
    /\ removed' = removed \cup {s}
    /\ UNCHANGED <<comments, reactions, followers, channel, pending, handler, consumer,
                   table, again, owed, posted, submitted>>

-------------------------------------------------------------------------------
(* The consumer.                                                           *)

Receive ==
    /\ pc = "recv"
    /\ channel # <<>>
    /\ job' = Head(channel)
    /\ channel' = Tail(channel)
    /\ pc' = "start"
    /\ removed' = {}
    /\ UNCHANGED <<maps, pending, handler, todo, table, again, owed, posted, submitted>>

Starts(types) == pc = "start" /\ job.type \in types

\* An activity about an article: get_author_id, unless its body had to be
\* fetched and was not; a faulty variant does not ask whether the article exists.
CheckName ==
    /\ Starts(AboutArticle)
    /\ \/ pc' = IF AuthorOf[job.slug] = job.user THEN "effect" ELSE "processed"
       \/ pc' = "processed"
    /\ UNCHANGED <<maps, channel, pending, handler, job, todo, history>>
CheckAuthor ==
    /\ Starts(AboutArticle)
    /\ \/ pc' = IF job.slug \in articles /\ AuthorOf[job.slug] = job.user
                THEN "effect" ELSE "processed"
       \/ pc' = "processed"
    /\ UNCHANGED <<maps, channel, pending, handler, job, todo, history>>

\* retain: the reactions of others than a, in the order they were in.
RetainOthers(vec, a) ==
    LET kept == Ascending({k \in DOMAIN vec : vec[k] # a})
    IN  [n \in DOMAIN kept |-> vec[kept[n]]]

\* add_comment, add_reaction, remove_reaction_by: get_mut(slug).unwrap()
Effect ==
    /\ pc = "effect"
    /\ job.slug \in articles
    /\ comments' = IF job.type = "Create" THEN [comments EXCEPT ![job.slug] = @ + 1]
                   ELSE comments
    /\ reactions' = CASE job.type = "Like" -> [reactions EXCEPT ![job.slug] = Append(@, job.actor)]
                      [] job.type = "UndoLike" ->
                           [reactions EXCEPT ![job.slug] = RetainOthers(@, job.actor)]
                      [] OTHER -> reactions
    /\ pc' = "processed"
    /\ UNCHANGED <<articles, followers, channel, pending, handler, job, todo, history>>

\* An unwrap panics in the main task, and the server is down: the article is
\* gone, or an inbox is no URI.
Panic ==
    /\ \/ pc = "effect" /\ job.slug \notin articles
       \/ Starts({"Post"})
    /\ pc' = "down"
    /\ UNCHANGED <<maps, channel, pending, handler, job, todo, history>>

\* Follow: the actor's profile is fetched and add_follower pushes, or nothing
\* comes of it.
Follow ==
    /\ Starts({"Follow"})
    /\ LET u == job.user
           a == job.actor
           row == [id |-> a, inbox |-> InboxOf[a]]
       IN  \/ /\ followers' = [followers EXCEPT ![u] = Append(@, row)]
              /\ table' = table \cup {<<u, a, InboxOf[a]>>}
              /\ again' = again \cup IF a \in ActorsIn(followers[u]) THEN {<<u, a>>} ELSE {}
              /\ pc' = "accept"
           \/ /\ pc' = "processed"
              /\ UNCHANGED <<followers, table, again>>
    /\ UNCHANGED <<articles, comments, reactions, channel, pending, handler, job, todo,
                   owed, posted, removed, submitted>>

\* The Accept is posted; an error answer that breaks off makes an unwrap panic.
PostAccept ==
    /\ pc = "accept"
    /\ pc' \in {"processed", "down"}
    /\ UNCHANGED <<maps, channel, pending, handler, job, todo, history>>

\* remove_follower_by_actor removes the first row of the actor only; a faulty
\* variant goes by its inbox.
WithoutAt(vec, gone) ==
    IF gone = {} THEN vec
    ELSE LET first == CHOOSE k \in gone : \A j \in gone : k <= j
         IN  SubSeq(vec, 1, first - 1) \o SubSeq(vec, first + 1, Len(vec))
WithoutInbox(vec, a) == WithoutAt(vec, {k \in DOMAIN vec : vec[k].inbox = InboxOf[a]})
WithoutActor(vec, a) == WithoutAt(vec, {k \in DOMAIN vec : vec[k].id = a})

UndoFollow ==
    /\ Starts({"UndoFollow"})
    /\ followers' = [followers EXCEPT ![job.user] = WithoutActor(@, job.actor)]
    /\ table' = {r \in table : ~(r[1] = job.user /\ r[2] = job.actor)}
    /\ again' = IF job.actor \in ActorsIn(followers'[job.user]) THEN again
                ELSE again \ {<<job.user, job.actor>>}
    /\ owed' = {p \in owed : p[1] # job.user \/ p[3] \in InboxesIn(followers'[job.user])}
    /\ pc' = "processed"
    /\ UNCHANGED <<articles, comments, reactions, channel, pending, handler, job, todo,
                   posted, removed, submitted>>

\* ToAll: the author of an article that exists, or the one that came with it.
ToAll ==
    /\ Starts({"ToAll"})
    /\ LET u == CASE job.user # None -> job.user
                  [] job.user = None /\ job.slug \in articles -> AuthorOf[job.slug]
                  [] OTHER -> None
       IN  /\ todo' = IF u = None THEN <<>> ELSE <<Fanned("Batch", job.slug, u, EmptyString)>>
           /\ owed' = owed \cup IF u = None THEN {} ELSE {u} \X {job.slug} \X InboxesIn(followers[u])
    /\ pc' = "enqueue"
    /\ UNCHANGED <<maps, channel, pending, handler, job, table, again, posted, removed,
                   submitted>>

\* Batch: the next Batch if the page is full, and a Post for each inbox of it.
Batch ==
    /\ Starts({"Batch"})
    /\ LET page == MemoryPage(followers[job.user], job.at)
           more == IF IsFull(page) THEN <<Fanned("Batch", job.slug, job.user, NextLast(page))>>
                   ELSE <<>>
       IN  todo' = more \o [k \in DOMAIN page |-> Fanned("Post", job.slug, job.user, page[k])]
    /\ pc' = "enqueue"
    /\ UNCHANGED <<maps, channel, pending, handler, job, history>>

\* Post: whatever the answer, the consumer does not look at the result.
Post ==
    /\ Starts({"Post"})
    /\ posted' = posted \cup {<<job.user, job.slug, job.at>>}
    /\ pc' = "processed"
    /\ UNCHANGED <<maps, channel, pending, handler, job, todo, table, again, owed, removed,
                   submitted>>

\* enqueue, in the two steps other tasks can see.
CountNone ==                                                  \* a faulty variant
    /\ pc = "enqueue" /\ todo # <<>>
    /\ pc' = "send"
    /\ UNCHANGED <<maps, channel, pending, handler, job, todo, history>>
CountOwn ==
    /\ pc = "enqueue" /\ todo # <<>>
    /\ pending' = pending + 1
    /\ pc' = "send"
    /\ UNCHANGED <<maps, channel, handler, job, todo, history>>
SendOwn ==
    /\ pc = "send"
    /\ channel' = Append(channel, Head(todo))
    /\ todo' = Tail(todo)
    /\ pc' = "enqueue"
    /\ UNCHANGED <<maps, pending, handler, job, history>>

\* process_queue returned; its result is dropped.  A faulty variant lowers the
\* counter only for a result other than Retry.
Done == pc = "processed" \/ (pc = "enqueue" /\ todo = <<>>)
FinishUnlessRetry ==
    /\ Done
    /\ \/ pending' = pending - 1
       \/ job.type = "Post" /\ pending' = pending
    /\ pc' = "recv"
    /\ job' = None
    /\ UNCHANGED <<maps, channel, handler, todo, history>>
Finish ==
    /\ Done
    /\ pending' = pending - 1
    /\ pc' = "recv"
    /\ job' = None
    /\ UNCHANGED <<maps, channel, handler, todo, history>>

-------------------------------------------------------------------------------
Consume ==
    \/ Receive \/ CheckAuthor \/ Effect \/ Panic \/ Follow \/ PostAccept \/ UndoFollow
    \/ ToAll \/ Batch \/ Post \/ CountOwn \/ SendOwn \/ Finish
Request ==
    \/ \E h \in Handlers : Send(h) \/ \E j \in Jobs : Count(h, j)
    \/ \E s \in Slugs : DeleteArticle(s)
Next == Consume \/ Request

\* The consumer waits for another server, through a client without a timeout: for
\* the body of an activity, a profile, or the answer to a POST.
AwaitsPeer == pc = "accept" \/ Starts(JobTypes \ {"ToAll", "Batch"})

\* tokio runs the main task and the handlers it has accepted.  Nothing makes
\* another server answer.
Spec ==
    /\ Init /\ [][Next]_vars
    /\ WF_vars(~AwaitsPeer /\ Consume)
    /\ \A h \in Handlers : WF_vars(Send(h))

-------------------------------------------------------------------------------
(* Properties.                                                             *)

Follower == [id : Actors, inbox : Inboxes]
Consumer == {"recv", "start", "effect", "accept", "enqueue", "send", "processed", "down"}

\* pending_jobs is unsigned: it is never lowered below zero.
TypeOK ==
    /\ articles \in SUBSET Slugs
    /\ comments \in [Slugs -> Nat]
    /\ reactions \in [Slugs -> Seq(Actors)]
    /\ followers \in [Users -> Seq(Follower)]
    /\ channel \in Seq(Job)
    /\ pending \in Nat
    /\ handler \in [Handlers -> Job \cup {None}]
    /\ pc \in Consumer
    /\ job \in Job \cup {None} /\ (pc # "recv" => job # None)
    /\ todo \in Seq(Job)

Counted == {h \in Handlers : handler[h] # None}
InHand == (IF pc = "recv" THEN 0 ELSE 1) + (IF pc = "send" THEN 1 ELSE 0)

\* pending_jobs counts every job somewhere between the request and the end of
\* its processing exactly once: the jobs in the channel, those a handler has
\* counted and not sent, the one in hand, and the one that is being enqueued.
PendingCountsAll == pending = Len(channel) + Cardinality(Counted) + InHand

\* When /job_queue_len shows 0, every inbox that followed an author when an
\* announcement began, and still does, has had its POST: what the end-to-end
\* tests wait for.
SettledMeansDone == pending = 0 => owed \subseteq posted

\* get_followers_inbox_batch answers what the query of the Workers deployment
\* would, at every cursor, whatever rows the vector holds.
PagesAgree ==
    \A u \in Users, c \in Cursors :
        IsPage(MemoryPage(followers[u], c), InboxesIn(followers[u]), c)

\* The vector holds the rows the table of the Workers deployment would hold,
\* except for an actor that followed again while following: the vector keeps a
\* row for each time, and loses one at a time.
AgreesWithTable ==
    \A u \in Users, a \in Actors :
        <<u, a>> \notin again =>
            (a \in ActorsIn(followers[u]) <=> \E r \in table : r[1] = u /\ r[2] = a)

\* The unwraps of add_comment, add_reaction and remove_reaction_by only fail if
\* DELETE removed the article while the activity was processed: an article that
\* was missing before is found missing by get_author_id.
DownOnlyIfRemoved ==
    pc = "down" /\ job.type \in AboutArticle => job.slug \in removed

\* The fan-outs end and the counter comes back to 0, unless a panic ended the
\* server or another server leaves the only consumer waiting for ever: the
\* end-to-end tests do not wait for ever on this server's account.
Settles == []<>~AwaitsPeer => <>[](pending = 0 \/ ~Up)
===============================================================================
