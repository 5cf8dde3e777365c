# TLA+ specifications of fblog_system

fblog_system publishes a blog as static files and speaks ActivityPub for it: remote servers follow
the blog's users, comment on and like articles, and are told when an article appears, changes or
goes. It runs on Cloudflare Workers (`crates/cloudflare_workers`, the deployment specified here) or
as an in-memory server for the end-to-end tests (`crates/in_memory/server`); the logic both share is
`crates/core`.

Everything asynchronous goes through one queue of jobs, delivered at least once, in any order, in
batches, to invocations that may run side by side and die at any `await`. The state lives in places
that share no transaction: two kinds of D1 tables, an R2 bucket, the deployed assets, and the remote
servers. That is where this program is hard to test, and what the specifications are about.

## Inventory

| Component | State | Operations | Talks to | What makes it correct |
|---|---|---|---|---|
| Article fan-out (`process_queue.rs` 249-523, `lib.rs` 379-409, 520-532) | queue, batches of the consumers, the cursor in each Batch message | ToAll, Batch and Post messages of the three event kinds; ack, retry | queue (itself), followers table, assets, remote inboxes | nobody who keeps following is skipped; only followers are told; no repetition after a final answer; it ends |
| Activity processing (`route/users/inbox.rs`, `process_queue.rs` 37-248) | queue, the step each invocation is at | POST inbox; Create, Like, Follow, Undo | queue, D1, R2, assets, remote actors | an Accept is backed by a row; only the actor ends its follow or like; counts agree with what is stored |
| D1 and R2 stores (`lib.rs` 60-430, `migrations/`) | followers, reactions, reaction_actors, comments; objects | one SQL statement or one put per await | called by the two above | counts never negative; no actor row outlives its Undo |
| Request verification (`common/verify.rs`), user inbox (`route/users/inbox.rs` 13-87) | what of the body has come, the hasher | verify_request, VerifyBody, user_inbox_post | remote key documents, queue | what is queued for an actor is what that actor's key signed; nothing intact is refused |
| Request signing (`common/sign.rs`) | none | sign | remote inboxes | a server running this code verifies it |
| Content negotiation (`common/headers.rs`) | none | HeaderReader::select, is_content_type_ap | | the best type the client accepts |
| WebFinger, Accept page, user pages | none (read the assets, or answer from the query) | GETs | | what the query asks for |
| In-memory server (`crates/in_memory`) | Vec of followers, comments, reactions; channel; `pending_jobs` | same traits, `/job_queue`, `/job_queue_len`, DELETE of an article | the end-to-end tests | `pending_jobs` is 0 only when nothing is left; the paging agrees with D1's |
| Article pages and event documents (`route/articles.rs`, `route/articles/events.rs`) | none (read the assets, await by await) | GETs | assets, counts | an event document is served for what was announced; no page half of one site and half of the next |
| Publishing (`snapshot.sh`, `snapshot_diff.sh`, `update_snapshot.sh`, `send_to_queue.sh`, `deploy_prod.sh`) | snapshot in R2, deployed assets | build, diff, deploy, put, send | queue | each change of the site is announced, and what is announced is served |
| Site generator, preview deployment, CI, test rigs | none, or external | | | not specified (see the end) |

How they interact: a deployment replaces the assets that pages and the fan-out read, and queues one
ToAll message per changed article (`SendBatch` of `Publish`, `Announce` of `Delivery`); a POST that
passes verification is queued (`Enqueue` of `Requests`, `Receive` of `Inbox`); the fan-out reads the
followers table while activity processing changes it; both run in the same `queue_event`, sharing the
queue; the counts are read by the article pages. The behaviours that are hard: pages read one by one
while followers come and go; redelivery after a crash between an effect and its ack; several
statements without a transaction; retries with a limit; lookups of an author that a deployment may
have changed; failures that are logged and then taken for an empty answer. `PROJECT.json` lists each
one at its line, with the properties that cover it, or why none does yet.

## Modules

| Module | What it is |
|---|---|
| `InboxPage` | the page of inboxes a fan-out step reads, as a predicate: what the SQL query with its `LIMIT` answers |
| `Delivery` | the article fan-out, its consumers, environment and failures; extends `InboxPage` |
| `Broadcast` | what announcing promises, without queue, pages or consumers; `Delivery` implements it |
| `Delivery_proofs` | theorems about `Delivery` |
| `Broadcast_proofs` | that `Delivery` implements `Broadcast`; extends `Delivery_proofs` |
| `Inbox` | processing of Create, Like, Follow and Undo, await by await |
| `Inbox_proofs` | theorems about the followers `Inbox` keeps |
| `InboxCounts_proofs` | theorems about its counts, its comments and its types; extends `Inbox_proofs` |
| `FollowerTable` | how the followers table may change; `Inbox` implements it, `Delivery` relies on it |
| `InMemoryServer` | the server the end-to-end tests use: handlers, channel, consumer, `pending_jobs`, its maps; extends `InboxPage` |
| `InMemoryServer_proofs` | theorems about `InMemoryServer` |
| `Publish` | deployments one after another: snapshot, diff, assets, put, send, and what may stop them between |
| `HeaderSelect` | content negotiation, as functions, beside what a client means by an Accept header |
| `HeaderSelect_proofs` | what `Select` returns, for every header |
| `Pages` | the GET handlers for articles and their events while deployments go on; extends `Publish` and `HeaderSelect` |
| `Pages_proofs` | theorems about `Publish` and `Pages` |
| `Requests` | a POST to an inbox from its headers to the queue, a GET from its Accept header to the type of its answer; extends `HeaderSelect` |
| `Requests_proofs` | theorems about `Requests`; extends `HeaderSelect_proofs` |
| `MCDelivery`, `MCInbox`, `MCInMemory`, `MCPages`, `MCRequests` | values for TLC |

Definitions next to which a comment says "a faulty variant" are bugs the code does not have. No
action uses them; they are there so that each property can be seen to fail when one takes the place
of the definition after it (`PROJECT.json`, "mutants").

### Delivery

A message is `[type, ev, author, at, tries]`. The code has ten Delivery message types; New, Update
and Delete differ only in the activity document they post and in whether the author is looked up or
comes along, so the event (`ev`) carries the kind. `at` is `last_inbox` of a Batch and `inbox` of a
Post; inbox URLs are only ever compared, so they are numbers and 0 is the empty string. `tries` is
the platform's redelivery count.

| Code | Action |
|---|---|
| `send_to_queue.sh` | `Announce` |
| replacement of the assets by a deployment | `Redeploy` |
| `add_follower`, `remove_follower_by_actor` | `AddFollower`, `RemoveFollower` |
| a batch arrives in `queue_event` | `ReceiveBatch` |
| `DeliveryNew/UpdateArticleToAll`, `DeliveryDeleteArticleToAll` | `ResolveAuthor`, `ForwardDelete` |
| `Delivery*ArticleBatch` | `ReadPage` |
| each call of `enqueue` | `EnqueueNext`, or `EnqueueFails` |
| `Delivery*Article` | `SendPost` |
| `message.ack()`, `message.retry()` | `Ack`, `Retry` |
| D1 or the assets fail | `QueryFails`, `AssetFails` |
| an invocation dies, or panics | `Crash` |

The points where an invocation can be interrupted are the awaits, so the steps are what happens
between two of them: reading a page and each of the enqueues after it are separate. A message is
redelivered at most `MaxRetries` times; then the platform drops it (no dead-letter queue is
configured in `wrangler.template.toml`). A failed connection to an inbox is `Finished` in the code
and therefore a final answer here, like a success and a 4xx.

Six history variables record what the properties speak of. `due[e]` is who must be told: the
followers when the first Batch of `e` was queued who have not stopped since. `eligible[e]` is who may
be told. `settled[e]` is who answered for good. `damaged` are the events that lost a message or a page
to a failure, `repeated` those whose message was begun and redelivered.

### Inbox

A request that passes the checks of `user_inbox_post` becomes a message, with its body if the
signature was verified, else with its id only. The `Inbox` arm is a chain of steps, `pc`, one per
await, in the order given by `FirstEffect`, `FollowOrder` and `StoreOrder`:

| Activity | Steps |
|---|---|
| Create | `author` (CheckAuthor), `putComment` (PutObject), `countComment` |
| Like | `author`, `putReaction`, `countReaction`, `putActor` |
| Follow | `actor` (FetchActor), `insert` (AddFollower), `accept` (SendAccept) |
| Undo of a Like | `author`, `decrement`, `dropActor` |
| Undo of a Follow | `remove` (RemoveFollower) |

A D1 statement that fails is logged and the next one is run (`StatementFails`); a failing put ends
the processing (`PutFails`). The message is always acked at the end: nothing here asks for a retry,
but a crash has one. Which actor signed a request, if any, is an input: `Requests` are the POSTs that
pass verification. A body fetched by id is any activity that id may serve.

`AuthorOf` is constant: what a deployment does to it meanwhile is specified in `Delivery`, and an
author that cannot be found is `AssetFails` here. Inbox messages and Delivery messages share the queue
and its batches; they do not read each other's state except for the followers table, which is why
they are two modules. `FollowerTable` is the seam: `Inbox` is checked to change the table only as it
allows, which is how `AddFollower` and `RemoveFollower` of `Delivery` change it.

### InMemoryServer

| Code | Action |
|---|---|
| POST `/job_queue`, POST to an inbox | `Count` (`fetch_add`), then `Send` |
| DELETE `/articles/{slug}` | `DeleteArticle` |
| `receiver.recv()` | `Receive` |
| `process_queue`, by the type of the job | `CheckAuthor` then `Effect`; `Follow` then `PostAccept`; `UndoFollow`; `ToAll`; `Batch`; `Post` |
| `enqueue` called by `process_queue` | `CountOwn`, `SendOwn` |
| `fetch_sub` after `process_queue` | `Finish` |
| an `unwrap` that fails in the main task | `Panic`, or a step of `PostAccept` |

The steps are what other tasks of the runtime can see in between: a counter that was raised for a job
not sent yet, an article removed between two locks. A job says what `process_queue` and the maps tell
apart; bodies, authorisation and the check of a Follow's object are in `Inbox`. `get_followers_inbox_batch`
is modelled by what it computes (`MemoryPage`) and compared with `IsPage`, the same predicate `Delivery`
uses for the query. The history variable `table` is what the D1 table would hold after the same jobs.
The consumer's panic unwinds `tokio::join!` and ends the server, so afterwards nothing happens.

### Publish

| Code | Action |
|---|---|
| `build.sh`, `snapshot.sh` | `Build` |
| `update_snapshot.sh`: download, diff | `UpdateSnapshot`, `Diff` |
| `setup_resources.sh`, `wrangler deploy` | `Deploy` |
| `wrangler r2 object put` | `PutSnapshot` |
| each POST of `send_to_queue.sh` | `SendBatch`, or `BatchRefused` |
| the end of the script; `set -e`, a cancelled job | `Finish`; `Abort` |

A document stands for everything the hash of `snapshot.sh` covers; the author is part of it
(`AuthorOf`), because a Delete event names the author the old snapshot has. Two history variables say
what the scripts never look at: `told` is the document of each article the queue has last been given
an event of, and `lost` are the articles of which a mishap lost an event or computed one from a
snapshot that was not the recorded one (it could not be read, and a failed download looks like a
first deployment; the queue refused a batch, and `curl` without `-f` takes that for success; the job
died while sending, after the new snapshot was recorded). An event that gets through puts an article
right again. Deployments do not overlap here; see "Not modelled".

### Pages

| Code | Action |
|---|---|
| `article_or_comments_get`, `article_get`, `article_metadata_get`, `article_*_events_get`, up to the first await | `Arrive` |
| `exists_article`, or the asset of `article_get`, answers | `Exists` |
| `get_author_id(..).await.unwrap()` answers | `Author` |
| a deployment meanwhile | `Publishing`, any step of `Publish` |

Each read sees the assets that are deployed when it is answered, or nothing if the fetch fails; `seen`
collects what the article was, or was read as, while the request was served. A request that panics has
no answer. Reads of counts do not decide anything and are left out.

### Requests

| Code | Action |
|---|---|
| `user_inbox_post` up to `exists_user`; the checks after it and the request that is built anew | `Post`; `ExistsUser`, with `Rebuilt` |
| `verify_request` up to the fetch of the key; the rest of it | `Verifiable`; `FetchKey` |
| `VerifyBody::poll_frame`, under `Limited` | `ReceiveFrame`, `StreamFails` |
| the end of `collect_to_bytes`, and the parsing of the body | `EndOfBody` |
| `enqueue` and the answer | `Enqueue` |
| `HeaderReader::select` in the GET handlers | `Get`, with `Select` of `HeaderSelect` |

A digest is symbolic, the body it was made of, and a signature is its key with the lines it signs; so
a digest fits one body only and nobody signs without the key, but everything about *which* lines are
signed and *what* is compared is as in the code. `finalize` runs twice at the end of every body, from
`poll_frame` and from `collect_to_bytes`; the second call must not compare the hasher the first one
left. A handler only reads its own request, so requests are taken one by one.

`verify_request` does not see the request that arrived. `user_inbox_post` builds another one
(`inbox.rs` 30-39), to `/users/{username}/inbox` with the username the router has decoded, of the
headers whose value is text: percent-encoding and query of the path are gone, and the answer is 400 if no
URI can be built of the username. That is `Rebuilt`. The two conversions in it are constants, since
they belong to the router and to the URI builder: `Username` maps the path and query of a POST to the
username, `InboxUri` maps a username to the path and query of its URI, or to `NoUri`. The value of a
header is `Text`, a `Digest`, or `NotText`. A keyId is the sequence of its parts between `#`s, and the
actor, who is fetched and queued, is the first of them (`ActorUrl`, `verify.rs` 196).

## Runs

| Run | Question | Bounds |
|---|---|---|
| `delivery_failures` | Is anybody skipped while followers change, the article is redeployed, and queue, D1 and assets fail? | 3 actors on 3 inboxes, one shared; pages of 2; batches of 2; 1 retry |
| `delivery_crash` | Do fan-outs still end and keep the promise of `Broadcast` when invocations die at any point, and the queue and D1 fail? | 2 actors on one inbox, batches of 2, 1 redelivery |
| `delivery_workers` | Do two consumers working on one fan-out skip anybody, or go round in circles, although followers never stop changing? Do walks of several pages keep the promise of `Broadcast`? | 3 inboxes, pages of 2, 2 consumers |
| `delivery_users` | Are events of one article and followers of two users kept apart? | 2 users, New and Delete of one article; of the changes only deployments |
| `inbox_follow` | Do rows, Accepts and Undos agree when two consumers take them in any order, die and see D1 fail? | 4 requests, 2 of them Undos not to be obeyed; batches of 2; 1 redelivery |
| `inbox_like` | Is the reaction count right under any interleaving of two actors, with deaths and failures between the statements? | 4 requests; 1 redelivery |
| `inbox_comment` | Is a stored comment counted, and does what was answered 202 come to an end? | 4 requests, one of them for an id at which something else is served later; R2, D1, assets and the consumer fail; 1 redelivery |
| `memory_followers` | Does the in-memory vector page and change as the table does, and is a fan-out over when the counter shows 0? | 3 actors on 2 inboxes, pages of 1, 6 jobs, one of them a second Follow |
| `memory_articles` | Is the counter exact, does it come back to 0, and what can make an unwrap fail? | 2 concurrent handlers, 6 jobs, a DELETE |
| `pages` | Are the changes of the site announced, as they are and not before they are served, whatever deployment dies or loses something; and what do readers find meanwhile? | 2 articles, 2 documents of different authors, batches of 1, every mishap, any number of deployments |
| `pages_delete` | Is there an author wherever the event handlers unwrap one? (No: see below.) | as `pages`, without mishaps |
| `requests` | Does what `sign` leaves pass verification, what was altered not, and is a GET answered with the best type? | 5 bodies, each request as signed and with one thing different (another address, a query, a percent-encoded username, a space or `#` in it, a header that is not text, parts of the signature, ...); frames of any size, 2 keys, keyIds with and without a fragment; Accept headers of up to 3 ranges, 6 sets of types |

Why these bounds are enough to meet the interesting cases. Pages hold 10 inboxes in the code; with
`BatchSize` 1 or 2 and up to three inboxes a walk has a full first page, a page that is partly
filled, a page that is exactly full and last (followed by an empty one), and an inbox shared by two
actors. Two consumers are enough for every race there is between two steps; batches of 2 for a
message that is retried or dies beside another. One redelivery is enough for an effect to happen
twice and for a message to be given up. Two Follow rows of one actor come from its profile changing
between redeliveries. Two documents of different authors are a change of text and of author at once;
two articles and batches of one make a deployment stop between two events. The number of deployments
is not bounded, the state they leave behind is finite. Bodies are sequences of units around a limit
of two, so that one is empty, one at the limit, one above, and a frame can cross it. A choice among
three ranges has every tie of quality and rank that more ranges could. The theorems below hold without these bounds.

In the runs of `Inbox` deadlock is not checked: `MaxPosts` bounds the requests, and when all have
come and been dealt with there is nothing left to do. The same holds for `InMemoryServer`, where each
of `Jobs` comes once and a panic ends the server. In the other runs it is.

### What they show

`Delivery`
- `NoFollowerSkipped`: when nothing of an event is left anywhere, everybody who followed from the
  start of its fan-out to the end has answered, unless a failure lost a message or a page of it.
- `OnlyFollowersNotified`: whoever is posted to followed at some time since the announcement. Followers
  that stop between a page and its Posts are in the runs of `KeepsPromise`, which asks the same, and in the
  theorem.
- `ExpansionAdvances`: what a message enqueues lies ahead of it, so that the chain cannot loop.
- `NoPostAfterFinalAnswer`: no second POST to an inbox that gave a final answer, unless an
  invocation died in the middle of a message of that event.
- `KeepsPromise`: the four sides of it at once, as a refinement of `Broadcast`.
- `FanOutCompletes`: every announcement comes to its end.

`Inbox`
- `AcceptedIsStored`: a server that took an Accept is a follower until its actor signs an Undo.
- `RemovedOnlyByItsActor`: no row of an actor goes without an Undo that actor signed.
- `UndoneNotFollowing`: an Undo sent after its Follows were dealt with leaves no row behind.
- `CountMatchesActors`: the reaction count is the number of actor rows, up to the statements still
  to come, as long as each actor's likes and undos alternate and are undisturbed.
- `StoredCommentsCounted`: a comment in R2 is counted at least once in the end.
- `RequestsComplete`: every request answered 202 comes to an end.
- `KeepsTable`: the followers table changes as `FollowerTable` allows.

`InMemoryServer`
- `PendingCountsAll`: `pending_jobs` counts every job exactly once from its request to its end.
- `SettledMeansDone`: when it is 0, every inbox owed an announcement has had its POST.
- `PagesAgree`: at every cursor the page is the one the Workers query would answer.
- `AgreesWithTable`: an actor is in the vector if and only if it is in the table, unless it followed
  twice: then the vector keeps a row after one Undo, the table none.
- `DownOnlyIfRemoved`: an activity about an article ends the server only if a DELETE came in between.
- `Settles`: the counter comes back to 0 for good, or the server is down, unless another server leaves
  the consumer waiting for ever.

`Publish` (run `pages`)
- `NothingForgotten`: a change the followers were not told of is still to be sent, or the recorded
  snapshot differs from what is served, so that the next deployment finds it.
- `EventsFit`: an event waiting to be sent leads from what the followers were told to what is served,
  a Delete in the name of the author they know.
- `TellsWhatIsServed`: nothing is announced before it is served.

`Pages`
- `AnswersOfSomeMoment`: whatever deployments and failing fetches come between the reads of a handler,
  the answer it gives is due for what the article was, or was read as, at some moment of the request,
  and a panic takes an author that is missing: the article went meanwhile, or the page is that of a
  Delete event (see the finding).
- `AuthorIsThere`, violated: the handler of Delete documents goes on only if there is no article, and
  then unwraps the author of it (`events.rs:91`). On a site nobody touches, every GET of the id of a
  Delete activity this program has posted panics; if the article is back, it is a 404.

`Requests`
- `IntactAccepted`: an activity signed by `sign` for an inbox as this server spells its address
  (`Addressed`), that arrives as it was sent, is queued as verified for that user, if the document of the
  actor, the keyId up to `#`, gives the key, in whatever frames the body comes. For other spellings it
  does not hold: a request signed over a percent-encoded path, or one with a query, is refused although
  nothing happened to it on the way, because its target is built anew.
- `SignedBodyIsQueued`: what is queued in the name of an actor was signed with the key its document
  gave; a signed target is the inbox of the user it is queued for, a signed digest that of the body
  queued, and any other signed line a header that arrived. The target is not that of the request as it
  arrived: a query put there, or an encoding changed, on the way makes no difference.
- `OnlyWholeBodies`: what is queued came in whole, within the limit, and with its body if and only if
  an actor answers for it.
- `NegotiatesBest`: the answer of a GET is a type of the highest quality there is, and the one the
  server prefers among those, against a reference definition. A quality of 0 counts as low here as in
  the code, not as a refusal; and a more specific range does not override a wildcard, as in
  `headers.rs` 56-90 (`text/html;q=0.1, */*` is answered with HTML).

What the excuses in these properties say about the code is as important as what is left. A failing
D1 query during a fan-out is taken for the end of the walk and the message is acked; a failing enqueue
is logged and acked. A like that is redelivered after its count was raised is counted twice; so is a
second like of the same actor, and an Undo without a like counts somebody else's down. A Follow
redelivered after its own Undo brings the row back; `UndoneNotFollowing` therefore asks that the
Follow had been acked when the Undo came. A comment stored but not yet counted when the consumer dies
stays uncounted if it was unverified and its id can no longer be fetched, or serves something else by
then: the redelivery stores and counts that. A deployment that dies
after it recorded the new snapshot never sends the events that are left, and nothing later makes up
for them until the article changes again; a download that fails announces everything as new. A
deployment that dies earlier loses nothing: that is what the order of `deploy_prod.sh` is good for, and
what the first two properties of `Publish` show. A POST whose signature cannot be checked (no key, an
unknown algorithm, a missing header) is queued without its body; one whose signature is wrong is
refused; if the digest is not among the signed headers, none is compared.

## Fairness

`FairSpec` of both modules asks for weak fairness of the consumers' steps taken together: the platform
keeps invoking `queue_event` while messages wait, and an invocation that does not die gets on. No
fairness is asked of any particular consumer or message, of the environment, or of failures, and none
is needed: redeliveries are counted, cursors only ascend among finitely many inboxes, and requests
are bounded. In `Delivery` Follow and Undo may go on for ever while a fan-out runs.

`Publish`, `Pages` and `Requests` state none and claim safety only: a person starts deployments, a failed
one is not tried again by anything, and a client may leave in the middle of a body.

An invocation that waits for a remote server does get on there: the platform limits how long it may
run, and one that is ended for it is a `Crash`. In `delivery_workers`, where nothing fails, every POST
is answered.

`Spec` of `InMemoryServer` asks it of each handler that has counted its job, and of the main task only
where it does not wait for another server: tokio runs every ready task, and neither waits for the
other, but nothing makes a remote server answer. The client is built without a timeout (`main.rs`
59-75) and awaited by the only consumer (`main.rs` 222, 384). `AwaitsPeer` says where: the body of an
activity, a profile, the answer to a POST. `Settles` is therefore conditional on `[]<>~AwaitsPeer`: every
such wait ends, with an answer or an error.

## Proofs

The theorems hold for every value of the constants that satisfies the assumptions named in the
modules. Every invariant and every action property that a run of the previous section checks is
proved; so is the refinement of `Broadcast`, and that of `FollowerTable`.

### Assumptions

They say what the constants are, and are evaluated by TLC on every run. Inbox URLs and cursors are
numbers with the empty string below them (`InboxesAssumption`); an event of a Delete carries its author
and no other does (`EventsAssumption`); limits are numbers; `None` and the like are not among the values
they stand beside. Beyond that:
- `WorkersAssumption`, `HandlersAssumption`: finitely many invocations run at once. The counts of
  `Inbox` and the counter of the in-memory server are compared with the number of them.
- `AcceptAssumption`, `ProductsAssumption`: headers are sequences of ranges, and the server picks among
  its own types.
- `PostsAssumption`: a POST has the five parts the code reads, and its body is a sequence; its headers
  and the actor of its keyId have values. `TrustAssumption`: what `verify_request` answers differs from
  `None`, which TLA+ does not know by itself of a record. Nothing is assumed of `Username` and `InboxUri`.

No theorem bounds the number of retries, pages, followers, deployments or requests.

### Delivery

| Theorem | States |
|---|---|
| `TypeCorrect` | `Spec => []TypeOK` |
| `NobodySkipped` | `Spec => []NoFollowerSkipped` |
| `OnlyFollowers` | `Spec => []OnlyFollowersNotified` |
| `Advances` | `Spec => []ExpansionAdvances` |
| `NeverTwice` | `Spec => NoPostAfterFinalAnswer` |
| `DeliveryKeepsPromise` (`Broadcast_proofs`) | `Spec => KeepsPromise` |

`NoFollowerSkipped` only speaks about the end of a fan-out, so it is not inductive. The invariant
`IndInv` adds what holds on the way:
- `Covered`, the heart of it: everybody due and not settled is waiting for some message in flight, a
  Post to its inbox or a Batch whose cursor is still below it. A page hands everybody above its cursor
  over, either to a Post of the page or, if the page is full, to the next Batch, because a full page
  ends at an inbox and leaves out only larger ones. This is where the order of the query is needed.
- `WorkersAligned`: a consumer that holds enqueues to make is at the message they come from.
- `AnnouncedOnly`: messages in flight are of announced events.
- `DueFollow`: whoever is due follows now.
- `ExpansionAdvances` and `OnlyFollowersNotified` themselves.

`NeverTwice` needs the opposite of `Covered`: not at least one message on the way to a recipient, but
at most one. A *place* (`IsPlace`) is where an event can still reach the recipient from, or has: a
copy in the queue, an entry of a batch or of what is to be enqueued, the announcement still to come, the
final answer. `OneWay` says that any two places of an event and a recipient are one. Each action moves a
place or ends it: a page and the Batch after it share nobody (`ExpansionOneWay`), a batch takes as many
copies as the queue loses (`ReceiveOneWay`), a message that is put back was in the batch before
(`PutBackOneWay`). A crash makes a second place in one case only: the message was begun, and what it
enqueued is in the queue as well. That is when the event becomes `repeated`, and why the property
excuses it. A Post that is taken up is a place, so the final answer is none yet.

For `DeliveryKeepsPromise` an announcement is open as long as a message of it is in flight, and each
step is mapped to one step of `Broadcast` or to none. Most of it is about which steps close an
announcement: a consumer opens none (`OpensNone`), what it works on stays open while it enqueues, and
only the acknowledgement of the last message, or its loss, closes one (`StaysOpen`). That `Broadcast`
may close it then, everybody owed having been told, is `NoFollowerSkipped` of the state after it. A message
the platform drops is a failure of `Broadcast`.

### Inbox

| Theorem | States |
|---|---|
| `AcceptCanBeReliedOn` | `Spec => []AcceptedIsStored` |
| `OnlyItsActorRemoves` | `Spec => RemovedOnlyByItsActor` |
| `InboxKeepsTable` | `Spec => KeepsTable`, the step simulation of `FollowerTable` |
| `CountsAreOfActors` (`InboxCounts_proofs`, as those below) | `Spec => []CountMatchesActors` |
| `WhoLeftIsGone` | `Spec => []UndoneNotFollowing` |
| `CommentsAreCounted` | `Spec => []StoredCommentsCounted` |
| `InboxTypes` | `Spec => []TypeOK` |

A step looks only at the message and the activity in hand, so the invariant says where they come from:
`AllGenuine`, every message in flight was queued for a request that came; `InStep`, a consumer
past the first step of a message has an activity of it that was admissible and is of the type the step
is for. `RowBeforeAccept` is what makes an Accept reliable: at the step that sends it the row is there,
or an Undo its actor signed has taken it, or the statement that stores it has failed. For the table,
`InboxKnown` adds that the inbox about to be stored is one the actor's profile gives.

- Counts (`ReactionsInv`). The equation of `CountMatchesActors` is preserved by each statement only if
  the row a `putActor` will write is not there and the row a `dropActor` will delete is, and if no two
  consumers are at the row of one actor. Subtracting one must not go below zero: the consumers between
  the two statements of an Undo are at rows of different actors, so that there are at most as many of
  them as rows.
- Follows taken back (`LeftInv`). Once an actor has left, no Follow of it is still to come, and either
  its rows are gone, or an Undo that will delete them is in flight, or a failure spoiled one.
- Comments (`CommentsInv`). The objects in R2 that nobody is still going to count are at most as many
  as were counted. An object whose consumer dies before counting it is counted by the redelivery, which
  finds the object there already; if that fetches another activity at the same id, it is excused.

### In-memory server

| Theorem | States |
|---|---|
| `PendingIsExact` | `Spec => []PendingCountsAll` |
| `ZeroMeansNothingLeft` | `Spec => []NothingLeft`: at 0 the channel is empty, no handler is between count and send, the consumer waits |
| `OnlyRemovalEndsServer` | `Spec => []DownOnlyIfRemoved` |
| `MemoryPagesAgree` | `Spec => []PagesAgree` |
| `VectorAgreesWithTable` | `Spec => []AgreesWithTable` |
| `SettledIsDone` | `Spec => []SettledMeansDone` |
| `TypesKept` | `Spec => []TypeOK` |

`CountInv` is the equation of `PendingCountsAll` with the types its arithmetic needs. `EffectInv` adds
that a job past the check of the author finds its article or a DELETE came since it was received.
`JobsInv` says which jobs there are and where. The page of the in-memory server is the sorted set of
inboxes above the cursor, cut off: the inbox at position k is the one with k - 1 others below it, which
makes it the page of the query. `AgreesInv` adds that an actor which followed once has one row at most, so that
removing the first is removing all, as the `DELETE` does. `OwedInv` is `Covered` of `Delivery` for the
one consumer here: whoever is owed a POST has had it, or a job still leads to it; at 0 nothing is left
(`ZeroMeansNothingLeft`), so it had it.

### Publishing and pages

`Pages_proofs` proves, for any articles, documents, authors, batch size and mishaps:

| Theorem | States |
|---|---|
| `PublishTypeCorrect` | `Spec => []TypeOK` |
| `ChangesAreNotForgotten` | `Spec => []NothingForgotten` |
| `EventsAreRight` | `Spec => []EventsFit` |
| `AnnouncedIsServed` | `Spec => TellsWhatIsServed` |
| `PagesPublish` | `PagesSpec => Spec`: what serves pages disturbs no deployment, so that the theorems above hold of `Pages` |
| `AnswersFitTheSite` | `PagesSpec => AnswersOfSomeMoment` |

`NothingForgotten` and `EventsFit` speak of what was told and what is served, while the scripts only
compare snapshots. `RecordedIsTold` ties them together: except for events still to be sent and articles
that are `lost`, the recorded snapshot is what was told. `LeadToNew` and `OneEach` say that the events
computed lead from the old snapshot to the new site, one for each article (`DiffLeads`: so does `Diff`),
and `InOrder` what the order of the steps gives. For `AnswersFitTheSite`, `seen`
holds the article as it is, everything the handler has read, and, for a handler that waits for the author, the
read its first check passed on.

### Requests and content negotiation

| Theorem | States |
|---|---|
| `SelectIsBest` (`HeaderSelect_proofs`) | for every header and every set of types, `Select` gives the answer `IsBestAnswer` describes |
| `NegotiationIsBest` | `Spec => []NegotiatesBest` |
| `OnlyWholeBodiesQueued` | `Spec => []OnlyWholeBodies` |
| `QueuedIsSigned` | `Spec => []SignedBodyIsQueued` |
| `SignedIsAccepted` | `Spec => []IntactAccepted` |
| `RequestTypes` | `Spec => []TypeOK` |

`Select` orders the ranges by what each of them would be answered with, and takes the greatest; the
reference looks for the highest quality first and for the preferred type among all ranges of it. They
agree because a range stands for the most preferred type it covers (`TriedCovers`, `FoundIsPreferred`)
and because quality and preference make one order in which every finite set of offers has a greatest
(`BestOffer`).

`OnlyWholeBodies` and `SignedBodyIsQueued` speak of the message a request ends in; the invariant
follows the request there. `HasherHoldsReceived`: until the last frame the hasher holds exactly what has
come of the body, so that what is compared at the end is the digest of all of it, although `finalize`
empties the hasher. `TrustIsSigned`: an actor is trusted only for lines its fetched key signed, with the
digest those lines carry. `BodyChecked`: what is about to be queued has passed both. For the
other direction, `SignedIsVerifiable` says that what `sign` leaves, once it is rebuilt, has every part
`verify_request` looks for and the very lines it builds, provided the address is spelled as the server
spells it, and `IntactInv` follows such a request, with the digest of its body, to the
queue.

### What is not proved

The liveness properties `FanOutCompletes`, `RequestsComplete` and `Settles` are only model-checked:
liveness under fairness, and `ENABLED`, are out of the prover's reach. So is `AuthorIsThere`, which does
not hold. TLC has checked the inductive invariants on the instances of the runs before they were proved,
`IndInv` and `OneWayEach` of `Delivery` on all four of its.

Two things the proofs shaped. `tlapm` knows no definition of `SelectSeq`, so what the code filters is a
set, or a sequence described by what it contains. Induction over data is not available as a theorem with
an operator for a parameter, but the principle of the least number is a statement about sets
(`WFMin` with `NatLessThanWellFounded`), and greatest offers, first rows and sorted pages rest on it.

## Plan

1. `Delivery` and `Inbox`: done, with theorems about both.
2. `InMemoryServer`: done, with theorems.
3. `Publish` and `Pages`: done, with theorems.
4. `Requests` and `HeaderSelect`: done, with theorems.
5. `Broadcast` and `FollowerTable`, what the rest promises: done, refinements proved.
6. What could follow: that an `Undo` of `Delivery` and one of `Inbox` is the same step, as a composition
   of the two modules rather than through `FollowerTable`; the variant of a fan-out (cursors only ascend,
   redeliveries are counted) as an action property, which is the safety half of `FanOutCompletes`.

## Not modelled

- Deployments that overlap. Two of them could run side by side and overwrite each other's
  snapshot; nothing in the scripts or the deployment action is meant to deal with it, and there is no
  property of the code to state.
- The contents of documents (the activity JSON, HTML, dates): nothing decides on them after they are
  made. Digests and signatures are symbolic.
- WebFinger, the Accept page and the user pages: each is one read of an asset, or none, and an answer
  that depends on nothing else. How they choose a type is in `Requests`.
- The JSON macro, the site generator and its plugins: pure functions from text to text.
- The preview deployment (it announces nothing), resource setup, CI and the container test rigs.

Cloudflare Queues, D1 and R2 are external: they appear as far as the
code's use of them shows, a queue that delivers at least once with a retry limit, statements and puts
that are atomic one by one, may fail, and are not undone.
