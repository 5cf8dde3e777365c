-------------------------------- MODULE Publish --------------------------------
(***************************************************************************)
(* One deployment after another of a blog: deploy_prod.sh builds the site, *)
(* compares it with the snapshot the last deployment left in R2, replaces  *)
(* the deployed assets, stores the new snapshot and sends the differences  *)
(* to the queue as events, in batches.  Every step may be the last one:    *)
(* the scripts run under "set -e" and nothing is undone.                   *)
(***************************************************************************)
EXTENDS Integers, FiniteSets

CONSTANTS
    Slugs,      \* articles
    Documents,  \* contents of an article, as far as the hash tells them apart
    Authors,    \* users that write articles
    AuthorOf,   \* attributedTo of a document, which the hash covers
    Missing,    \* no document
    None,       \* no author
    BatchSize,  \* BATCH_SIZE of send_to_queue.sh
    Mishaps     \* what may go wrong

MishapKinds == {"read", "refuse", "abort"}

ASSUME DocumentsAssumption == Missing \notin Documents
ASSUME AuthorsAssumption == None \notin Authors /\ AuthorOf \in [Documents -> Authors]
ASSUME BatchSizeAssumption == BatchSize \in Nat \ {0}
ASSUME MishapsAssumption == Mishaps \subseteq MishapKinds

\* What a build yields, what is deployed, and what a snapshot records of it.
\* An R2 object that was never put reads like the snapshot of an empty site.
Site == [Slugs -> Documents \cup {Missing}]
EmptySite == [s \in Slugs |-> Missing]

Event == [kind : {"New", "Update"}, slug : Slugs, author : {None}]
           \cup [kind : {"Delete"}, slug : Slugs, author : Authors]

VARIABLES
    pc,         \* the step deploy_prod.sh is at
    old, new,   \* article_snapshot_old and article_snapshot_new
    events,     \* events.jsonl, without the batches already sent
    deployed,   \* the site that is served
    recorded    \* the snapshot in the bucket

\* History of what the followers were led to believe.
VARIABLES
    told,       \* slug -> the document last announced, Missing if none or gone
    lost        \* slugs of which an event was lost, or told once too often

script == <<pc, old, new, events>>
published == <<deployed, recorded, told, lost>>
vars == <<script, published>>

-------------------------------------------------------------------------------
(* snapshot_diff.sh.                                                       *)

\* A line of the snapshots joined by slug; a document stands for its author
\* and its hash.
AnyDocument(o, n) == TRUE                                     \* a faulty variant
Changed(o, n) == o # n

NewOrUpdate(kind, s) == [kind |-> kind, slug |-> s, author |-> None]
Unattributed(s, o) == NewOrUpdate("Delete", s)                \* a faulty variant
Delete(s, o) == [kind |-> "Delete", slug |-> s, author |-> AuthorOf[o]]

Diff(before, after) ==
    {NewOrUpdate("New", s) : s \in {t \in Slugs : before[t] = Missing /\ after[t] # Missing}}
      \cup {Delete(s, before[s]) : s \in {t \in Slugs : before[t] # Missing /\ after[t] = Missing}}
      \cup {NewOrUpdate("Update", s) :
              s \in {t \in Slugs : /\ before[t] # Missing /\ after[t] # Missing
                                   /\ Changed(before[t], after[t])}}

-------------------------------------------------------------------------------
Init ==
    /\ pc = "idle"
    /\ old = EmptySite /\ new = EmptySite /\ events = {}
    /\ deployed = EmptySite /\ recorded = EmptySite
    /\ told = EmptySite /\ lost = {}

\* The order of the steps in deploy_prod.sh.
PutFirst(step) ==                                             \* a faulty variant
    CASE step = "idle" -> "snapshot" [] step = "snapshot" -> "put" [] step = "put" -> "deploy"
      [] step = "deploy" -> "send" [] step = "send" -> "idle"
SendFirst(step) ==                                            \* a faulty variant
    CASE step = "idle" -> "snapshot" [] step = "snapshot" -> "send" [] step = "send" -> "deploy"
      [] step = "deploy" -> "put" [] step = "put" -> "idle"
After(step) ==
    CASE step = "idle" -> "snapshot" [] step = "snapshot" -> "deploy" [] step = "deploy" -> "put"
      [] step = "put" -> "send" [] step = "send" -> "idle"

\* A fresh checkout is left, so that none of its files is read again.
Leave == old' = EmptySite /\ new' = EmptySite /\ events' = {}

\* build.sh renders whatever articles there are by now.
Build(site) ==
    /\ pc = "idle"
    /\ pc' = After(pc)
    /\ new' = site
    /\ UNCHANGED <<old, events, published>>

\* update_snapshot.sh.  A snapshot that cannot be downloaded, for whatever
\* reason, is taken for that of a first deployment.
UpdateSnapshot ==
    /\ pc = "snapshot"
    /\ pc' = After(pc)
    /\ \/ old' = recorded
       \/ "read" \in Mishaps /\ old' = EmptySite
    /\ events' = Diff(old', new)
    /\ UNCHANGED <<new, published>>

\* wrangler deploy, after setup_resources.sh.
Deploy ==
    /\ pc = "deploy"
    /\ pc' = After(pc)
    /\ deployed' = new
    /\ UNCHANGED <<old, new, events, recorded, told, lost>>

\* wrangler r2 object put.  Slugs the events were not computed for from what
\* was recorded are out of step from here on.
PutSnapshot ==
    /\ pc = "put"
    /\ pc' = After(pc)
    /\ recorded' = new
    /\ lost' = lost \cup {s \in Slugs : old[s] # recorded[s]}
    /\ UNCHANGED <<old, new, events, deployed, told>>

\* The lines of events.jsonl that one POST to the queue carries.  Which slugs
\* share a batch does not matter.
IsBatch(b) == b \subseteq events /\ b # {} /\ Cardinality(b) <= BatchSize
SlugsOf(b) == {e.slug : e \in b}

\* send_to_queue.sh: the queue takes a batch,
SendBatch(b) ==
    /\ pc = "send" /\ IsBatch(b)
    /\ events' = events \ b
    /\ told' = [s \in Slugs |-> IF s \in SlugsOf(b) THEN new[s] ELSE told[s]]
    /\ lost' = lost \ SlugsOf(b)
    /\ UNCHANGED <<pc, old, new, deployed, recorded>>

\* or answers an error, which curl without -f takes for success,
BatchRefused(b) ==
    /\ "refuse" \in Mishaps
    /\ pc = "send" /\ IsBatch(b)
    /\ events' = events \ b
    /\ lost' = lost \cup SlugsOf(b)
    /\ UNCHANGED <<pc, old, new, deployed, recorded, told>>

\* and after the last one the deployment is done.
Finish ==
    /\ pc = "send" /\ events = {}
    /\ pc' = After(pc)
    /\ Leave
    /\ UNCHANGED published

\* A command fails, or the job is cancelled.
Abort ==
    /\ "abort" \in Mishaps
    /\ pc # "idle"
    /\ pc' = "idle"
    /\ lost' = lost \cup (IF pc = "send" THEN SlugsOf(events) ELSE {})
    /\ Leave
    /\ UNCHANGED <<deployed, recorded, told>>

Next ==
    \/ \E site \in Site : Build(site)
    \/ UpdateSnapshot
    \/ Deploy
    \/ PutSnapshot
    \/ \E b \in SUBSET events : SendBatch(b)
    \/ \E b \in SUBSET events : BatchRefused(b)
    \/ Finish
    \/ Abort

Spec == Init /\ [][Next]_vars

-------------------------------------------------------------------------------
(* Properties.                                                             *)

\* Type invariant.
TypeOK ==
    /\ pc \in {"idle", "snapshot", "deploy", "put", "send"}
    /\ old \in Site /\ new \in Site
    /\ events \subseteq Event
    /\ deployed \in Site /\ recorded \in Site
    /\ told \in Site
    /\ lost \subseteq Slugs

\* A change the followers were not told of is not forgotten, however many
\* deployments die on the way: its event is still to be sent, or the recorded
\* snapshot differs from what is served, so that the next deployment finds it.
NothingForgotten ==
    \A s \in Slugs \ lost :
        \/ told[s] = deployed[s]
        \/ recorded[s] # deployed[s]
        \/ pc = "send" /\ s \in SlugsOf(events)

\* Event e takes a follower from one document to another.
Takes(e, from, to) ==
    /\ from # to
    /\ e.kind = "New" <=> from = Missing
    /\ e.kind = "Delete" <=> to = Missing
    /\ e.kind = "Delete" => e.author = AuthorOf[from]

\* An event waiting to be sent is the one that takes the followers from what
\* they were told last to what is served: an article they do not know is new,
\* one they know is updated only if it changed, and deleted in the name of the
\* author they know it by.
EventsFit ==
    pc = "send" =>
        \A e \in events : e.slug \notin lost => Takes(e, told[e.slug], deployed[e.slug])

\* Nothing is announced before it is served: whoever follows the link in an
\* event finds what the event is about.
TellsWhatIsServed ==
    [][\A s \in Slugs : told'[s] # told[s] => told'[s] = deployed[s]]_vars
=============================================================================
