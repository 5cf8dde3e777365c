SPECIFICATION FairSpec

CONSTANTS
    None = None
    alice = alice
    bob = bob
    ann = ann
    ben = ben
    cat = cat
    post = post
    Inboxes = {1, 2, 3}
    BatchSize = 2
    Users = {alice}
    Slugs = {post}
    Actors = {ann, ben, cat}
    Workers = {w1, w2}
    MaxBatch = 1
    MaxRetries = 0
    Failures = {}
    Changes = {"follow", "undo", "deploy"}
    Events <- New
    InboxesOfActor <- SharedInboxes

INVARIANTS
    NoFollowerSkipped
    ExpansionAdvances

PROPERTIES
    FanOutCompletes
    KeepsPromise
