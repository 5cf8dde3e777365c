SPECIFICATION Spec

CONSTANTS
    None = None
    alice = alice
    bob = bob
    ann = ann
    ben = ben
    cat = cat
    post = post
    Inboxes = {1, 2, 3}
    BatchSize = 2
    Users = {alice}
    Slugs = {post}
    Actors = {ann, ben, cat}
    Workers = {w1}
    MaxBatch = 2
    MaxRetries = 1
    Failures = {"enqueue", "query", "asset"}
    Changes = {"follow", "undo", "deploy"}
    Events <- New
    InboxesOfActor <- SharedInboxes

INVARIANTS
    TypeOK
    NoFollowerSkipped
