SPECIFICATION FairSpec

CONSTANTS
    None = None
    alice = alice
    bob = bob
    ann = ann
    ben = ben
    cat = cat
    post = post
    Inboxes = {1}
    BatchSize = 1
    Users = {alice}
    Slugs = {post}
    Actors = {ann, ben}
    Workers = {w1}
    MaxBatch = 2
    MaxRetries = 1
    Failures = {"enqueue", "query", "crash"}
    Changes = {"follow", "undo"}
    Events <- New
    InboxesOfActor <- OneInbox

INVARIANTS
    NoFollowerSkipped

PROPERTIES
    FanOutCompletes
    KeepsPromise
    NoPostAfterFinalAnswer
