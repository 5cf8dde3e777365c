SPECIFICATION Spec

CONSTANTS
    None = None
    alice = alice
    bob = bob
    ann = ann
    ben = ben
    cat = cat
    post = post
    Inboxes = {1, 2}
    BatchSize = 1
    Users = {alice, bob}
    Slugs = {post}
    Actors = {ann, ben}
    Workers = {w1}
    MaxBatch = 1
    MaxRetries = 0
    Failures = {}
    Changes = {"deploy"}
    Events <- NewAndDelete
    InboxesOfActor <- OwnInboxes

INVARIANTS
    OnlyFollowersNotified

PROPERTIES
    NoPostAfterFinalAnswer
