SPECIFICATION Spec

CONSTANTS
    None = None
    alice = alice
    bob = bob
    ann = ann
    ben = ben
    post = post
    missing = missing
    Users = {alice, bob}
    Slugs = {post, missing}
    Actors = {ann, ben}
    Inboxes = {1, 2}
    AuthorOf <- Authors
    InboxesOfActor <- Profiles
    Activities <- FollowActivities
    Requests <- FollowRequests
    MaxPosts = 1
    Workers = {w1, w2}
    MaxBatch = 2
    MaxRetries = 1
    Failures = {"crash", "enqueue", "d1"}

INVARIANTS
    AcceptedIsStored
    UndoneNotFollowing

PROPERTIES
    RemovedOnlyByItsActor
    KeepsTable

CHECK_DEADLOCK FALSE
