SPECIFICATION Spec

CONSTANTS
    None = None
    alice = alice
    bob = bob
    ann = ann
    ben = ben
    post = post
    missing = missing
    Users = {alice, bob}
    Slugs = {post, missing}
    Actors = {ann, ben}
    Inboxes = {1, 2}
    AuthorOf <- Authors
    InboxesOfActor <- Profiles
    Activities <- LikeActivities
    Requests <- LikeRequests
    MaxPosts = 1
    Workers = {w1, w2}
    MaxBatch = 1
    MaxRetries = 1
    Failures = {"crash", "d1"}

INVARIANTS
    TypeOK
    CountMatchesActors

PROPERTIES
    RemovedOnlyByItsActor

CHECK_DEADLOCK FALSE
