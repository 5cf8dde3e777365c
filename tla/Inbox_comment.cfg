SPECIFICATION FairSpec

CONSTANTS
    None = None
    alice = alice
    bob = bob
    ann = ann
    ben = ben
    post = post
    missing = missing
    Users = {alice, bob}
    Slugs = {post, missing}
    Actors = {ann, ben}
    Inboxes = {1, 2}
    AuthorOf <- Authors
    InboxesOfActor <- Profiles
    Activities <- CommentActivities
    Requests <- CommentRequests
    MaxPosts = 1
    Workers = {w1}
    MaxBatch = 1
    MaxRetries = 1
    Failures = {"crash", "asset", "r2", "d1"}

INVARIANTS
    StoredCommentsCounted

PROPERTIES
    RequestsComplete

CHECK_DEADLOCK FALSE
