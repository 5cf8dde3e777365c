SPECIFICATION Spec

CONSTANTS
    None = None
    author = author
    other = other
    post = post
    ann = ann
    ben = ben
    cat = cat
    Inboxes = {1, 2}
    BatchSize = 1
    Users = {author, other}
    Slugs = {post}
    Actors = {ann, ben, cat}
    Handlers = {h1, h2}
    AuthorOf <- Authors
    InboxOf <- SharedInboxes
    Jobs <- ArticleJobs

INVARIANTS
    PendingCountsAll
    DownOnlyIfRemoved

PROPERTIES
    Settles

CHECK_DEADLOCK FALSE
