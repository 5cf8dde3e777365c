SPECIFICATION Spec

CONSTANTS
    None = None
    author = author
    other = other
    post = post
    ann = ann
    ben = ben
    cat = cat
    Inboxes = {1, 2}
    BatchSize = 1
    Users = {author, other}
    Slugs = {post}
    Actors = {ann, ben, cat}
    Handlers = {h1}
    AuthorOf <- Authors
    InboxOf <- SharedInboxes
    Jobs <- FollowJobs

INVARIANTS
    TypeOK
    PagesAgree
    AgreesWithTable
    SettledMeansDone


CHECK_DEADLOCK FALSE
