SPECIFICATION PagesSpec

CONSTANTS
    Missing = Missing
    None = None
    first = first
    moved = moved
    ann = ann
    bob = bob
    Slugs = {post, page}
    Documents = {first, moved}
    Authors = {ann, bob}
    AuthorOf <- Authorship
    BatchSize = 1
    Mishaps = {"read", "refuse", "abort"}
    AcceptHeaders <- Accepts

SYMMETRY Symmetric

INVARIANTS
    TypeOK
    NothingForgotten
    EventsFit

PROPERTIES
    TellsWhatIsServed
    AnswersOfSomeMoment
