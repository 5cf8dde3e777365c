SPECIFICATION PagesSpec

CONSTANTS
    Missing = Missing
    None = None
    first = first
    moved = moved
    ann = ann
    bob = bob
    Slugs = {post, page}
    Documents = {first, moved}
    Authors = {ann, bob}
    AuthorOf <- Authorship
    BatchSize = 1
    Mishaps = {}
    AcceptHeaders <- Accepts

SYMMETRY Symmetric

INVARIANTS
    AuthorIsThere
