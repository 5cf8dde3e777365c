SPECIFICATION Spec

CONSTANTS
    None = None
    NoKey = NoKey
    NoUri = NoUri
    ann = ann
    bob = bob
    k1 = k1
    k2 = k2
    Keys = {k1, k2}
    BodyLimit = 2
    Activities <- Parsed
    Username <- Decoded
    InboxUri <- Uris
    Posts <- Arriving
    AcceptHeaders <- Accepting
    Products <- Producing

INVARIANTS
    TypeOK
    IntactAccepted
    SignedBodyIsQueued
    OnlyWholeBodies
    NegotiatesBest
