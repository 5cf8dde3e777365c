------------------------------- MODULE Requests -------------------------------
(***************************************************************************)
(* What the server makes of the headers and the body of a request: which   *)
(* type it answers a GET with, and what it queues for an activity POSTed   *)
(* to an inbox, after it rebuilt the request, fetched the key of its       *)
(* signature and checked the digest of a body that comes in frames.        *)
(* Requests share nothing here: one at a time stands for all.              *)
(*                                                                         *)
(* Cryptography is symbolic: a digest is the body it was made of, and a    *)
(* signature the key and the text it was made of.                          *)
(***************************************************************************)
EXTENDS HeaderSelect

CONSTANTS
    Keys,           \* key pairs
    NoKey,          \* no key, or none that can be read
    Activities,     \* bodies that are JSON with a type and an id
    BodyLimit,      \* BODY_LIMIT; a body is a sequence of units of its length
    Username,       \* path and query of a POST -> the username the router decodes
    InboxUri,       \* username -> path and query of the URI built of it, or NoUri
    NoUri,          \* no URI can be built
    Posts,          \* the requests that may arrive at an inbox
    AcceptHeaders,  \* the Accept headers of GETs,
    Products,       \* and the sets of types their handlers can produce
    None            \* no actor, no body, no message

ASSUME BodyLimitAssumption == BodyLimit \in Nat
ASSUME NoKeyAssumption == NoKey \notin Keys
ASSUME NoneAssumption == None \notin Activities
ASSUME AcceptAssumption == AcceptHeaders \subseteq Seq(MediaRange)
ASSUME ProductsAssumption == Products \subseteq SUBSET Mimes

VARIABLES
    pc,         \* what the handler waits for
    request,    \* the request it serves
    rest,       \* what of the body is still to come
    trust,      \* what verify_request answered: [actor, digest], None if not
    body,       \* VerifyBody: [hashed, done, digest_ok]
    queued,     \* the message queued for the request
    answer,     \* the status of the answer, or the type chosen for a GET
    key, mishap \* history: the key fetched; whether something failed on the way

vars == <<pc, request, rest, trust, body, queued, answer, key, mishap>>

-------------------------------------------------------------------------------
(* Signature headers.  A request is a record of its contentType, its path   *)
(* and query, the other headers, a function from their names, the parts of  *)
(* the Signature header and the body.  What a header says is Text, a Digest *)
(* or not text at all; of a header that is repeated only the first value    *)
(* that is text is ever looked at.  A keyId is the sequence of what lies    *)
(* between its #s.                                                          *)

Digest(b) == [sha |-> b]
Text(t) == [text |-> t]
NotText == [bytes |-> "opaque"]
RequestTarget == "(request-target)"

\* What verify_request is given: a request to the URI built of the username,
\* with the headers that are text.
Rebuilt(r) ==
    [r EXCEPT !.path = InboxUri[Username[r.path]],
              !.headers = [n \in {h \in DOMAIN @ : @[h] # NotText} |-> @[n]]]

\* The line of the signed text for header n, if the request has that header.
Has(r, n) == n = RequestTarget \/ n \in DOMAIN r.headers
Line(r, n) == <<n, IF n = RequestTarget THEN Text(r.path) ELSE r.headers[n]>>

\* The Signature header is split at its commas; a repeated part counts last.
Given(r, part) == {j \in DOMAIN r.signature : r.signature[j][1] = part}
Value(r, part) ==
    LET last == CHOOSE j \in Given(r, part) : \A i \in Given(r, part) : i <= j
    IN  r.signature[last][2]
ActorUrl(keyId) == Head(keyId)
SignTarget(r) ==
    [k \in DOMAIN Value(r, "headers") |-> Line(r, Value(r, "headers")[k])]

\* sign(): what this server sends, and any other that signs alike.
SignedHeaders == <<RequestTarget, "date", "host", "digest">>
Sign(r, keyId, k) ==
    LET digested == [r EXCEPT !.headers = [n \in DOMAIN @ \cup {"digest"} |->
                        IF n = "digest" THEN Digest(r.body) ELSE @[n]]]
    IN  [digested EXCEPT !.signature =
           << <<"keyId", keyId>>, <<"algorithm", "rsa-sha256">>, <<"headers", SignedHeaders>>,
              <<"signature", [key |-> k,
                              text |-> [j \in 1..4 |-> Line(digested, SignedHeaders[j])]]>> >>]

\* A request has these parts, and carries no None.
ASSUME PostsAssumption == \A r \in Posts :
    /\ r = [contentType |-> r.contentType, path |-> r.path, headers |-> r.headers,
            signature |-> r.signature, body |-> r.body]
    /\ r.body \in Seq(Nat)
    /\ \A n \in DOMAIN r.headers : r.headers[n] # None
    /\ Given(r, "keyId") # {} => ActorUrl(Value(r, "keyId")) # None

\* verify_request gets as far as fetching the key.
Verifiable(r) ==
    /\ \A part \in {"keyId", "algorithm", "headers", "signature"} : Given(r, part) # {}
    /\ Value(r, "algorithm") = "rsa-sha256"
    /\ \A k \in DOMAIN Value(r, "headers") : Has(r, Value(r, "headers")[k])

\* The digest VerifyBody expects, None if the digest is not signed.
Expected(r) ==
    IF \E k \in DOMAIN Value(r, "headers") : Value(r, "headers")[k] = "digest"
    THEN r.headers["digest"] ELSE None

\* What verify_request answers when the signature fits.
Trusted(r) == [actor |-> ActorUrl(Value(r, "keyId")), digest |-> Expected(r)]
ASSUME TrustAssumption == \A r \in Posts :
    Verifiable(Rebuilt(r)) => Trusted(Rebuilt(r)) # None

-------------------------------------------------------------------------------
(* VerifyBody.                                                             *)

EmptyBody == [hashed |-> <<>>, done |-> FALSE, digest_ok |-> FALSE]
Update(b, data) == [b EXCEPT !.hashed = @ \o data]
\* finalize() takes the hasher and leaves a new one.
FinalizeAlways(b, expected) ==                                \* a faulty variant
    [hashed |-> <<>>, done |-> TRUE, digest_ok |-> Digest(b.hashed) = expected]
FinalizeUnchecked(b, expected) == [b EXCEPT !.digest_ok = TRUE]   \* a faulty variant
Finalize(b, expected) ==
    IF b.done THEN b
    ELSE [hashed |-> <<>>, done |-> TRUE, digest_ok |-> Digest(b.hashed) = expected]

\* poll_frame finalizes at the end of the stream and collect_to_bytes after it.
AtEnd(b, expected) == Finalize(Finalize(b, expected), expected)

-------------------------------------------------------------------------------
Init ==
    /\ pc = "idle" /\ request = None /\ rest = <<>> /\ trust = None
    /\ body = EmptyBody /\ queued = None /\ answer = "none"
    /\ key = NoKey /\ mishap = FALSE

NoReturn(a) == answer' = a /\ UNCHANGED pc                    \* a faulty variant
Answer(a) == answer' = a /\ pc' = "done"

\* A GET is negotiated at once.
Get(accept, candidate) ==
    /\ pc = "idle"
    /\ request' = [accept |-> accept, candidate |-> candidate]
    /\ Answer(Select(accept, candidate))
    /\ UNCHANGED <<rest, trust, body, queued, key, mishap>>

Post(r) ==
    /\ pc = "idle"
    /\ pc' = "user" /\ request' = r /\ rest' = r.body
    /\ UNCHANGED <<trust, body, queued, answer, key, mishap>>

\* The asset of the user is read; then the headers are checked and the request
\* is rebuilt, which fails if the username does not fit into a URI.
ExistsUser(found) ==
    /\ pc = "user"
    /\ IF ~found THEN Answer("not_found")
       ELSE IF ~IsContentTypeAP(request.contentType) \/ Rebuilt(request).path = NoUri
       THEN Answer("bad_request")
       ELSE pc' = (IF Verifiable(Rebuilt(request)) THEN "key" ELSE "body") /\ UNCHANGED answer
    /\ mishap' = ~found
    /\ UNCHANGED <<request, rest, trust, body, queued, key>>

\* The document at ActorUrl answers this key, or none that can be used.  A
\* signature that does not fit the key is an answer; all else before it leaves
\* the request unverified.
FetchKey(k) ==
    /\ pc = "key"
    /\ key' = k
    /\ LET r == Rebuilt(request)
           signature == Value(r, "signature")
       IN  IF k = NoKey \/ signature.key = NoKey THEN pc' = "body" /\ UNCHANGED <<trust, answer>>
           ELSE IF signature = [key |-> k, text |-> SignTarget(r)]
           THEN pc' = "body" /\ trust' = Trusted(r) /\ UNCHANGED answer
           ELSE Answer("bad_request") /\ UNCHANGED trust
    /\ UNCHANGED <<request, rest, body, queued, mishap>>

\* A frame of n units comes in; Limited refuses the one that is too much.
ReceivedLength == Len(request.body) - Len(rest)
ReceiveFrame(n) ==
    /\ pc = "body" /\ n \in 1..Len(rest)
    /\ IF ReceivedLength + n > BodyLimit
       THEN Answer("bad_request") /\ UNCHANGED <<rest, body>>
       ELSE /\ rest' = SubSeq(rest, n + 1, Len(rest))
            /\ body' = Update(body, SubSeq(rest, 1, n))
            /\ UNCHANGED <<pc, answer>>
    /\ UNCHANGED <<request, trust, queued, key, mishap>>

\* The connection breaks off.
StreamFails ==
    /\ pc = "body"
    /\ Answer("bad_request")
    /\ mishap' = TRUE
    /\ UNCHANGED <<request, rest, trust, body, queued, key>>

\* The stream ends: the digest is compared and the body parsed.
EndOfBody ==
    /\ pc = "body" /\ rest = <<>>
    /\ LET checked == trust # None /\ trust.digest # None
       IN  /\ body' = IF checked THEN AtEnd(body, trust.digest) ELSE body
           /\ IF (checked /\ ~body'.digest_ok) \/ request.body \notin Activities
              THEN Answer("bad_request")
              ELSE pc' = "enqueue" /\ UNCHANGED answer
    /\ UNCHANGED <<request, rest, trust, queued, key, mishap>>

\* A message is for a user.  Only a verified request is queued with its body,
\* any other with the type and the id of what it is about.
AlwaysWithBody(r, t) ==                                       \* a faulty variant
    [username |-> Username[r.path], about |-> r.body, verified_body |-> r.body,
     actor |-> IF t = None THEN None ELSE t.actor]
Message(r, t) ==
    [username |-> Username[r.path], about |-> r.body,
     verified_body |-> IF t = None THEN None ELSE r.body,
     actor |-> IF t = None THEN None ELSE t.actor]

\* enqueue logs a failure, so that it is answered alike.
Enqueue(sent) ==
    /\ pc = "enqueue"
    /\ queued' = IF sent THEN Message(request, trust) ELSE None
    /\ mishap' = (mishap \/ ~sent)
    /\ Answer("accepted")
    /\ UNCHANGED <<request, rest, trust, body, key>>

Close ==
    /\ pc = "done"
    /\ pc' = "idle" /\ request' = None /\ rest' = <<>> /\ trust' = None
    /\ body' = EmptyBody /\ queued' = None /\ answer' = "none"
    /\ key' = NoKey /\ mishap' = FALSE

Next ==
    \/ \E accept \in AcceptHeaders, candidate \in Products : Get(accept, candidate)
    \/ \E r \in Posts : Post(r)
    \/ \E found \in BOOLEAN : ExistsUser(found)
    \/ \E k \in Keys \cup {NoKey} : FetchKey(k)
    \/ \E n \in 1..Len(rest) : ReceiveFrame(n)
    \/ StreamFails
    \/ EndOfBody
    \/ \E sent \in BOOLEAN : Enqueue(sent)
    \/ Close

Spec == Init /\ [][Next]_vars

-------------------------------------------------------------------------------
(* Properties.                                                             *)

\* Type invariant.
TypeOK ==
    /\ pc \in {"idle", "user", "key", "body", "enqueue", "done"}
    /\ pc \in {"user", "key", "body", "enqueue"} => request \in Posts /\ answer = "none"
    /\ answer \in Mimes \cup {NotAcceptable, "not_found", "bad_request", "accepted"}
    /\ rest \in Seq(Nat) /\ body.hashed \in Seq(Nat)
    /\ body.done \in BOOLEAN /\ body.digest_ok \in BOOLEAN
    /\ key \in Keys \cup {NoKey} /\ mishap \in BOOLEAN

\* A handler has answered this POST.
Answered == pc = "done" /\ request \in Posts

\* Request r is as sign() leaves it when it signs with key k.
SignedBy(r, k) ==
    /\ k \in Keys
    /\ \A n \in {"date", "host"} : n \in DOMAIN r.headers /\ r.headers[n] # NotText
    /\ Given(r, "keyId") # {}
    /\ r = Sign(r, Value(r, "keyId"), k)

\* Request r was sent to the address of an inbox as this server spells it:
\* nothing of the username is percent-encoded and there is no query.
Addressed(r) == r.path # NoUri /\ r.path = InboxUri[Username[r.path]]

\* Two servers running this code understand each other: an activity signed by
\* sign() for an inbox as this server spells its address, that arrives as it was
\* sent, in whatever frames, is queued for that user as verified, with its body,
\* in the name of the actor its key belongs to, provided the actor's document
\* gives the key it was signed with and the body is within the limit.
IntactAccepted ==
    Answered /\ ~mishap /\ SignedBy(request, key) /\ Addressed(request)
      /\ IsContentTypeAP(request.contentType)
      /\ request.body \in Activities /\ Len(request.body) <= BodyLimit =>
        /\ answer = "accepted"
        /\ queued = [username |-> Username[request.path], about |-> request.body,
                     verified_body |-> request.body,
                     actor |-> ActorUrl(Value(request, "keyId"))]

\* What is queued in the name of an actor was signed with the key the document
\* at the actor's URL gave.  Whatever became of the request on the way, a signed
\* target is the inbox of the user it is queued for, a signed digest is that of
\* the body that is queued, and any other signed line is a header that arrived.
SignedBodyIsQueued ==
    queued # None /\ queued.actor # None =>
        LET signature == Value(request, "signature")
        IN  /\ signature.key = key /\ queued.actor = ActorUrl(Value(request, "keyId"))
            /\ \A line \in {signature.text[k] : k \in DOMAIN signature.text} :
                 /\ line[1] = RequestTarget => line[2] = Text(InboxUri[queued.username])
                 /\ line[1] = "digest" => line[2] = Digest(queued.verified_body)
                 /\ line[1] # RequestTarget =>
                      line[1] \in DOMAIN request.headers /\ line[2] = request.headers[line[1]]

\* What is queued is an activity that came in whole and within the limit, and
\* its body goes along if and only if an actor answers for it.
OnlyWholeBodies ==
    queued # None =>
        /\ rest = <<>> /\ Len(request.body) <= BodyLimit
        /\ queued.about = request.body /\ queued.about \in Activities
        /\ queued.verified_body # None <=> queued.actor # None

\* Whatever the order and the wildcards of an Accept header, a GET is answered
\* with the type the server prefers among those the client likes best.
NegotiatesBest ==
    pc = "done" /\ request \notin Posts => IsBestAnswer(answer, request.accept, request.candidate)
=============================================================================
