---------------------------- MODULE Requests_proofs ----------------------------
(***************************************************************************)
(* Theorems about Requests, for any requests, keys, activities and body    *)
(* limit: what is queued came in whole, what is queued in the name of an   *)
(* actor is what the actor's key signed, what this server signs is taken   *)
(* by another that runs its code, and a GET is answered as well as its     *)
(* Accept header allows.                                                   *)
(***************************************************************************)
EXTENDS Requests, HeaderSelect_proofs

\* A POST is being dealt with.
Handling == pc \in {"user", "key", "body", "enqueue"}

\* Before the first frame, nothing is taken from the body.
Untouched ==
    /\ pc = "idle" => body = EmptyBody /\ trust = None
    /\ pc \in {"user", "key"} => rest = request.body /\ body = EmptyBody /\ trust = None

\* The hasher holds what has come of the body so far, within the limit.
HasherHoldsReceived ==
    pc = "body" =>
        /\ rest \in Seq(Nat) /\ body.hashed \in Seq(Nat) /\ ~body.done
        /\ body = [hashed |-> body.hashed, done |-> FALSE, digest_ok |-> FALSE]
        /\ request.body = body.hashed \o rest
        /\ Len(body.hashed) <= BodyLimit

\* Who is trusted signed this request with the key that was fetched.
TrustIsSigned ==
    /\ pc = "key" => Verifiable(Rebuilt(request))
    /\ pc \in {"body", "enqueue"} /\ trust # None =>
        /\ Verifiable(Rebuilt(request))
        /\ trust = Trusted(Rebuilt(request))
        /\ Value(request, "signature") = [key |-> key, text |-> SignTarget(Rebuilt(request))]

\* What is about to be queued has passed every check.
BodyChecked ==
    pc = "enqueue" =>
        /\ rest = <<>> /\ Len(request.body) <= BodyLimit /\ request.body \in Activities
        /\ trust # None /\ trust.digest # None => Digest(request.body) = trust.digest

IndInv ==
    /\ Handling => request \in Posts
    /\ pc # "done" => queued = None
    /\ Untouched
    /\ HasherHoldsReceived
    /\ TrustIsSigned
    /\ BodyChecked
    /\ OnlyWholeBodies
    /\ SignedBodyIsQueued

\* The two properties speak of a request that has its message.
LEMMA NothingQueued ==
    ASSUME queued' = None
    PROVE  OnlyWholeBodies' /\ SignedBodyIsQueued'
BY DEF OnlyWholeBodies, SignedBodyIsQueued

LEMMA InitIndInv == Init => IndInv
BY DEF Init, IndInv, Handling, Untouched, HasherHoldsReceived, TrustIsSigned, BodyChecked,
       OnlyWholeBodies, SignedBodyIsQueued

\* Rebuilding a request changes its path and leaves out headers that are not
\* text; its Signature header stays.
LEMMA RebuiltRequest ==
    ASSUME NEW r \in Posts
    PROVE  /\ Rebuilt(r) = [contentType |-> r.contentType, path |-> InboxUri[Username[r.path]],
                            headers |-> Rebuilt(r).headers, signature |-> r.signature,
                            body |-> r.body]
           /\ DOMAIN Rebuilt(r).headers = {n \in DOMAIN r.headers : r.headers[n] # NotText}
           /\ \A n \in DOMAIN Rebuilt(r).headers : Rebuilt(r).headers[n] = r.headers[n]
           /\ \A part : Given(Rebuilt(r), part) = Given(r, part) /\ Value(Rebuilt(r), part) = Value(r, part)
<1> DEFINE hs == [n \in {h \in DOMAIN r.headers : r.headers[h] # NotText} |-> r.headers[n]]
<1>1. r = [contentType |-> r.contentType, path |-> r.path, headers |-> r.headers,
           signature |-> r.signature, body |-> r.body]
  BY PostsAssumption
<1>2. Rebuilt(r) = [r EXCEPT !.path = InboxUri[Username[r.path]], !.headers = hs]
  BY DEF Rebuilt
<1> HIDE DEF hs
<1>3. Rebuilt(r) = [contentType |-> r.contentType, path |-> InboxUri[Username[r.path]],
                    headers |-> hs, signature |-> r.signature, body |-> r.body]
  BY <1>1, <1>2
<1>4. Rebuilt(r).headers = hs /\ Rebuilt(r).signature = r.signature
  BY <1>3
<1>5. \A part : Given(Rebuilt(r), part) = Given(r, part) /\ Value(Rebuilt(r), part) = Value(r, part)
  BY <1>4 DEF Given, Value
<1> QED BY <1>3, <1>4, <1>5 DEF hs

-------------------------------------------------------------------------------
\* One lemma for each action.

LEMMA GetPreserves ==
    ASSUME IndInv, NEW accept, NEW candidate, Get(accept, candidate)
    PROVE  IndInv'
<1>1. pc' = "done" /\ queued' = None
  BY DEF IndInv, Get, Answer
<1> QED BY <1>1, NothingQueued
        DEF IndInv, Handling, Untouched, HasherHoldsReceived, TrustIsSigned, BodyChecked

LEMMA PostPreserves ==
    ASSUME IndInv, NEW r \in Posts, Post(r)
    PROVE  IndInv'
<1>1. pc' = "user" /\ request' = r /\ rest' = r.body /\ queued' = None
  BY DEF IndInv, Post
<1>2. body' = EmptyBody /\ trust' = None
  BY DEF IndInv, Post, Untouched
<1> QED BY <1>1, <1>2, NothingQueued
        DEF IndInv, Handling, Untouched, HasherHoldsReceived, TrustIsSigned, BodyChecked

\* The body is untouched when its first frame is awaited.
LEMMA BodyBegins ==
    ASSUME request \in Posts, rest = request.body, body = EmptyBody
    PROVE  /\ rest \in Seq(Nat) /\ body.hashed \in Seq(Nat) /\ ~body.done
           /\ body = [hashed |-> body.hashed, done |-> FALSE, digest_ok |-> FALSE]
           /\ request.body = body.hashed \o rest
           /\ Len(body.hashed) <= BodyLimit
<1>1. request.body \in Seq(Nat)
  BY PostsAssumption
<1>2. body.hashed = <<>> /\ ~body.done
  BY DEF EmptyBody
<1>3. <<>> \o request.body = request.body
  BY <1>1, ConcatEmptySeq
<1>4. Len(<<>>) <= BodyLimit
  BY BodyLimitAssumption
<1>5. <<>> \in Seq(Nat)
  OBVIOUS
<1> QED BY <1>1, <1>2, <1>3, <1>4, <1>5 DEF EmptyBody

LEMMA ExistsUserPreserves ==
    ASSUME IndInv, NEW found, ExistsUser(found)
    PROVE  IndInv'
<1>1. /\ pc = "user" /\ pc' \in {"done", "key", "body"} /\ queued' = None
      /\ pc' = "key" => Verifiable(Rebuilt(request))
  BY DEF IndInv, ExistsUser, Answer
<1>2. request' = request /\ rest' = rest /\ body' = body /\ trust' = trust
  BY DEF ExistsUser
<1>3. request \in Posts /\ rest = request.body /\ body = EmptyBody /\ trust = None
  BY <1>1 DEF IndInv, Handling, Untouched
<1>4. HasherHoldsReceived'
  BY <1>2, <1>3, BodyBegins DEF HasherHoldsReceived
<1>5. TrustIsSigned'
  BY <1>1, <1>2, <1>3 DEF TrustIsSigned
<1> QED BY <1>1, <1>2, <1>3, <1>4, <1>5, NothingQueued
        DEF IndInv, Handling, Untouched, BodyChecked

LEMMA FetchKeyPreserves ==
    ASSUME IndInv, NEW k, FetchKey(k)
    PROVE  IndInv'
<1>1. pc = "key" /\ pc' \in {"done", "body"} /\ key' = k /\ queued' = None
  BY DEF IndInv, FetchKey, Answer
<1>2. request' = request /\ rest' = rest /\ body' = body
  BY DEF FetchKey
<1>3. request \in Posts /\ rest = request.body /\ body = EmptyBody /\ trust = None
  BY <1>1 DEF IndInv, Handling, Untouched
<1>4. HasherHoldsReceived'
  BY <1>2, <1>3, BodyBegins DEF HasherHoldsReceived
<1>5. Verifiable(Rebuilt(request))
  BY <1>1 DEF IndInv, TrustIsSigned
<1>6. trust' # None =>
        /\ trust' = Trusted(Rebuilt(request))
        /\ Value(request, "signature") = [key |-> k, text |-> SignTarget(Rebuilt(request))]
  <2>1. trust' # None =>
          /\ trust' = Trusted(Rebuilt(request))
          /\ Value(Rebuilt(request), "signature") = [key |-> k, text |-> SignTarget(Rebuilt(request))]
    BY <1>3 DEF FetchKey
  <2> QED BY <1>3, <2>1, RebuiltRequest
<1>7. TrustIsSigned'
  BY <1>1, <1>2, <1>5, <1>6 DEF TrustIsSigned
<1> QED BY <1>1, <1>2, <1>3, <1>4, <1>7, NothingQueued
        DEF IndInv, Handling, Untouched, BodyChecked

LEMMA Reassociate ==
    ASSUME NEW a \in Seq(Nat), NEW b \in Seq(Nat), NEW c \in Seq(Nat)
    PROVE  (a \o b) \o c = a \o (b \o c)
BY ConcatAssociative

\* A frame moves from what is to come to what the hasher holds.
LEMMA FrameMoves ==
    ASSUME NEW hashed \in Seq(Nat), NEW left \in Seq(Nat), NEW n \in 1..Len(left)
    PROVE  /\ SubSeq(left, 1, n) \in Seq(Nat) /\ SubSeq(left, n + 1, Len(left)) \in Seq(Nat)
           /\ hashed \o SubSeq(left, 1, n) \in Seq(Nat)
           /\ (hashed \o SubSeq(left, 1, n)) \o SubSeq(left, n + 1, Len(left)) = hashed \o left
           /\ Len(hashed \o SubSeq(left, 1, n)) = Len(hashed) + n
           /\ Len(hashed \o left) = Len(hashed) + Len(left)
<1> DEFINE frame == SubSeq(left, 1, n)
           later == SubSeq(left, n + 1, Len(left))
<1>1. Len(left) \in Nat /\ n \in Nat /\ 1 <= n /\ n <= Len(left)
  BY LenProperties
<1>2. \A j \in 1..Len(left) : left[j] \in Nat
  BY ElementOfSeq
<1>3. frame \in Seq(Nat) /\ Len(frame) = n
  <2>1. \A j \in 1..n : left[j] \in Nat
    BY <1>1, <1>2
  <2>2. frame \in Seq(Nat) /\ Len(frame) = IF 1 <= n THEN n - 1 + 1 ELSE 0
    BY <1>1, <2>1, SubSeqProperties
  <2> QED BY <1>1, <2>2
<1>4. later \in Seq(Nat)
  <2>1. \A j \in (n + 1)..Len(left) : left[j] \in Nat
    BY <1>1, <1>2
  <2> QED BY <1>1, <2>1, SubSeqProperties
<1>5. frame \o later = left
  <2>1. SubSeq(left, 1, n) \o SubSeq(left, n + 1, Len(left)) = SubSeq(left, 1, Len(left))
    BY <1>1, ConcatAdjacentSubSeq
  <2> QED BY <2>1, SubSeqFull
<1>6. (hashed \o frame) \o later = hashed \o left
  <2> HIDE DEF frame, later
  <2>1. (hashed \o frame) \o later = hashed \o (frame \o later)
    <3>1. \A a, b, c \in Seq(Nat) : (a \o b) \o c = a \o (b \o c)
      BY Reassociate
    <3>2. frame \in Seq(Nat) /\ later \in Seq(Nat)
      BY <1>3, <1>4
    <3> QED BY <3>1, <3>2
  <2> QED BY <1>5, <2>1
<1>7. hashed \o frame \in Seq(Nat) /\ Len(hashed \o frame) = Len(hashed) + n
  BY <1>3, ConcatProperties
<1>8. Len(hashed \o left) = Len(hashed) + Len(left)
  BY ConcatProperties
<1> QED BY <1>3, <1>4, <1>6, <1>7, <1>8

LEMMA HashedOnly ==
    ASSUME NEW hashed, NEW longer, NEW b
    PROVE  [[hashed |-> hashed, done |-> b, digest_ok |-> b] EXCEPT !.hashed = longer]
             = [hashed |-> longer, done |-> b, digest_ok |-> b]
OBVIOUS

LEMMA UpdateAppends ==
    ASSUME NEW hashed, NEW data
    PROVE  Update([hashed |-> hashed, done |-> FALSE, digest_ok |-> FALSE], data)
             = [hashed |-> hashed \o data, done |-> FALSE, digest_ok |-> FALSE]
<1> DEFINE b == FALSE
<1>1. [hashed |-> hashed, done |-> FALSE, digest_ok |-> FALSE].hashed = hashed
  OBVIOUS
<1>2. Update([hashed |-> hashed, done |-> b, digest_ok |-> b], data)
        = [[hashed |-> hashed, done |-> b, digest_ok |-> b] EXCEPT !.hashed = hashed \o data]
  BY <1>1 DEF Update
<1> HIDE DEF b
<1> QED BY <1>2, HashedOnly DEF b

LEMMA ReceiveFramePreserves ==
    ASSUME IndInv, NEW n, ReceiveFrame(n)
    PROVE  IndInv'
<1>1. /\ pc = "body" /\ n \in 1..Len(rest)
      /\ request' = request /\ trust' = trust /\ key' = key /\ queued' = None
  BY DEF IndInv, ReceiveFrame
<1>2. /\ rest \in Seq(Nat) /\ body.hashed \in Seq(Nat)
      /\ body = [hashed |-> body.hashed, done |-> FALSE, digest_ok |-> FALSE]
      /\ request.body = body.hashed \o rest
      /\ request \in Posts
  BY <1>1 DEF IndInv, HasherHoldsReceived, Handling
<1>3. CASE pc' = "done"
  BY <1>1, <1>3, NothingQueued
     DEF IndInv, Handling, Untouched, HasherHoldsReceived, TrustIsSigned, BodyChecked
<1>4. CASE ~(ReceivedLength + n > BodyLimit)
  <2>1. /\ pc' = "body" /\ rest' = SubSeq(rest, n + 1, Len(rest))
        /\ body' = Update(body, SubSeq(rest, 1, n))
    BY <1>1, <1>4 DEF ReceiveFrame
  <2>2. body' = [hashed |-> body.hashed \o SubSeq(rest, 1, n), done |-> FALSE, digest_ok |-> FALSE]
    BY <1>2, <2>1, UpdateAppends, Zenon
  <2>3. /\ rest' \in Seq(Nat) /\ body'.hashed \in Seq(Nat)
        /\ request.body = body'.hashed \o rest'
        /\ Len(body'.hashed) = Len(body.hashed) + n
    <3>1. body'.hashed = body.hashed \o SubSeq(rest, 1, n)
      BY <2>2
    <3>2. rest \in Seq(Nat) /\ body.hashed \in Seq(Nat) /\ n \in 1..Len(rest)
      BY <1>1, <1>2
    <3>3. /\ SubSeq(rest, n + 1, Len(rest)) \in Seq(Nat)
          /\ body.hashed \o SubSeq(rest, 1, n) \in Seq(Nat)
          /\ (body.hashed \o SubSeq(rest, 1, n)) \o SubSeq(rest, n + 1, Len(rest))
               = body.hashed \o rest
          /\ Len(body.hashed \o SubSeq(rest, 1, n)) = Len(body.hashed) + n
      BY <3>2, FrameMoves
    <3>4. rest' = SubSeq(rest, n + 1, Len(rest)) /\ request.body = body.hashed \o rest
      BY <1>2, <2>1
    <3> QED BY <3>1, <3>3, <3>4, Zenon
  <2>4. ReceivedLength = Len(body.hashed)
    <3>1. Len(request.body) = Len(body.hashed) + Len(rest)
      BY <1>1, <1>2, FrameMoves
    <3>2. Len(body.hashed) \in Nat /\ Len(rest) \in Nat
      BY <1>2, LenProperties
    <3> QED BY <3>1, <3>2 DEF ReceivedLength
  <2>5. Len(body'.hashed) <= BodyLimit
    <3>1. Len(body.hashed) \in Nat /\ n \in Nat /\ BodyLimit \in Nat
      BY <1>1, <1>2, LenProperties, BodyLimitAssumption
    <3> QED BY <1>4, <2>3, <2>4, <3>1
  <2>6. HasherHoldsReceived'
    BY <1>1, <2>2, <2>3, <2>5 DEF HasherHoldsReceived
  <2>7. TrustIsSigned'
    BY <1>1, <2>1 DEF IndInv, TrustIsSigned
  <2> QED BY <1>1, <1>2, <2>1, <2>6, <2>7, NothingQueued
          DEF IndInv, Handling, Untouched, BodyChecked
<1>5. pc' = "done" \/ ~(ReceivedLength + n > BodyLimit)
  BY DEF ReceiveFrame, Answer
<1> QED BY <1>3, <1>4, <1>5

LEMMA StreamFailsPreserves ==
    ASSUME IndInv, StreamFails
    PROVE  IndInv'
<1>1. pc' = "done" /\ queued' = None
  BY DEF IndInv, StreamFails, Answer
<1> QED BY <1>1, NothingQueued
        DEF IndInv, Handling, Untouched, HasherHoldsReceived, TrustIsSigned, BodyChecked

LEMMA EndOfBodyPreserves ==
    ASSUME IndInv, EndOfBody
    PROVE  IndInv'
<1>1. /\ pc = "body" /\ rest = <<>> /\ pc' \in {"done", "enqueue"}
      /\ request' = request /\ rest' = rest /\ trust' = trust /\ key' = key /\ queued' = None
  BY DEF IndInv, EndOfBody, Answer
<1>2. /\ body.hashed \in Seq(Nat) /\ ~body.done
      /\ request.body = body.hashed \o rest /\ Len(body.hashed) <= BodyLimit
      /\ request \in Posts
  BY <1>1 DEF IndInv, HasherHoldsReceived, Handling
<1>3. request.body = body.hashed
  BY <1>1, <1>2, ConcatEmptySeq
<1>4. pc' = "enqueue" => request.body \in Activities
  BY DEF EndOfBody, Answer
\* The second call of finalize finds the first one done.
<1>5. ASSUME pc' = "enqueue", trust # None, trust.digest # None
      PROVE  Digest(request.body) = trust.digest
  <2>1. body' = AtEnd(body, trust.digest) /\ body'.digest_ok
    BY <1>5 DEF EndOfBody, Answer
  <2>2. AtEnd(body, trust.digest).digest_ok = (Digest(body.hashed) = trust.digest)
    BY <1>2 DEF AtEnd, Finalize
  <2> QED BY <1>3, <2>1, <2>2
<1>6. BodyChecked'
  BY <1>1, <1>2, <1>3, <1>4, <1>5 DEF BodyChecked
<1>7. TrustIsSigned'
  BY <1>1 DEF IndInv, TrustIsSigned
<1> QED BY <1>1, <1>2, <1>6, <1>7, NothingQueued
        DEF IndInv, Handling, Untouched, HasherHoldsReceived

\* A signed line is a header that arrived or the rebuilt target; the digest
\* among them is expected.
LEMMA SignedLines ==
    ASSUME NEW r \in Posts, Verifiable(Rebuilt(r)), NEW line,
           NEW j \in DOMAIN SignTarget(Rebuilt(r)), line = SignTarget(Rebuilt(r))[j]
    PROVE  /\ line[1] = RequestTarget => line[2] = Text(InboxUri[Username[r.path]])
           /\ line[1] = "digest" => line[2] = Expected(Rebuilt(r)) /\ Expected(Rebuilt(r)) # None
           /\ line[1] # RequestTarget => line[1] \in DOMAIN r.headers /\ line[2] = r.headers[line[1]]
<1> DEFINE b == Rebuilt(r)
           n == Value(b, "headers")[j]
<1>1. /\ b.path = InboxUri[Username[r.path]]
      /\ DOMAIN b.headers = {h \in DOMAIN r.headers : r.headers[h] # NotText}
      /\ \A h \in DOMAIN b.headers : b.headers[h] = r.headers[h]
  BY RebuiltRequest
<1> HIDE DEF b
<1>2. j \in DOMAIN Value(b, "headers") /\ line = Line(b, n)
  BY DEF SignTarget, b
<1>3. n \in DOMAIN b.headers \cup {RequestTarget}
  BY <1>2 DEF Verifiable, Has, b
<1>4. line[1] = n /\ line[2] = IF n = RequestTarget THEN Text(b.path) ELSE b.headers[n]
  BY <1>2 DEF Line
<1>5. n # RequestTarget => n \in DOMAIN r.headers /\ line[2] = r.headers[n]
  BY <1>1, <1>3, <1>4
<1>6. ASSUME n = "digest"
      PROVE  line[2] = Expected(b) /\ Expected(b) # None
  <2>1. n # RequestTarget
    BY <1>6 DEF RequestTarget
  <2>2. line[2] = b.headers["digest"] /\ line[2] # None
    BY <1>4, <1>5, <1>6, <2>1, PostsAssumption
  <2>3. Expected(b) = b.headers["digest"]
    BY <1>2, <1>6 DEF Expected
  <2> QED BY <2>2, <2>3
<1> QED BY <1>1, <1>4, <1>5, <1>6 DEF b

LEMMA EnqueuePreserves ==
    ASSUME IndInv, NEW sent, Enqueue(sent)
    PROVE  IndInv'
<1>1. /\ pc = "enqueue" /\ pc' = "done"
      /\ request' = request /\ rest' = rest /\ trust' = trust /\ key' = key
      /\ queued' = IF sent THEN Message(request, trust) ELSE None
  BY DEF Enqueue, Answer
<1>2. /\ request \in Posts
      /\ rest = <<>> /\ Len(request.body) <= BodyLimit /\ request.body \in Activities
      /\ trust # None /\ trust.digest # None => Digest(request.body) = trust.digest
  BY <1>1 DEF IndInv, BodyChecked, Handling
<1>3. trust # None =>
        /\ Verifiable(Rebuilt(request))
        /\ trust = Trusted(Rebuilt(request))
        /\ Value(request, "signature") = [key |-> key, text |-> SignTarget(Rebuilt(request))]
  BY <1>1 DEF IndInv, TrustIsSigned
<1>4. CASE queued' = None
  BY <1>1, <1>4, NothingQueued
     DEF IndInv, Handling, Untouched, HasherHoldsReceived, TrustIsSigned, BodyChecked
<1>5. CASE queued' # None /\ trust = None
  <2>1. queued' = [username |-> Username[request.path], about |-> request.body,
                   verified_body |-> None, actor |-> None]
    BY <1>1, <1>5 DEF Message
  <2>2. OnlyWholeBodies' /\ SignedBodyIsQueued'
    BY <1>1, <1>2, <2>1 DEF OnlyWholeBodies, SignedBodyIsQueued
  <2> QED BY <1>1, <2>2
          DEF IndInv, Handling, Untouched, HasherHoldsReceived, TrustIsSigned, BodyChecked
<1>6. CASE queued' # None /\ trust # None
  <2>1. trust.actor = ActorUrl(Value(request, "keyId")) /\ trust.digest = Expected(Rebuilt(request))
    BY <1>2, <1>3, <1>6, RebuiltRequest DEF Trusted
  <2>2. queued' = [username |-> Username[request.path], about |-> request.body,
                   verified_body |-> request.body, actor |-> ActorUrl(Value(request, "keyId"))]
    BY <1>1, <1>6, <2>1 DEF Message
  <2>3. ActorUrl(Value(request, "keyId")) # None /\ request.body # None
    <3>1. Given(request, "keyId") # {}
      BY <1>2, <1>3, <1>6, RebuiltRequest DEF Verifiable
    <3> QED BY <1>2, <3>1, PostsAssumption, NoneAssumption
  <2>4. OnlyWholeBodies'
    BY <1>1, <1>2, <2>2, <2>3 DEF OnlyWholeBodies
  <2>5. ASSUME NEW line, NEW j \in DOMAIN SignTarget(Rebuilt(request)),
               line = SignTarget(Rebuilt(request))[j]
        PROVE  /\ line[1] = RequestTarget => line[2] = Text(InboxUri[Username[request.path]])
               /\ line[1] = "digest" => line[2] = Digest(request.body)
               /\ line[1] # RequestTarget =>
                    line[1] \in DOMAIN request.headers /\ line[2] = request.headers[line[1]]
    <3>1. /\ line[1] = RequestTarget => line[2] = Text(InboxUri[Username[request.path]])
          /\ line[1] = "digest" =>
                line[2] = Expected(Rebuilt(request)) /\ Expected(Rebuilt(request)) # None
          /\ line[1] # RequestTarget =>
                line[1] \in DOMAIN request.headers /\ line[2] = request.headers[line[1]]
      BY <1>2, <1>3, <1>6, <2>5, SignedLines
    <3> QED BY <1>2, <1>6, <2>1, <3>1
  <2>6. SignedBodyIsQueued'
    <3> DEFINE text == SignTarget(Rebuilt(request))
    <3>1. \A line \in {text[k] : k \in DOMAIN text} :
            /\ line[1] = RequestTarget => line[2] = Text(InboxUri[Username[request.path]])
            /\ line[1] = "digest" => line[2] = Digest(request.body)
            /\ line[1] # RequestTarget =>
                 line[1] \in DOMAIN request.headers /\ line[2] = request.headers[line[1]]
      BY <2>5
    <3>2. Value(request, "signature") = [key |-> key, text |-> text]
      BY <1>3, <1>6
    <3>3. /\ queued'.username = Username[request.path] /\ queued'.verified_body = request.body
          /\ queued'.actor = ActorUrl(Value(request, "keyId"))
      BY <2>2
    <3>4. Value(request, "signature").key = key /\ Value(request, "signature").text = text
      BY <3>2
    <3> HIDE DEF text
    <3>5. Value(request, "signature")' = Value(request, "signature")
      BY <1>1 DEF Value, Given
    <3> QED BY <1>1, <3>1, <3>3, <3>4, <3>5 DEF SignedBodyIsQueued, Value, Given, Text, Digest, ActorUrl
  <2> QED BY <1>1, <2>4, <2>6
          DEF IndInv, Handling, Untouched, HasherHoldsReceived, TrustIsSigned, BodyChecked
<1> QED BY <1>4, <1>5, <1>6

LEMMA ClosePreserves ==
    ASSUME IndInv, Close
    PROVE  IndInv'
<1>1. pc' = "idle" /\ queued' = None /\ body' = EmptyBody /\ trust' = None
  BY DEF Close
<1> QED BY <1>1, NothingQueued
        DEF IndInv, Handling, Untouched, HasherHoldsReceived, TrustIsSigned, BodyChecked

LEMMA StepPreserves ==
    ASSUME IndInv, [Next]_vars
    PROVE  IndInv'
<1>1. CASE UNCHANGED vars
  BY <1>1 DEF IndInv, vars, Handling, Untouched, HasherHoldsReceived, TrustIsSigned, BodyChecked,
              OnlyWholeBodies, SignedBodyIsQueued
<1>2. CASE Next
  BY <1>2, GetPreserves, PostPreserves, ExistsUserPreserves, FetchKeyPreserves,
     ReceiveFramePreserves, StreamFailsPreserves, EndOfBodyPreserves, EnqueuePreserves,
     ClosePreserves DEF Next
<1> QED BY <1>1, <1>2

LEMMA Invariance == Spec => []IndInv
<1> QED BY InitIndInv, StepPreserves, PTL DEF Spec

-------------------------------------------------------------------------------
\* Whatever is queued is an activity that came in whole and within the limit,
\* and its body goes along if and only if an actor answers for it.
THEOREM OnlyWholeBodiesQueued == Spec => []OnlyWholeBodies
<1>1. IndInv => OnlyWholeBodies
  BY DEF IndInv
<1> QED BY <1>1, Invariance, PTL

\* Whatever is queued in the name of an actor was signed with the key fetched
\* from the actor's URL; a signed target is the inbox of the user it is queued
\* for, a signed digest that of the body queued, and any other signed line a
\* header that arrived.
THEOREM QueuedIsSigned == Spec => []SignedBodyIsQueued
<1>1. IndInv => SignedBodyIsQueued
  BY DEF IndInv
<1> QED BY <1>1, Invariance, PTL

-------------------------------------------------------------------------------
(* Content negotiation.                                                    *)

\* A GET that is answered is answered with what select says.
GetInv ==
    pc = "done" /\ request \notin Posts =>
        \E accept \in AcceptHeaders, candidate \in Products :
            /\ request = [accept |-> accept, candidate |-> candidate]
            /\ answer = Select(accept, candidate)

LEMMA GetInvStep == IndInv /\ GetInv /\ [Next]_vars => GetInv'
<1> SUFFICES ASSUME IndInv, GetInv, [Next]_vars PROVE GetInv'
  OBVIOUS
<1>1. ASSUME NEW accept \in AcceptHeaders, NEW candidate \in Products, Get(accept, candidate)
      PROVE  GetInv'
  BY <1>1 DEF Get, Answer, GetInv
<1>2. ASSUME NEW r \in Posts, Post(r)
      PROVE  GetInv'
  BY <1>2 DEF Post, GetInv
<1>3. CASE \/ \E found \in BOOLEAN : ExistsUser(found)
           \/ \E k \in Keys \cup {NoKey} : FetchKey(k)
           \/ \E n \in 1..Len(rest) : ReceiveFrame(n)
           \/ StreamFails
           \/ EndOfBody
           \/ \E sent \in BOOLEAN : Enqueue(sent)
  <2>1. Handling /\ request' = request
    BY <1>3 DEF Handling, ExistsUser, FetchKey, ReceiveFrame, StreamFails, EndOfBody, Enqueue
  <2> QED BY <2>1 DEF IndInv, GetInv
<1>4. CASE Close
  BY <1>4 DEF Close, GetInv
<1>5. CASE UNCHANGED vars
  BY <1>5 DEF vars, GetInv
<1> QED BY <1>1, <1>2, <1>3, <1>4, <1>5 DEF Next

\* Every GET is answered with the best type its Accept header allows, or with
\* Not Acceptable if it allows none: the max_by of select over ranges, each
\* standing for one type, loses nothing.
THEOREM NegotiationIsBest == Spec => []NegotiatesBest
<1>1. Init => GetInv
  BY DEF Init, GetInv
<1>2. GetInv => NegotiatesBest
  <2> SUFFICES ASSUME GetInv, pc = "done", request \notin Posts
               PROVE  IsBestAnswer(answer, request.accept, request.candidate)
    BY DEF NegotiatesBest
  <2>1. PICK accept \in AcceptHeaders, candidate \in Products :
            /\ request = [accept |-> accept, candidate |-> candidate]
            /\ answer = Select(accept, candidate)
    BY DEF GetInv
  <2>2. accept \in Seq(MediaRange) /\ candidate \in SUBSET Mimes
    BY AcceptAssumption, ProductsAssumption
  <2>3. IsBestAnswer(answer, accept, candidate)
    BY <2>1, <2>2, SelectIsBest
  <2> QED BY <2>1, <2>3
<1> QED BY <1>1, <1>2, GetInvStep, Invariance, PTL DEF Spec

-------------------------------------------------------------------------------
(* What sign() signs is accepted.                                          *)

\* The parts of a Signature header with four of them, each given once.
LEMMA FourParts ==
    ASSUME NEW r, NEW a, NEW b, NEW c, NEW d,
           r.signature = << <<"keyId", a>>, <<"algorithm", b>>, <<"headers", c>>, <<"signature", d>> >>
    PROVE  /\ \A part \in {"keyId", "algorithm", "headers", "signature"} : Given(r, part) # {}
           /\ Value(r, "keyId") = a /\ Value(r, "algorithm") = b
           /\ Value(r, "headers") = c /\ Value(r, "signature") = d
<1> DEFINE s == r.signature
<1>1. /\ DOMAIN s = {1, 2, 3, 4}
      /\ s[1] = <<"keyId", a>> /\ s[2] = <<"algorithm", b>>
      /\ s[3] = <<"headers", c>> /\ s[4] = <<"signature", d>>
  OBVIOUS
<1>2. /\ Given(r, "keyId") = {1} /\ Given(r, "algorithm") = {2}
      /\ Given(r, "headers") = {3} /\ Given(r, "signature") = {4}
  BY <1>1 DEF Given
<1>3. \A x \in Nat : (CHOOSE j \in {x} : \A i \in {x} : i <= j) = x
  OBVIOUS
<1> QED BY <1>1, <1>2, <1>3 DEF Value

\* A digest is no opaque value.
LEMMA DigestIsText ==
    ASSUME NEW b
    PROVE  Digest(b) # NotText
<1>1. DOMAIN Digest(b) = {"sha"} /\ DOMAIN NotText = {"bytes"}
  BY DEF Digest, NotText
<1> QED BY <1>1

\* A request as sign() leaves it can be verified after it was rebuilt, if it was
\* addressed as this server does: its Signature header has the four parts, names
\* headers it has, the digest of the body among them, and its text is that of the
\* lines it is rebuilt with.
LEMMA SignedIsVerifiable ==
    ASSUME NEW r \in Posts, NEW k, SignedBy(r, k), Addressed(r)
    PROVE  /\ Verifiable(Rebuilt(r)) /\ Expected(Rebuilt(r)) = Digest(r.body)
           /\ Value(r, "signature") = [key |-> k, text |-> SignTarget(Rebuilt(r))]
<1> DEFINE hs == [n \in DOMAIN r.headers \cup {"digest"} |->
                     IF n = "digest" THEN Digest(r.body) ELSE r.headers[n]]
           digested == [r EXCEPT !.headers = hs]
           text == [j \in 1..4 |-> Line(digested, SignedHeaders[j])]
           keyId == Value(r, "keyId")
           parts == << <<"keyId", keyId>>, <<"algorithm", "rsa-sha256">>, <<"headers", SignedHeaders>>,
                       <<"signature", [key |-> k, text |-> text]>> >>
           b == Rebuilt(r)
<1>1. r = [contentType |-> r.contentType, path |-> r.path, headers |-> r.headers,
           signature |-> r.signature, body |-> r.body]
  BY PostsAssumption
<1>2. r = [digested EXCEPT !.signature = parts]
  BY DEF SignedBy, Sign
<1>3. \A n \in {"date", "host"} : n \in DOMAIN r.headers /\ r.headers[n] # NotText
  BY DEF SignedBy
<1> HIDE DEF hs, parts
<1>4. digested = [contentType |-> r.contentType, path |-> r.path, headers |-> hs,
                  signature |-> r.signature, body |-> r.body]
  BY <1>1
<1>5. r = [contentType |-> r.contentType, path |-> r.path, headers |-> hs,
           signature |-> parts, body |-> r.body]
  BY <1>2, <1>4
<1>6. r.headers = hs /\ r.signature = parts
  BY <1>5
<1>7. digested = r
  BY <1>1, <1>4, <1>6
<1>8. /\ \A part \in {"keyId", "algorithm", "headers", "signature"} : Given(r, part) # {}
      /\ Value(r, "algorithm") = "rsa-sha256" /\ Value(r, "headers") = SignedHeaders
      /\ Value(r, "signature") = [key |-> k, text |-> text]
  BY <1>6, FourParts DEF parts
<1>9. /\ DOMAIN SignedHeaders = 1..4
      /\ SignedHeaders[1] = RequestTarget /\ SignedHeaders[2] = "date"
      /\ SignedHeaders[3] = "host" /\ SignedHeaders[4] = "digest"
  BY DEF SignedHeaders
<1>10. "digest" \in DOMAIN r.headers /\ r.headers["digest"] = Digest(r.body)
  BY <1>6 DEF hs
<1> HIDE DEF b
\* The lines are the same in the request that is rebuilt.
<1>11. /\ b.path = r.path
       /\ \A n \in {"date", "host", "digest"} : n \in DOMAIN b.headers /\ b.headers[n] = r.headers[n]
       /\ \A part : Given(b, part) = Given(r, part) /\ Value(b, part) = Value(r, part)
  <2>1. /\ b = [contentType |-> r.contentType, path |-> InboxUri[Username[r.path]],
                headers |-> b.headers, signature |-> r.signature, body |-> r.body]
        /\ DOMAIN b.headers = {n \in DOMAIN r.headers : r.headers[n] # NotText}
        /\ \A n \in DOMAIN b.headers : b.headers[n] = r.headers[n]
        /\ \A part : Given(b, part) = Given(r, part) /\ Value(b, part) = Value(r, part)
    BY RebuiltRequest DEF b
  <2>2. b.path = r.path
    BY <2>1 DEF Addressed
  <2>3. r.headers["digest"] # NotText
    BY <1>10, DigestIsText
  <2> QED BY <1>3, <1>10, <2>1, <2>2, <2>3
<1>12. \A j \in 1..4 : j = 1 \/ SignedHeaders[j] \in {"date", "host", "digest"}
  <2>1. \A j \in 1..4 : j = 1 \/ j = 2 \/ j = 3 \/ j = 4
    OBVIOUS
  <2> QED BY <1>9, <2>1
<1>13. \A j \in 1..4 : Has(b, SignedHeaders[j])
  BY <1>9, <1>11, <1>12 DEF Has
<1>14. \A j \in 1..4 : Line(b, SignedHeaders[j]) = Line(r, SignedHeaders[j])
  BY <1>9, <1>11, <1>12 DEF Line, RequestTarget
<1>15. Verifiable(b)
  BY <1>8, <1>9, <1>11, <1>13 DEF Verifiable
<1>16. Expected(b) = Digest(r.body)
  BY <1>8, <1>9, <1>10, <1>11 DEF Expected
<1>17. text = SignTarget(b)
  <2>1. SignTarget(b) = [j \in 1..4 |-> Line(b, SignedHeaders[j])]
    BY <1>8, <1>9, <1>11 DEF SignTarget
  <2> QED BY <1>7, <1>14, <2>1
<1> QED BY <1>8, <1>15, <1>16, <1>17 DEF b

\* A request that should be accepted, by key k.
Intact(r, k) ==
    /\ SignedBy(r, k)
    /\ Addressed(r)
    /\ IsContentTypeAP(r.contentType)
    /\ r.body \in Activities
    /\ Len(r.body) <= BodyLimit

\* The inductive invariant behind IntactAccepted: no key counts before it is
\* fetched, and then the request is trusted with the digest of its body.
IntactInv ==
    /\ pc \in {"idle", "user", "key"} => key = NoKey
    /\ pc \in {"body", "enqueue"} /\ ~mishap /\ Intact(request, key) =>
          trust = [actor |-> ActorUrl(Value(request, "keyId")), digest |-> Digest(request.body)]
    /\ IntactAccepted

\* Without a key nothing is intact.
LEMMA NoKeySignsNothing ==
    ASSUME NEW r, NEW k, k = NoKey
    PROVE  ~SignedBy(r, k)
BY NoKeyAssumption DEF SignedBy

\* A request that is not answered yet, or not intact, leaves nothing to show.
LEMMA NotIntact ==
    ASSUME mishap' \/ ~Intact(request', key')
    PROVE  IntactAccepted'
BY DEF IntactAccepted, Intact, SignedBy, Addressed, IsContentTypeAP, Given, Value, Sign, Digest, Line, Text,
         NotText

LEMMA IntactStep == IndInv /\ IntactInv /\ [Next]_vars => IntactInv'
<1> SUFFICES ASSUME IndInv, IntactInv, [Next]_vars PROVE IntactInv'
  OBVIOUS
<1>1. ASSUME key' = NoKey, pc' \notin {"body", "enqueue"}
      PROVE  IntactInv'
  <2>1. ~Intact(request', key')
    BY <1>1, NoKeySignsNothing DEF Intact
  <2> QED BY <1>1, <2>1, NotIntact DEF IntactInv
<1>2. ASSUME NEW accept, NEW candidate, Get(accept, candidate)
      PROVE  IntactInv'
  BY <1>1, <1>2 DEF Get, Answer, IntactInv
<1>3. ASSUME NEW r \in Posts, Post(r)
      PROVE  IntactInv'
  BY <1>1, <1>3 DEF Post, IntactInv
<1>4. ASSUME NEW found, ExistsUser(found)
      PROVE  IntactInv'
  <2>1. key' = NoKey
    BY <1>4 DEF ExistsUser, IntactInv
  <2>2. ~Intact(request', key')
    BY <2>1, NoKeySignsNothing DEF Intact
  <2>3. ~Intact(request, key)'
    BY <2>2 DEF Intact, SignedBy, Addressed, IsContentTypeAP, Given, Value, Sign, Digest, Line, Text,
         NotText
  <2> QED BY <2>1, <2>2, <2>3, NotIntact DEF IntactInv
<1>5. CASE Close
  BY <1>1, <1>5 DEF Close
<1>6. ASSUME NEW k \in Keys \cup {NoKey}, FetchKey(k)
      PROVE  IntactInv'
  <2>1. /\ pc = "key" /\ pc' \in {"done", "body"} /\ key' = k /\ request' = request
        /\ request \in Posts
    BY <1>6 DEF FetchKey, Answer, IndInv, Handling
  <2>2. CASE ~Intact(request, k)
    <3>1. ~Intact(request', key')
      BY <2>1, <2>2
    <3>2. ~Intact(request, key)'
      BY <3>1 DEF Intact, SignedBy, Addressed, IsContentTypeAP, Given, Value, Sign, Digest, Line, Text,
         NotText
    <3> QED BY <2>1, <3>1, <3>2, NotIntact DEF IntactInv
  <2>3. CASE Intact(request, k)
    <3>1. /\ Expected(Rebuilt(request)) = Digest(request.body)
          /\ Value(request, "signature") = [key |-> k, text |-> SignTarget(Rebuilt(request))]
          /\ \A part : Value(Rebuilt(request), part) = Value(request, part)
      BY <2>1, <2>3, SignedIsVerifiable, RebuiltRequest DEF Intact
    <3>2. k # NoKey /\ Value(request, "signature").key # NoKey
      BY <2>3, <3>1, NoKeyAssumption DEF Intact, SignedBy
    <3>3. /\ pc' = "body"
          /\ trust' = [actor |-> ActorUrl(Value(request, "keyId")), digest |-> Digest(request.body)]
      <4>1. pc' = "body" /\ trust' = Trusted(Rebuilt(request))
        BY <1>6, <3>1, <3>2 DEF FetchKey
      <4> QED BY <3>1, <4>1 DEF Trusted
    <3> QED BY <2>1, <3>3 DEF IntactInv, IntactAccepted, Answered, Value, Given, Digest, ActorUrl
  <2> QED BY <2>2, <2>3
\* A step that does not answer and keeps what was found out.
<1>7. ASSUME pc \in {"body", "enqueue"}, pc' \in {"body", "enqueue"},
             UNCHANGED <<request, trust, key, mishap>>
      PROVE  IntactInv'
  <2>1. Intact(request, key)' <=> Intact(request, key)
    BY <1>7 DEF Intact, SignedBy, Addressed, IsContentTypeAP, Given, Value, Sign, Digest, Line, Text,
         NotText
  <2> QED BY <1>7, <2>1 DEF IntactInv, IntactAccepted, Answered, Value, Given, Digest, ActorUrl
\* An answer that is not for an intact request.
<1>8. ASSUME pc' = "done", UNCHANGED <<request, key>>, mishap' \/ ~Intact(request, key)
      PROVE  IntactInv'
  <2>1. mishap' \/ ~Intact(request', key')
    BY <1>8
  <2> QED BY <1>8, <2>1, NotIntact DEF IntactInv
<1>9. ASSUME NEW n \in 1..Len(rest), ReceiveFrame(n)
      PROVE  IntactInv'
  <2>1. pc = "body" /\ UNCHANGED <<request, trust, key, mishap>>
    BY <1>9 DEF ReceiveFrame
  <2>2. CASE ReceivedLength + n > BodyLimit
    <3>1. pc' = "done"
      BY <1>9, <2>2 DEF ReceiveFrame, Answer
    <3>2. request \in Posts /\ rest \in Seq(Nat)
      BY <2>1 DEF IndInv, Handling, HasherHoldsReceived
    <3>3. Len(request.body) \in Nat /\ Len(rest) \in Nat /\ n \in 1..Len(rest) /\ BodyLimit \in Nat
      BY <3>2, PostsAssumption, BodyLimitAssumption
    <3>4. ~(Len(request.body) <= BodyLimit)
      BY <2>2, <3>3 DEF ReceivedLength
    <3> QED BY <1>8, <2>1, <3>1, <3>4 DEF Intact
  <2>3. CASE ~(ReceivedLength + n > BodyLimit)
    <3>1. pc' = "body"
      BY <1>9, <2>1, <2>3 DEF ReceiveFrame
    <3> QED BY <1>7, <2>1, <3>1
  <2> QED BY <2>2, <2>3
<1>10. CASE StreamFails
  BY <1>8, <1>10 DEF StreamFails, Answer
<1>11. CASE EndOfBody
  <2>1. /\ pc = "body" /\ rest = <<>> /\ pc' \in {"done", "enqueue"}
        /\ UNCHANGED <<request, trust, key, mishap>>
    BY <1>11 DEF EndOfBody, Answer
  <2>2. CASE mishap \/ ~Intact(request, key)
    BY <1>7, <1>8, <2>1, <2>2
  <2>3. CASE ~mishap /\ Intact(request, key)
    <3>1. trust = [actor |-> ActorUrl(Value(request, "keyId")), digest |-> Digest(request.body)]
      BY <2>1, <2>3 DEF IntactInv
    <3>2. ~body.done /\ request.body = body.hashed
      BY <2>1, ConcatEmptySeq DEF IndInv, HasherHoldsReceived
    <3>3. AtEnd(body, trust.digest).digest_ok
      BY <3>1, <3>2 DEF AtEnd, Finalize
    <3>4. pc' = "enqueue"
      BY <1>11, <2>3, <3>3 DEF EndOfBody, Intact
    <3> QED BY <1>7, <2>1, <3>4
  <2> QED BY <2>2, <2>3
<1>12. ASSUME NEW sent \in BOOLEAN, Enqueue(sent)
       PROVE  IntactInv'
  <2>1. /\ pc = "enqueue" /\ pc' = "done" /\ answer' = "accepted"
        /\ UNCHANGED <<request, trust, key>> /\ mishap' = (mishap \/ ~sent)
        /\ queued' = IF sent THEN Message(request, trust) ELSE None
    BY <1>12 DEF Enqueue, Answer
  <2>2. CASE mishap \/ ~sent \/ ~Intact(request, key)
    BY <1>8, <2>1, <2>2
  <2>3. CASE ~mishap /\ sent /\ Intact(request, key)
    <3>1. trust = [actor |-> ActorUrl(Value(request, "keyId")), digest |-> Digest(request.body)]
      BY <2>1, <2>3 DEF IntactInv
    <3>2. trust # None
      <4>1. request \in Posts
        BY <2>1 DEF IndInv, Handling
      <4>2. /\ Verifiable(Rebuilt(request)) /\ Expected(Rebuilt(request)) = Digest(request.body)
            /\ \A part : Value(Rebuilt(request), part) = Value(request, part)
        BY <2>3, <4>1, SignedIsVerifiable, RebuiltRequest DEF Intact
      <4>3. trust = Trusted(Rebuilt(request))
        BY <3>1, <4>2 DEF Trusted
      <4> QED BY <4>1, <4>2, <4>3, TrustAssumption
    <3>3. queued' = [username |-> Username[request.path], about |-> request.body,
                     verified_body |-> request.body, actor |-> ActorUrl(Value(request, "keyId"))]
      BY <2>1, <2>3, <3>1, <3>2 DEF Message
    <3>4. IntactAccepted'
      BY <2>1, <3>3 DEF IntactAccepted, Value, Given, ActorUrl
    <3> QED BY <2>1, <3>4 DEF IntactInv
  <2> QED BY <2>2, <2>3
<1>13. CASE UNCHANGED vars
  <2>1. UNCHANGED <<pc, request, trust, queued, answer, key, mishap>>
    BY <1>13 DEF vars
  <2>2. Intact(request, key)' <=> Intact(request, key)
    BY <2>1 DEF Intact, SignedBy, Addressed, IsContentTypeAP, Given, Value, Sign, Digest, Line, Text,
         NotText
  <2>3. pc' = "done" => IntactAccepted'
    <3>1. Answered' <=> Answered
      BY <2>1 DEF Answered
    <3>2. SignedBy(request, key)' <=> SignedBy(request, key)
      BY <2>1 DEF SignedBy, Given, Value, Sign, Digest, Line, Text, NotText
    <3>3. IntactAccepted
      BY DEF IntactInv
    <3> QED BY <2>1, <3>1, <3>2, <3>3 DEF IntactAccepted, Addressed, IsContentTypeAP, Value, Given, ActorUrl
  <2>4. pc' # "done" => IntactAccepted'
    BY DEF IntactAccepted, Answered
  <2> QED BY <2>1, <2>2, <2>3, <2>4 DEF IntactInv, Value, Given, Digest, ActorUrl
<1> QED BY <1>2, <1>3, <1>4, <1>5, <1>6, <1>9, <1>10, <1>11, <1>12, <1>13 DEF Next

\* Two servers that run this code understand each other: what sign() signed for
\* an inbox as this server spells its address and what arrives as it was sent, in
\* whatever frames, is queued for that user as verified, with its body and in the
\* name of the actor whose key it is.
THEOREM SignedIsAccepted == Spec => []IntactAccepted
<1>1. Init => IntactInv
  BY DEF Init, IntactInv, IntactAccepted, Answered
<1>2. IntactInv => IntactAccepted
  BY DEF IntactInv
<1> QED BY <1>1, <1>2, IntactStep, Invariance, PTL DEF Spec

-------------------------------------------------------------------------------
(* Types.                                                                  *)

\* No answer is left over from the last request.
TypeInv == TypeOK /\ (pc = "idle" => answer = "none")

\* What the statuses and the body of an answer need of each step.
LEMMA AnswerTypes ==
    ASSUME TypeInv, pc' = "done", rest' = rest, body' = body, mishap' \in BOOLEAN,
           key' \in Keys \cup {NoKey},
           answer' \in Mimes \cup {NotAcceptable, "not_found", "bad_request", "accepted"}
    PROVE  TypeInv'
BY DEF TypeInv, TypeOK

\* A hasher of these values has fields of these types.
LEMMA HasherTypes ==
    ASSUME NEW h \in Seq(Nat), NEW d \in BOOLEAN, NEW o \in BOOLEAN,
           NEW b, b = [hashed |-> h, done |-> d, digest_ok |-> o]
    PROVE  b.hashed \in Seq(Nat) /\ b.done \in BOOLEAN /\ b.digest_ok \in BOOLEAN
OBVIOUS

LEMMA EmptyBodyTypes ==
    /\ EmptyBody.hashed \in Seq(Nat)
    /\ EmptyBody.done \in BOOLEAN /\ EmptyBody.digest_ok \in BOOLEAN
<1>1. <<>> \in Seq(Nat) /\ FALSE \in BOOLEAN
  OBVIOUS
<1> QED BY <1>1, HasherTypes DEF EmptyBody

\* What the end of the body makes of the hasher.
LEMMA AtEndTypes ==
    ASSUME NEW h \in Seq(Nat), NEW d, NEW b,
           b = [hashed |-> h, done |-> FALSE, digest_ok |-> FALSE]
    PROVE  /\ AtEnd(b, d).hashed \in Seq(Nat)
           /\ AtEnd(b, d).done \in BOOLEAN /\ AtEnd(b, d).digest_ok \in BOOLEAN
<1>1. AtEnd(b, d) = [hashed |-> <<>>, done |-> TRUE, digest_ok |-> Digest(h) = d]
  <2>1. ~b.done /\ b.hashed = h
    OBVIOUS
  <2>2. Finalize(b, d) = [hashed |-> <<>>, done |-> TRUE, digest_ok |-> Digest(h) = d]
    BY <2>1 DEF Finalize
  <2>3. Finalize(b, d).done
    BY <2>2
  <2> QED BY <2>2, <2>3 DEF AtEnd, Finalize
<1>2. <<>> \in Seq(Nat) /\ TRUE \in BOOLEAN /\ (Digest(h) = d) \in BOOLEAN
  OBVIOUS
<1> QED BY <1>1, <1>2, HasherTypes

LEMMA TypeStep == IndInv /\ TypeInv /\ [Next]_vars => TypeInv'
<1> SUFFICES ASSUME IndInv, TypeInv, [Next]_vars PROVE TypeInv'
  OBVIOUS
<1>1. ASSUME NEW accept \in AcceptHeaders, NEW candidate \in Products, Get(accept, candidate)
      PROVE  TypeInv'
  <2>1. accept \in Seq(MediaRange) /\ candidate \in SUBSET Mimes
    BY AcceptAssumption, ProductsAssumption
  <2>2. Select(accept, candidate) \in Mimes \cup {NotAcceptable}
    BY <2>1, SelectIsBest
  <2>3. answer' \in Mimes \cup {NotAcceptable, "not_found", "bad_request", "accepted"}
    BY <1>1, <2>2 DEF Get, Answer
  <2> QED BY <1>1, <2>3, AnswerTypes DEF Get, Answer, TypeInv, TypeOK
<1>2. ASSUME NEW r \in Posts, Post(r)
      PROVE  TypeInv'
  <2>1. r.body \in Seq(Nat)
    BY PostsAssumption
  <2> QED BY <1>2, <2>1 DEF Post, TypeInv, TypeOK
<1>3. ASSUME NEW found \in BOOLEAN, ExistsUser(found)
      PROVE  TypeInv'
  BY <1>3 DEF ExistsUser, Answer, TypeInv, TypeOK
<1>4. ASSUME NEW k \in Keys \cup {NoKey}, FetchKey(k)
      PROVE  TypeInv'
  BY <1>4 DEF FetchKey, Answer, TypeInv, TypeOK
<1>5. ASSUME NEW n \in 1..Len(rest), ReceiveFrame(n)
      PROVE  TypeInv'
  <2>1. pc = "body" /\ key' = key /\ request' = request /\ mishap' = mishap
    BY <1>5 DEF ReceiveFrame
  <2>2. CASE ReceivedLength + n > BodyLimit
    BY <1>5, <2>1, <2>2, AnswerTypes DEF ReceiveFrame, Answer, TypeInv, TypeOK
  <2>3. CASE ~(ReceivedLength + n > BodyLimit)
    <3>1. /\ pc' = "body" /\ answer' = answer /\ rest' = SubSeq(rest, n + 1, Len(rest))
          /\ body' = Update(body, SubSeq(rest, 1, n))
      BY <1>5, <2>1, <2>3 DEF ReceiveFrame
    <3>2. /\ rest \in Seq(Nat) /\ body.hashed \in Seq(Nat)
          /\ body = [hashed |-> body.hashed, done |-> FALSE, digest_ok |-> FALSE]
      BY <2>1 DEF IndInv, HasherHoldsReceived
    <3>3. body' = [hashed |-> body.hashed \o SubSeq(rest, 1, n), done |-> FALSE, digest_ok |-> FALSE]
      BY <3>1, <3>2, UpdateAppends, Zenon
    <3>4. /\ SubSeq(rest, n + 1, Len(rest)) \in Seq(Nat)
          /\ body.hashed \o SubSeq(rest, 1, n) \in Seq(Nat)
      BY <3>2, FrameMoves
    <3>5. /\ rest' \in Seq(Nat) /\ body'.hashed \in Seq(Nat)
          /\ body'.done \in BOOLEAN /\ body'.digest_ok \in BOOLEAN
      BY <3>1, <3>3, <3>4, HasherTypes
    <3> QED BY <2>1, <3>1, <3>5 DEF TypeInv, TypeOK
  <2> QED BY <2>2, <2>3
<1>6. CASE StreamFails
  BY <1>6, AnswerTypes DEF StreamFails, Answer, TypeInv, TypeOK
<1>7. CASE EndOfBody
  <2>1. /\ pc = "body" /\ pc' \in {"done", "enqueue"} /\ rest' = rest
        /\ UNCHANGED <<request, key, mishap>>
        /\ body' = body \/ body' = AtEnd(body, trust.digest)
        /\ pc' = "enqueue" => answer' = answer
        /\ pc' = "done" => answer' = "bad_request"
    BY <1>7 DEF EndOfBody, Answer
  <2>2. /\ body.hashed \in Seq(Nat)
        /\ body = [hashed |-> body.hashed, done |-> FALSE, digest_ok |-> FALSE]
    BY <2>1 DEF IndInv, HasherHoldsReceived
  <2>3. /\ body'.hashed \in Seq(Nat)
        /\ body'.done \in BOOLEAN /\ body'.digest_ok \in BOOLEAN
    <3>1. CASE body' = body
      BY <3>1 DEF TypeInv, TypeOK
    <3>2. CASE body' = AtEnd(body, trust.digest)
      BY <2>2, <3>2, AtEndTypes
    <3> QED BY <2>1, <3>1, <3>2
  <2> QED BY <2>1, <2>3 DEF TypeInv, TypeOK
<1>8. ASSUME NEW sent \in BOOLEAN, Enqueue(sent)
      PROVE  TypeInv'
  BY <1>8, AnswerTypes DEF Enqueue, Answer, TypeInv, TypeOK
<1>9. CASE Close
  <2>1. rest' = <<>> /\ mishap' = FALSE /\ answer' = "none"
    BY <1>9 DEF Close
  <2>2. rest' \in Seq(Nat)
    BY <2>1
  <2>3. answer' = NotAcceptable
    BY <2>1 DEF NotAcceptable
  <2> QED BY <1>9, <2>1, <2>2, <2>3, EmptyBodyTypes DEF Close, TypeInv, TypeOK
<1>10. CASE UNCHANGED vars
  BY <1>10 DEF vars, TypeInv, TypeOK
<1> QED BY <1>1, <1>2, <1>3, <1>4, <1>5, <1>6, <1>7, <1>8, <1>9, <1>10 DEF Next

\* Every variable keeps its type, whatever requests arrive: the hasher holds a
\* body and never half of one, and no answer outlives its request.
THEOREM RequestTypes == Spec => []TypeOK
<1>1. Init => TypeInv
  <2> SUFFICES ASSUME Init PROVE TypeInv
    OBVIOUS
  <2>1. rest = <<>> /\ mishap = FALSE /\ answer = "none"
    BY DEF Init
  <2>2. rest \in Seq(Nat)
    BY <2>1
  <2>3. answer = NotAcceptable
    BY <2>1 DEF NotAcceptable
  <2> QED BY <2>1, <2>2, <2>3, EmptyBodyTypes DEF Init, TypeInv, TypeOK
<1>2. TypeInv => TypeOK
  BY DEF TypeInv
<1> QED BY <1>1, <1>2, TypeStep, Invariance, PTL DEF Spec
===============================================================================
