--------------------------- MODULE Delivery_proofs ---------------------------
(***************************************************************************)
(* Proofs about Delivery, for every choice of its constants: the type      *)
(* invariant, that no follower is skipped, that only followers are posted  *)
(* to, and that none is posted an event again after a final answer.        *)
(***************************************************************************)
EXTENDS Delivery, FiniteSetTheorems, SequenceTheorems, TLAPS

-------------------------------------------------------------------------------
(* The inductive invariant.                                                *)

\* Where a worker stands agrees with its batch and with what is left to do.
WorkersAligned ==
    \A w \in Workers :
        /\ pc[w] # "next" => batch[w] # <<>>
        /\ pc[w] # "enqueue" => todo[w] = <<>>
        /\ pc[w] = "finished" => Recipient(Current(w)) \in settled[Current(w).ev]
        /\ pc[w] \in {"finished", "retry"} => Current(w).type = "Post"

\* Message m is on its way to the recipient p of event e.
Leads(m, e, p) ==
    /\ m.ev = e
    /\ m.author = p[1]
    /\ \/ m.type = "Batch" /\ m.at < p[2]
       \/ m.type = "Post" /\ m.at = p[2]

\* A waiting message: it will be processed from the start.  The message a worker
\* is expanding is not, what it has yet to enqueue stands for it.
Waiting(m) ==
    \/ m \in Queued
    \/ \E w \in Workers : \E k \in DOMAIN batch[w] :
          batch[w][k] = m /\ (k > 1 \/ pc[w] # "enqueue")
    \/ \E w \in Workers : \E k \in DOMAIN todo[w] :
          todo[w][k] = m /\ Current(w).type = "Batch"

\* Whoever is owed an event follows the user who announced it.
DueFollow == \A e \in Events : due[e] \subseteq Following

\* Whoever is owed an event and not told has a waiting message on the way.
Covered ==
    \A e \in Events \ damaged : \A p \in due[e] \ settled[e] :
        \E m \in Message : Waiting(m) /\ Leads(m, e, p)

\* Messages are about announced events, of which followers may be told.
AnnouncedOnly ==
    /\ \A m \in InFlight : m.ev \in announced
    /\ \A e \in announced : Following \subseteq eligible[e]
    /\ \A e \in Events \ announced : settled[e] = {}

IndInv ==
    /\ TypeOK
    /\ WorkersAligned
    /\ ExpansionAdvances
    /\ DueFollow
    /\ Covered
    /\ AnnouncedOnly
    /\ OnlyFollowersNotified

-------------------------------------------------------------------------------
(* Messages.                                                               *)

\* The fields of a message have the types their kind gives them.
LEMMA MessageFields ==
    ASSUME NEW m \in Message
    PROVE  /\ m.ev \in Events
           /\ m.tries \in Tries
           /\ m.type \in {"ToAll", "Batch", "Post"}
           /\ m.type = "Batch" => m.author \in Users /\ m.at \in Cursors
           /\ m.type = "Post" => m.author \in Users /\ m.at \in Inboxes
           /\ m.type = "ToAll" => m.author = None /\ m.at = EmptyString
  BY DEF Message

\* Cursors, and with them inboxes, are numbers.
LEMMA CursorsAreNumbers ==
    Cursors \subseteq Nat /\ Inboxes \subseteq Cursors
  BY InboxesAssumption DEF Cursors, EmptyString

\* A freshly made message is a message.
LEMMA FreshMessages ==
    ASSUME NEW e \in Events, NEW u \in Users, NEW last \in Cursors, NEW i \in Inboxes
    PROVE  /\ ToAll(e) \in Message
           /\ Batch(e, u, last) \in Message
           /\ Post(e, u, i) \in Message
  BY MaxRetriesAssumption DEF Message, ToAll, Batch, Post, Tries

\* Redelivery changes nothing of a message but its count.
LEMMA RedeliveredMessage ==
    ASSUME NEW m \in Message, CanRedeliver(m)
    PROVE  /\ Redelivered(m) \in Message
           /\ Redelivered(m).type = m.type
           /\ Redelivered(m).ev = m.ev
           /\ Redelivered(m).author = m.author
           /\ Redelivered(m).at = m.at
  <1>1. m.tries + 1 \in Tries
    BY MaxRetriesAssumption, MessageFields DEF CanRedeliver, Tries
  <1>2. CASE m \in [type : {"ToAll"}, ev : Events, author : {None},
                    at : {EmptyString}, tries : Tries]
    BY <1>1, <1>2 DEF Message, Redelivered
  <1>3. CASE m \in [type : {"Batch"}, ev : Events, author : Users,
                    at : Cursors, tries : Tries]
    BY <1>1, <1>3 DEF Message, Redelivered
  <1>4. CASE m \in [type : {"Post"}, ev : Events, author : Users,
                    at : Inboxes, tries : Tries]
    BY <1>1, <1>4 DEF Message, Redelivered
  <1> QED BY <1>2, <1>3, <1>4 DEF Message

\* Whether a message leads somewhere does not depend on its count.
LEMMA RedeliveredLeads ==
    ASSUME NEW m \in Message, CanRedeliver(m), NEW e, NEW p, Leads(m, e, p)
    PROVE  Leads(Redelivered(m), e, p)
  BY RedeliveredMessage DEF Leads

\* Copies counts, and counts at least one for a message that occurs.
LEMMA CopiesCount ==
    ASSUME NEW s \in Seq(Message), NEW m
    PROVE  /\ Copies(s, m) \in Nat
           /\ Copies(s, m) > 0 <=> \E k \in DOMAIN s : s[k] = m
  <1> DEFINE K == {k \in DOMAIN s : s[k] = m}
  <1>1. IsFiniteSet(K)
    <2>1. DOMAIN s = 1..Len(s) /\ Len(s) \in Nat
      OBVIOUS
    <2>2. IsFiniteSet(1..Len(s))
      BY <2>1, FS_Interval
    <2> QED BY <2>1, <2>2, FS_Subset
  <1>2. Cardinality(K) \in Nat
    BY <1>1, FS_CardinalityType
  <1>3. Cardinality(K) = 0 <=> K = {}
    BY <1>1, FS_EmptySet
  <1> QED BY <1>2, <1>3 DEF Copies

\* Requeueing only adds, adds every message that can be redelivered, and adds
\* nothing else.
LEMMA RequeuedQueue ==
    ASSUME TypeOK, NEW s \in Seq(Message)
    PROVE  /\ Requeued(s) \in [Message -> Nat]
           /\ \A m \in Message :
                 Requeued(s)[m] > 0 <=>
                   \/ queue[m] > 0
                   \/ \E k \in DOMAIN s : CanRedeliver(s[k]) /\ Redelivered(s[k]) = m
  <1> DEFINE K(m) == {k \in DOMAIN s : CanRedeliver(s[k]) /\ Redelivered(s[k]) = m}
  <1>1. \A m \in Message : Cardinality(K(m)) \in Nat /\ (Cardinality(K(m)) = 0 <=> K(m) = {})
    <2> SUFFICES ASSUME NEW m \in Message
                 PROVE  Cardinality(K(m)) \in Nat /\ (Cardinality(K(m)) = 0 <=> K(m) = {})
      OBVIOUS
    <2>1. DOMAIN s = 1..Len(s) /\ Len(s) \in Nat
      OBVIOUS
    <2>2. IsFiniteSet(1..Len(s))
      BY <2>1, FS_Interval
    <2>3. IsFiniteSet(K(m))
      BY <2>1, <2>2, FS_Subset
    <2> QED BY <2>3, FS_CardinalityType, FS_EmptySet
  <1>2. \A m \in Message : queue[m] \in Nat
    BY DEF TypeOK
  <1>3. Requeued(s) = [m \in Message |-> queue[m] + Cardinality(K(m))]
    BY DEF Requeued
  <1> HIDE DEF K
  <1>4. \A m \in Message : Requeued(s)[m] > 0 <=> queue[m] > 0 \/ K(m) # {}
    BY <1>1, <1>2, <1>3
  <1>5. Requeued(s) \in [Message -> Nat]
    BY <1>1, <1>2, <1>3
  <1> QED BY <1>4, <1>5 DEF K

-------------------------------------------------------------------------------
(* What processing a message enqueues.                                     *)

\* A page starts behind the cursor, and so does the cursor after it.
LEMMA PageCursor ==
    ASSUME NEW S \in SUBSET Inboxes, NEW last \in Cursors,
           NEW page \in Pages, IsPage(page, S, last)
    PROVE  /\ page \in Seq(Inboxes)
           /\ \A k \in 1..Len(page) : page[k] \in S /\ page[k] > last
           /\ IsFull(page) => NextLast(page) \in Inboxes /\ NextLast(page) > last
  <1>1. PICK n \in 0..BatchSize : page \in [1..n -> Inboxes]
    BY DEF Pages
  <1>2. page \in Seq(Inboxes) /\ Len(page) = n
    BY <1>1, BatchSizeAssumption
  <1>3. \A k \in 1..Len(page) : page[k] \in S /\ page[k] > last
    BY DEF IsPage
  <1>4. ASSUME IsFull(page)
        PROVE  NextLast(page) \in Inboxes /\ NextLast(page) > last
    <2>1. Len(page) \in 1..Len(page) /\ page # <<>>
      BY <1>2, <1>4, BatchSizeAssumption DEF IsFull
    <2> QED BY <2>1, <1>2, <1>3 DEF NextLast
  <1> QED BY <1>2, <1>3, <1>4

\* What a Batch message enqueues: Posts for the page and perhaps a Batch for
\* the next one, all of them further on.
LEMMA ExpansionMessages ==
    ASSUME NEW m \in Message, m.type = "Batch",
           NEW S \in SUBSET Inboxes, NEW page \in Pages, IsPage(page, S, m.at)
    PROVE  /\ Expansion(m, page) \in Seq(Message)
           /\ \A k \in DOMAIN Expansion(m, page) :
                 LET x == Expansion(m, page)[k]
                 IN  /\ x.ev = m.ev /\ x.author = m.author /\ x.tries = 0
                     /\ x.at > m.at
                     /\ x.type = "Batch" \/ (x.type = "Post" /\ x.at \in S)
           /\ \A k \in 1..Len(page) :
                 \E j \in DOMAIN Expansion(m, page) :
                    Expansion(m, page)[j] = Post(m.ev, m.author, page[k])
           /\ IsFull(page) => \E j \in DOMAIN Expansion(m, page) :
                 Expansion(m, page)[j] = Batch(m.ev, m.author, NextLast(page))
  <1>1. /\ m.ev \in Events /\ m.author \in Users /\ m.at \in Cursors
    BY MessageFields
  <1>2. /\ page \in Seq(Inboxes)
        /\ \A k \in 1..Len(page) : page[k] \in S /\ page[k] > m.at
        /\ IsFull(page) => NextLast(page) \in Inboxes /\ NextLast(page) > m.at
    BY <1>1, PageCursor
  <1> DEFINE P == Posts(m, page)
             N == NextBatch(m, page)
  <1>3. /\ P \in Seq(Message) /\ Len(P) = Len(page)
        /\ \A k \in 1..Len(page) : P[k] = Post(m.ev, m.author, page[k])
    <2>1. \A k \in 1..Len(page) : Post(m.ev, m.author, page[k]) \in Message
      BY <1>1, <1>2, FreshMessages DEF Cursors
    <2> QED BY <1>2, <2>1 DEF Posts
  <1>4. /\ N \in Seq(Message)
        /\ IsFull(page) => Len(N) = 1 /\ N[1] = Batch(m.ev, m.author, NextLast(page))
        /\ ~IsFull(page) => Len(N) = 0
    <2>1. IsFull(page) => Batch(m.ev, m.author, NextLast(page)) \in Message
      BY <1>1, <1>2, FreshMessages DEF Cursors
    <2> QED BY <2>1 DEF NextBatch
  <1> HIDE DEF P, N
  <1>5. Expansion(m, page) = N \o P
    BY DEF Expansion, P, N
  <1>6. /\ N \o P \in Seq(Message)
        /\ DOMAIN (N \o P) = 1..(Len(N) + Len(P))
        /\ \A k \in 1..Len(N) : (N \o P)[k] = N[k]
        /\ \A k \in 1..Len(P) : (N \o P)[k + Len(N)] = P[k]
    BY <1>3, <1>4
  <1>7. ASSUME NEW k \in DOMAIN (N \o P)
        PROVE  LET x == (N \o P)[k]
               IN  /\ x.ev = m.ev /\ x.author = m.author /\ x.tries = 0
                   /\ x.at > m.at
                   /\ x.type = "Batch" \/ (x.type = "Post" /\ x.at \in S)
    <2>1. CASE k \in 1..Len(N)
      BY <2>1, <1>2, <1>4, <1>6 DEF Batch
    <2>2. CASE k \notin 1..Len(N)
      <3>1. Len(N) \in Nat /\ Len(P) \in Nat
        BY <1>3, <1>4
      <3>2. PICK j \in 1..Len(P) : k = j + Len(N)
        <4>1. k - Len(N) \in 1..Len(P) /\ k = (k - Len(N)) + Len(N)
          BY <2>2, <3>1, <1>6
        <4> QED BY <4>1
      <3>3. (N \o P)[k] = Post(m.ev, m.author, page[j])
        BY <3>2, <1>3, <1>6
      <3> QED BY <3>2, <3>3, <1>2, <1>3 DEF Post
    <2> QED BY <2>1, <2>2
  <1>8. ASSUME NEW k \in 1..Len(page)
        PROVE  \E j \in DOMAIN (N \o P) : (N \o P)[j] = Post(m.ev, m.author, page[k])
    <2>1. k + Len(N) \in DOMAIN (N \o P)
      BY <1>3, <1>4, <1>6
    <2> QED BY <2>1, <1>3, <1>6
  <1>9. IsFull(page) => \E j \in DOMAIN (N \o P) :
                           (N \o P)[j] = Batch(m.ev, m.author, NextLast(page))
    <2> SUFFICES ASSUME IsFull(page)
                 PROVE  \E j \in DOMAIN (N \o P) :
                           (N \o P)[j] = Batch(m.ev, m.author, NextLast(page))
      OBVIOUS
    <2>1. Len(N) = 1 /\ Len(P) \in Nat
      BY <1>3, <1>4
    <2>2. 1 \in DOMAIN (N \o P) /\ 1 \in 1..Len(N)
      BY <2>1, <1>6
    <2> QED BY <2>2, <1>4, <1>6
  <1> QED BY <1>5, <1>6, <1>7, <1>8, <1>9

\* The message a worker is at, if it has one.
LEMMA CurrentMessage ==
    ASSUME TypeOK, NEW w \in Workers, batch[w] # <<>>
    PROVE  /\ Current(w) \in Message
           /\ 1 \in DOMAIN batch[w] /\ batch[w][1] = Current(w)
           /\ Tail(batch[w]) \in Seq(Message)
           /\ Len(Tail(batch[w])) = Len(batch[w]) - 1
           /\ \A k \in DOMAIN Tail(batch[w]) :
                 k + 1 \in DOMAIN batch[w] /\ Tail(batch[w])[k] = batch[w][k + 1]
           /\ \A k \in DOMAIN batch[w] : k > 1 =>
                 k - 1 \in DOMAIN Tail(batch[w]) /\ Tail(batch[w])[k - 1] = batch[w][k]
  BY HeadTailProperties DEF TypeOK, Current

-------------------------------------------------------------------------------
(* Type correctness.                                                       *)

LEMMA InitTypeOK == Init => TypeOK
  <1> SUFFICES ASSUME Init PROVE TypeOK
    OBVIOUS
  <1>1. <<>> \in Seq(Message)
    OBVIOUS
  <1>2. followers \subseteq Users \X Actors \X Inboxes
    BY DEF Init
  <1> QED BY <1>1, <1>2 DEF Init, TypeOK

\* Every worker's message to do next is one it may enqueue.
LEMMA TodoHead ==
    ASSUME TypeOK, NEW w \in Workers, todo[w] # <<>>
    PROVE  /\ Head(todo[w]) \in Message
           /\ 1 \in DOMAIN todo[w] /\ todo[w][1] = Head(todo[w])
           /\ Tail(todo[w]) \in Seq(Message)
           /\ \A k \in DOMAIN Tail(todo[w]) :
                 k + 1 \in DOMAIN todo[w] /\ Tail(todo[w])[k] = todo[w][k + 1]
           /\ \A k \in DOMAIN todo[w] : k > 1 =>
                 k - 1 \in DOMAIN Tail(todo[w]) /\ Tail(todo[w])[k - 1] = todo[w][k]
  BY HeadTailProperties DEF TypeOK

\* The inboxes of a user are inboxes.
LEMMA InboxesInType ==
    ASSUME TypeOK, NEW u
    PROVE  InboxesIn(followers, u) \in SUBSET Inboxes
  BY DEF TypeOK, InboxesIn

\* What a worker sets out to enqueue consists of messages.
LEMMA EnqueuesType ==
    ASSUME TypeOK, NEW w \in Workers, NEW msgs \in Seq(Message), Enqueues(w, msgs)
    PROVE  /\ todo' \in [Workers -> Seq(Message)]
           /\ pc' \in [Workers -> {"next", "enqueue", "finished", "retry"}]
           /\ author' = author /\ followers' = followers
           /\ queue' = queue /\ batch' = batch
  BY DEF TypeOK, Enqueues, store

\* The first Batch of an event is a message, if there is one.
LEMMA FirstBatchMessages ==
    ASSUME NEW e \in Events, NEW u \in Users \cup {None}
    PROVE  /\ FirstBatch(e, u) \in Seq(Message)
           /\ \A k \in DOMAIN FirstBatch(e, u) :
                 /\ FirstBatch(e, u)[k].ev = e
                 /\ FirstBatch(e, u)[k].type = "Batch"
                 /\ FirstBatch(e, u)[k].at = EmptyString
                 /\ FirstBatch(e, u)[k].tries = 0
  <1>1. CASE u = None
    BY <1>1 DEF FirstBatch
  <1>2. CASE u # None
    <2>1. Batch(e, u, EmptyString) \in Message
      BY <1>2, MaxRetriesAssumption DEF Message, Batch, Tries, Cursors
    <2>2. FirstBatch(e, u) = <<Batch(e, u, EmptyString)>>
      BY <1>2 DEF FirstBatch
    <2> QED BY <2>1, <2>2 DEF Batch
  <1> QED BY <1>1, <1>2

\* The author a ToAll message is expanded for, as each of its two arms finds it.
LEMMA AuthorTypes ==
    ASSUME TypeOK, NEW e \in Events
    PROVE  author[e.slug] \in Users \cup {None} /\ e.author \in Users \cup {None}
  BY EventsAssumption DEF TypeOK

LEMMA ReceiveTypes ==
    ASSUME TypeOK, NEW w \in Workers, ReceiveBatch(w)
    PROVE  \E b \in Seq(Message) :
              /\ \A k \in DOMAIN b : queue[b[k]] > 0
              /\ batch' = [batch EXCEPT ![w] = b]
              /\ queue' \in [Message -> Nat]
              /\ \A m \in Message :
                    /\ queue[m] > 0 => queue'[m] > 0 \/ \E k \in DOMAIN b : b[k] = m
                    /\ queue'[m] > 0 => queue[m] > 0
  <1>0. PICK n \in 1..MaxBatch : \E b \in [1..n -> Queued] :
          /\ \A k \in 1..n : Copies(b, b[k]) <= queue[b[k]]
          /\ queue' = [m \in Message |-> queue[m] - Copies(b, m)]
          /\ batch' = [batch EXCEPT ![w] = b]
    BY DEF ReceiveBatch
  <1>1. PICK b \in [1..n -> Queued] :
          /\ \A k \in 1..n : Copies(b, b[k]) <= queue[b[k]]
          /\ queue' = [m \in Message |-> queue[m] - Copies(b, m)]
          /\ batch' = [batch EXCEPT ![w] = b]
    BY <1>0
  <1>2. n \in Nat
    BY MaxBatchAssumption
  <1>3. Queued \subseteq Message
    BY DEF Queued
  <1>4. b \in Seq(Message) /\ DOMAIN b = 1..n
    BY <1>1, <1>2, <1>3
  <1>5. \A m \in Message : Copies(b, m) \in Nat /\ Copies(b, m) <= queue[m]
    <2> TAKE m \in Message
    <2>1. Copies(b, m) \in Nat /\ queue[m] \in Nat
      BY <1>4, CopiesCount DEF TypeOK
    <2>2. CASE Copies(b, m) = 0
      BY <2>1, <2>2
    <2>3. CASE Copies(b, m) > 0
      <3>1. PICK k \in DOMAIN b : b[k] = m
        BY <1>4, <2>3, CopiesCount
      <3> QED BY <1>1, <1>4, <2>1, <3>1
    <2> QED BY <2>1, <2>2, <2>3
  <1>6. \A m \in Message : queue[m] \in Nat
    BY DEF TypeOK
  <1>7. queue' \in [Message -> Nat]
    BY <1>1, <1>5, <1>6
  <1>8. ASSUME NEW m \in Message
        PROVE  /\ queue[m] > 0 => queue'[m] > 0 \/ \E k \in DOMAIN b : b[k] = m
               /\ queue'[m] > 0 => queue[m] > 0
    <2>1. queue'[m] = queue[m] - Copies(b, m)
      BY <1>1
    <2>2. queue[m] > 0 /\ queue'[m] = 0 => Copies(b, m) > 0
      BY <2>1, <1>5, <1>6
    <2>3. Copies(b, m) > 0 => \E k \in DOMAIN b : b[k] = m
      BY <1>4, CopiesCount
    <2>4. queue'[m] \in Nat
      BY <1>7
    <2>5. queue'[m] > 0 => queue[m] > 0
      BY <2>1, <2>4, <1>5, <1>6
    <2> QED BY <2>2, <2>3, <2>4, <2>5
  <1>9. \A k \in DOMAIN b : queue[b[k]] > 0
    BY <1>1, <1>4 DEF Queued
  <1> QED BY <1>1, <1>4, <1>7, <1>8, <1>9

LEMMA NextTypeOK == TypeOK /\ WorkersAligned /\ [Next]_vars => TypeOK'
  <1> SUFFICES ASSUME TypeOK, WorkersAligned, [Next]_vars PROVE TypeOK'
    OBVIOUS
  <1>1. ASSUME NEW e \in Events, Announce(e) PROVE TypeOK'
    <2>1. ToAll(e) \in Message
      BY MaxRetriesAssumption DEF ToAll, Message, Tries
    <2>2. queue' \in [Message -> Nat]
      BY <1>1, <2>1 DEF Announce, TypeOK
    <2>3. Following \subseteq Users \X Inboxes
      BY DEF TypeOK, Following, PairsIn
    <2>4. eligible' \in [Events -> SUBSET (Users \X Inboxes)]
      BY <1>1, <2>3 DEF Announce, TypeOK
    <2> QED BY <1>1, <2>2, <2>4 DEF Announce, TypeOK, store, consumer
  <1>2. ASSUME NEW site \in [Slugs -> Users \cup {None}], Redeploy(site) PROVE TypeOK'
    BY <1>2 DEF Redeploy, TypeOK, consumer, history
  <1>3. ASSUME NEW u \in Users, NEW a \in Actors, NEW i \in Inboxes, AddFollower(u, a, i)
        PROVE  TypeOK'
    <2>1. followers' \subseteq Users \X Actors \X Inboxes
      BY <1>3 DEF AddFollower, TypeOK
    <2>2. eligible' \in [Events -> SUBSET (Users \X Inboxes)]
      BY <1>3 DEF AddFollower, TypeOK
    <2> QED BY <1>3, <2>1, <2>2 DEF AddFollower, TypeOK, consumer
  <1>4. ASSUME NEW u \in Users, NEW a \in Actors, RemoveFollower(u, a) PROVE TypeOK'
    <2>1. followers' \subseteq Users \X Actors \X Inboxes
      BY <1>4 DEF RemoveFollower, TypeOK
    <2>2. due' \in [Events -> SUBSET (Users \X Inboxes)]
      BY <1>4 DEF RemoveFollower, TypeOK
    <2> QED BY <1>4, <2>1, <2>2 DEF RemoveFollower, TypeOK, consumer
  <1>5. ASSUME NEW w \in Workers, ReceiveBatch(w) PROVE TypeOK'
    <2>1. queue' \in [Message -> Nat] /\ batch' \in [Workers -> Seq(Message)]
      BY <1>5, ReceiveTypes DEF TypeOK
    <2> QED BY <1>5, <2>1 DEF ReceiveBatch, TypeOK, store, history
  <1>6. ASSUME NEW w \in Workers, NEW msgs \in Seq(Message), Enqueues(w, msgs),
               UNCHANGED <<announced, eligible, due, settled, repeated>>,
               damaged' \subseteq Events
        PROVE  TypeOK'
    BY <1>6, EnqueuesType DEF TypeOK
  <1>7. ASSUME NEW w \in Workers, ResolveAuthor(w) PROVE TypeOK'
    <2>1. Current(w).ev \in Events
      BY <1>7, CurrentMessage, MessageFields DEF ResolveAuthor, Begins
    <2>2. FirstBatch(Current(w).ev, author[Current(w).ev.slug]) \in Seq(Message)
      BY <2>1, AuthorTypes, FirstBatchMessages
    <2>3. UNCHANGED <<announced, eligible, due, settled, repeated>> /\ damaged' \subseteq Events
      BY <1>7 DEF ResolveAuthor, history, TypeOK
    <2> QED BY <1>6, <1>7, <2>2, <2>3 DEF ResolveAuthor
  <1>8. ASSUME NEW w \in Workers, ForwardDelete(w) PROVE TypeOK'
    <2>1. Current(w).ev \in Events
      BY <1>8, CurrentMessage, MessageFields DEF ForwardDelete, Begins
    <2>2. FirstBatch(Current(w).ev, Current(w).ev.author) \in Seq(Message)
      BY <2>1, AuthorTypes, FirstBatchMessages
    <2>3. UNCHANGED <<announced, eligible, due, settled, repeated>> /\ damaged' \subseteq Events
      BY <1>8 DEF ForwardDelete, history, TypeOK
    <2> QED BY <1>6, <1>8, <2>2, <2>3 DEF ForwardDelete
  <1>9. ASSUME NEW w \in Workers, ReadPage(w) PROVE TypeOK'
    <2>1. Current(w) \in Message /\ Current(w).type = "Batch"
      BY <1>9, CurrentMessage DEF ReadPage, Begins
    <2>2. PICK page \in Pages :
             /\ IsPage(page, InboxesIn(followers, Current(w).author), Current(w).at)
             /\ Enqueues(w, Expansion(Current(w), page))
      BY <1>9 DEF ReadPage
    <2>3. Expansion(Current(w), page) \in Seq(Message)
      BY <2>1, <2>2, InboxesInType, ExpansionMessages
    <2>4. UNCHANGED <<announced, eligible, due, settled, repeated>> /\ damaged' \subseteq Events
      BY <1>9 DEF ReadPage, history, TypeOK
    <2> QED BY <1>6, <2>2, <2>3, <2>4
  <1>10. ASSUME NEW w \in Workers, EnqueueNext(w) PROVE TypeOK'
    <2> DEFINE m == Head(todo[w])
    <2>1. m \in Message /\ Tail(todo[w]) \in Seq(Message)
      BY <1>10, TodoHead DEF EnqueueNext
    <2>2. queue' \in [Message -> Nat]
      BY <1>10, <2>1 DEF EnqueueNext, TypeOK
    <2>3. todo' \in [Workers -> Seq(Message)]
      BY <1>10, <2>1 DEF EnqueueNext, TypeOK
    <2>4. m.type = "Batch" =>
             {m.author} \X InboxesIn(followers, m.author) \subseteq Users \X Inboxes
      BY <2>1, MessageFields, InboxesInType
    <2>5. due' \in [Events -> SUBSET (Users \X Inboxes)]
      BY <1>10, <2>4 DEF EnqueueNext, TypeOK
    <2> QED BY <1>10, <2>2, <2>3, <2>5 DEF EnqueueNext, TypeOK, store
  <1>11. ASSUME NEW w \in Workers, SendPost(w) PROVE TypeOK'
    <2>1. Current(w).ev \in Events /\ Recipient(Current(w)) \in Users \X Inboxes
      BY <1>11, CurrentMessage, MessageFields DEF SendPost, Begins, Recipient
    <2>2. settled' \in [Events -> SUBSET (Users \X Inboxes)]
      BY <1>11, <2>1 DEF SendPost, TypeOK
    <2>3. pc' \in [Workers -> {"next", "enqueue", "finished", "retry"}]
      BY <1>11 DEF SendPost, TypeOK
    <2> QED BY <1>11, <2>2, <2>3 DEF SendPost, TypeOK, store
  <1>12. ASSUME NEW w \in Workers, Ack(w) PROVE TypeOK'
    <2>1. Tail(batch[w]) \in Seq(Message)
      BY <1>12, CurrentMessage DEF Ack, WorkersAligned
    <2>2. /\ batch' \in [Workers -> Seq(Message)]
          /\ pc' \in [Workers -> {"next", "enqueue", "finished", "retry"}]
      BY <1>12, <2>1 DEF Ack, TypeOK
    <2> QED BY <1>12, <2>2 DEF Ack, TypeOK, store, history
  <1>13. ASSUME NEW s \in Seq(Message)
         PROVE  LostIn(s) \subseteq Events
    BY MessageFields DEF LostIn
  <1>14. ASSUME NEW w \in Workers, Retry(w) PROVE TypeOK'
    <2>1. Tail(batch[w]) \in Seq(Message) /\ <<Current(w)>> \in Seq(Message)
      BY <1>14, CurrentMessage DEF Retry, WorkersAligned
    <2>2. /\ batch' \in [Workers -> Seq(Message)]
          /\ pc' \in [Workers -> {"next", "enqueue", "finished", "retry"}]
      BY <1>14, <2>1 DEF Retry, TypeOK
    <2>3. queue' \in [Message -> Nat]
      BY <1>14, <2>1, RequeuedQueue DEF Retry
    <2>4. damaged' \subseteq Events
      BY <1>13, <1>14, <2>1 DEF Retry, TypeOK
    <2> QED BY <1>14, <2>2, <2>3, <2>4 DEF Retry, TypeOK, store
  <1>15. ASSUME NEW w \in Workers, EnqueueFails(w) PROVE TypeOK'
    <2>1. Head(todo[w]) \in Message /\ Tail(todo[w]) \in Seq(Message)
      BY <1>15, TodoHead DEF EnqueueFails
    <2>2. todo' \in [Workers -> Seq(Message)]
      BY <1>15, <2>1 DEF EnqueueFails, TypeOK
    <2>3. damaged' \subseteq Events
      BY <1>15, <2>1, MessageFields DEF EnqueueFails, TypeOK
    <2> QED BY <1>15, <2>2, <2>3 DEF EnqueueFails, TypeOK, store
  <1>16. ASSUME NEW w \in Workers, QueryFails(w) \/ AssetFails(w) PROVE TypeOK'
    <2>1. Current(w).ev \in Events
      BY <1>16, CurrentMessage, MessageFields DEF QueryFails, AssetFails, Begins
    <2>2. damaged' \subseteq Events
      BY <1>16, <2>1 DEF QueryFails, AssetFails, TypeOK
    <2>3. <<>> \in Seq(Message)
      OBVIOUS
    <2> QED BY <1>6, <1>16, <2>2, <2>3 DEF QueryFails, AssetFails
  <1>17. ASSUME NEW w \in Workers, Crash(w) PROVE TypeOK'
    <2>1. batch[w] \in Seq(Message) /\ <<>> \in Seq(Message)
      BY DEF TypeOK
    <2>2. /\ batch' \in [Workers -> Seq(Message)] /\ todo' \in [Workers -> Seq(Message)]
          /\ pc' \in [Workers -> {"next", "enqueue", "finished", "retry"}]
      BY <1>17, <2>1 DEF Crash, TypeOK
    <2>3. queue' \in [Message -> Nat]
      BY <1>17, <2>1, RequeuedQueue DEF Crash
    <2>4. Current(w).ev \in Events
      BY <1>17, CurrentMessage, MessageFields DEF Crash
    <2>5. damaged' \subseteq Events /\ repeated' \subseteq Events
      BY <1>13, <1>17, <2>1, <2>4 DEF Crash, TypeOK
    <2> QED BY <1>17, <2>2, <2>3, <2>5 DEF Crash, TypeOK, store
  <1>18. CASE UNCHANGED vars
    BY <1>18 DEF TypeOK, vars, store, consumer, history
  <1> QED BY <1>1, <1>2, <1>3, <1>4, <1>5, <1>7, <1>8, <1>9, <1>10, <1>11, <1>12,
             <1>14, <1>15, <1>16, <1>17, <1>18
          DEF Next, Environment, WorkerStep, Failure

-------------------------------------------------------------------------------
(* What a step leaves alone.                                               *)

\* A step of one worker does not touch the others, the articles or followers.
LEMMA OtherWorkers ==
    ASSUME TypeOK, NEW w \in Workers, WorkerStep(w) \/ Failure(w)
    PROVE  /\ \A v \in Workers \ {w} :
                 batch'[v] = batch[v] /\ todo'[v] = todo[v] /\ pc'[v] = pc[v]
           /\ UNCHANGED <<author, followers, announced, eligible>>
           /\ \A e \in Events : settled[e] \subseteq settled'[e]
           /\ damaged \subseteq damaged'
  <1>1. CASE ReceiveBatch(w)
    BY <1>1 DEF ReceiveBatch, TypeOK, store, history
  <1>2. CASE ResolveAuthor(w) \/ ForwardDelete(w) \/ ReadPage(w)
    BY <1>2 DEF ResolveAuthor, ForwardDelete, ReadPage, Enqueues, TypeOK, store, history
  <1>3. CASE EnqueueNext(w) \/ EnqueueFails(w)
    BY <1>3 DEF EnqueueNext, EnqueueFails, TypeOK, store
  <1>4. CASE SendPost(w)
    BY <1>4 DEF SendPost, TypeOK, store
  <1>5. CASE Ack(w) \/ Retry(w)
    BY <1>5 DEF Ack, Retry, TypeOK, store, history
  <1>6. CASE QueryFails(w) \/ AssetFails(w)
    BY <1>6 DEF QueryFails, AssetFails, Enqueues, TypeOK, store
  <1>7. CASE Crash(w)
    BY <1>7 DEF Crash, TypeOK, store
  <1> QED BY <1>1, <1>2, <1>3, <1>4, <1>5, <1>6, <1>7 DEF WorkerStep, Failure

\* The environment does not touch the workers.
LEMMA EnvironmentFrame ==
    ASSUME Environment
    PROVE  UNCHANGED <<batch, todo, pc, settled, damaged, repeated>>
  BY DEF Environment, Announce, Redeploy, AddFollower, RemoveFollower, consumer, history

-------------------------------------------------------------------------------
(* Workers stay aligned with their batches, and expansions advance.        *)

\* A worker that begins a message has nothing left to enqueue, and then has what
\* the message expands to.
LEMMA EnqueuesEffect ==
    ASSUME TypeOK, WorkersAligned, NEW w \in Workers, NEW type, Begins(w, type),
           NEW msgs \in Seq(Message), Enqueues(w, msgs)
    PROVE  /\ todo[w] = <<>> /\ pc[w] = "next" /\ batch[w] # <<>>
           /\ todo'[w] = msgs /\ pc'[w] = "enqueue" /\ batch' = batch
           /\ Current(w)' = Current(w)
           /\ Current(w) \in Message /\ Current(w).type = type
  BY CurrentMessage DEF Begins, Enqueues, TypeOK, WorkersAligned, Current

\* The part of WorkersAligned, and of ExpansionAdvances, about one worker.
AlignedAt(w) ==
    /\ pc[w] # "next" => batch[w] # <<>>
    /\ pc[w] # "enqueue" => todo[w] = <<>>
    /\ pc[w] = "finished" => Recipient(Current(w)) \in settled[Current(w).ev]
    /\ pc[w] \in {"finished", "retry"} => Current(w).type = "Post"

AdvancesAt(w) ==
    \A m \in Pending(w) :
        /\ pc[w] = "enqueue" /\ batch[w] # <<>>
        /\ m.ev = Current(w).ev
        /\ m.tries = 0
        /\ \/ Current(w).type = "ToAll" /\ m.type = "Batch" /\ m.at = EmptyString
           \/ /\ Current(w).type = "Batch" /\ m.type # "ToAll"
              /\ m.author = Current(w).author
              /\ m.at > Current(w).at

\* Both hold of a worker with a message just begun, if they hold of what it is
\* going to enqueue.
LEMMA BegunAdvances ==
    ASSUME TypeOK, WorkersAligned, NEW w \in Workers, NEW type, Begins(w, type),
           NEW msgs \in Seq(Message), Enqueues(w, msgs),
           \A k \in DOMAIN msgs :
              /\ msgs[k].ev = Current(w).ev
              /\ msgs[k].tries = 0
              /\ \/ type = "ToAll" /\ msgs[k].type = "Batch" /\ msgs[k].at = EmptyString
                 \/ /\ type = "Batch" /\ msgs[k].type # "ToAll"
                    /\ msgs[k].author = Current(w).author
                    /\ msgs[k].at > Current(w).at
    PROVE  AlignedAt(w)' /\ AdvancesAt(w)'
  <1>1. /\ todo'[w] = msgs /\ pc'[w] = "enqueue" /\ batch'[w] # <<>>
        /\ Current(w)' = Current(w) /\ Current(w).type = type
    BY EnqueuesEffect
  <1> QED BY <1>1 DEF AlignedAt, AdvancesAt, Pending

LEMMA NextAligned ==
    TypeOK /\ WorkersAligned /\ ExpansionAdvances /\ [Next]_vars
      => WorkersAligned' /\ ExpansionAdvances'
  <1> SUFFICES ASSUME TypeOK, WorkersAligned, ExpansionAdvances, [Next]_vars
               PROVE  WorkersAligned' /\ ExpansionAdvances'
    OBVIOUS
  <1>1. \A w \in Workers : AlignedAt(w) /\ AdvancesAt(w)
    BY DEF WorkersAligned, ExpansionAdvances, AlignedAt, AdvancesAt
  <1>2. SUFFICES \A w \in Workers : AlignedAt(w)' /\ AdvancesAt(w)'
    BY DEF WorkersAligned, ExpansionAdvances, AlignedAt, AdvancesAt
  <1>3. ASSUME NEW v \in Workers,
               batch'[v] = batch[v], todo'[v] = todo[v], pc'[v] = pc[v],
               \A e \in Events : settled[e] \subseteq settled'[e]
        PROVE  AlignedAt(v)' /\ AdvancesAt(v)'
    <2>1. Current(v)' = Current(v) /\ Pending(v)' = Pending(v)
      BY <1>3 DEF Current, Pending
    <2>2. pc[v] = "finished" => Current(v).ev \in Events
      BY <1>1, CurrentMessage, MessageFields DEF AlignedAt
    <2>3. pc[v] = "finished" => Recipient(Current(v)) \in settled'[Current(v).ev]
      BY <1>1, <1>3, <2>2 DEF AlignedAt
    <2>4. AlignedAt(v)'
      BY <1>1, <1>3, <2>1, <2>3 DEF AlignedAt
    <2> QED BY <1>1, <1>3, <2>1, <2>4 DEF AdvancesAt
  <1>4. CASE Environment \/ UNCHANGED vars
    BY <1>3, <1>4, EnvironmentFrame DEF vars, consumer, history
  <1>5. ASSUME NEW w \in Workers, WorkerStep(w) \/ Failure(w)
        PROVE  \A v \in Workers : AlignedAt(v)' /\ AdvancesAt(v)'
    <2>1. SUFFICES AlignedAt(w)' /\ AdvancesAt(w)'
      BY <1>3, <1>5, OtherWorkers
    <2>2. ASSUME todo'[w] = <<>>, pc'[w] = "next" PROVE AlignedAt(w)' /\ AdvancesAt(w)'
      BY <2>2 DEF AlignedAt, AdvancesAt, Pending
    <2>3. CASE ReceiveBatch(w)
      <3>1. todo'[w] = <<>> /\ pc'[w] = "next"
        BY <1>1, <2>3 DEF ReceiveBatch, AlignedAt, TypeOK
      <3> QED BY <2>2, <3>1
    <2>4. CASE ResolveAuthor(w)
      <3> DEFINE msgs == FirstBatch(Current(w).ev, author[Current(w).ev.slug])
      <3>1. Begins(w, "ToAll") /\ Enqueues(w, msgs)
        BY <2>4 DEF ResolveAuthor
      <3>2. Current(w).ev \in Events
        BY <3>1, CurrentMessage, MessageFields DEF Begins
      <3> QED BY <3>1, <3>2, AuthorTypes, FirstBatchMessages, BegunAdvances
    <2>5. CASE ForwardDelete(w)
      <3> DEFINE msgs == FirstBatch(Current(w).ev, Current(w).ev.author)
      <3>1. Begins(w, "ToAll") /\ Enqueues(w, msgs)
        BY <2>5 DEF ForwardDelete
      <3>2. Current(w).ev \in Events
        BY <3>1, CurrentMessage, MessageFields DEF Begins
      <3> QED BY <3>1, <3>2, AuthorTypes, FirstBatchMessages, BegunAdvances
    <2>6. CASE ReadPage(w)
      <3>1. PICK page \in Pages :
               /\ IsPage(page, InboxesIn(followers, Current(w).author), Current(w).at)
               /\ Enqueues(w, Expansion(Current(w), page))
        BY <2>6 DEF ReadPage
      <3>2. Begins(w, "Batch") /\ Current(w) \in Message /\ Current(w).type = "Batch"
        BY <2>6, CurrentMessage DEF ReadPage, Begins
      <3> DEFINE msgs == Expansion(Current(w), page)
      <3>3. /\ msgs \in Seq(Message)
            /\ \A k \in DOMAIN msgs :
                  /\ msgs[k].ev = Current(w).ev /\ msgs[k].tries = 0
                  /\ msgs[k].type # "ToAll"
                  /\ msgs[k].author = Current(w).author /\ msgs[k].at > Current(w).at
        BY <3>1, <3>2, InboxesInType, ExpansionMessages
      <3> HIDE DEF msgs
      <3>4. Enqueues(w, msgs)
        BY <3>1 DEF msgs
      <3> QED BY <3>2, <3>3, <3>4, BegunAdvances
    <2>7. CASE EnqueueNext(w) \/ EnqueueFails(w)
      <3>1. /\ pc[w] = "enqueue" /\ todo[w] # <<>> /\ todo'[w] = Tail(todo[w])
            /\ batch' = batch /\ pc' = pc /\ settled' = settled
        BY <2>7 DEF EnqueueNext, EnqueueFails, TypeOK
      <3>2. Pending(w)' \subseteq Pending(w) /\ Current(w)' = Current(w)
        BY <3>1, TodoHead DEF Pending, Current
      <3> QED BY <1>1, <3>1, <3>2 DEF AlignedAt, AdvancesAt
    <2>8. CASE SendPost(w)
      <3>1. /\ Begins(w, "Post") /\ batch' = batch /\ todo' = todo
            /\ pc'[w] \in {"finished", "retry"}
        BY <2>8 DEF SendPost, TypeOK
      <3>2. Current(w)' = Current(w) /\ Current(w).ev \in Events
        BY <3>1, CurrentMessage, MessageFields DEF Begins, Current
      <3>3. pc'[w] = "finished" => Recipient(Current(w)) \in settled'[Current(w).ev]
        BY <2>8, <3>2 DEF SendPost, TypeOK
      <3>4. todo'[w] = <<>> /\ batch'[w] # <<>> /\ Current(w).type = "Post"
        BY <1>1, <3>1 DEF AlignedAt, Begins
      <3> QED BY <3>1, <3>2, <3>3, <3>4 DEF AlignedAt, AdvancesAt, Pending
    <2>9. CASE Ack(w) \/ Retry(w)
      <3>1. todo'[w] = <<>> /\ pc'[w] = "next"
        BY <1>1, <2>9 DEF Ack, Retry, AlignedAt, TypeOK
      <3> QED BY <2>2, <3>1
    <2>10. CASE QueryFails(w) \/ AssetFails(w)
      <3>1. PICK type : Begins(w, type)
        BY <2>10 DEF QueryFails, AssetFails
      <3>2. Enqueues(w, <<>>) /\ <<>> \in Seq(Message) /\ DOMAIN <<>> = {}
        BY <2>10 DEF QueryFails, AssetFails
      <3> QED BY <3>1, <3>2, BegunAdvances
    <2>11. CASE Crash(w)
      <3>1. todo'[w] = <<>> /\ pc'[w] = "next"
        BY <2>11 DEF Crash, TypeOK
      <3> QED BY <2>2, <3>1
    <2> QED BY <1>5, <2>3, <2>4, <2>5, <2>6, <2>7, <2>8, <2>9, <2>10, <2>11
            DEF WorkerStep, Failure
  <1> QED BY <1>4, <1>5 DEF Next

-------------------------------------------------------------------------------
(* Only followers are owed an event, and only followers are told.          *)

LEMMA NextDueFollow == TypeOK /\ DueFollow /\ [Next]_vars => DueFollow'
  <1> SUFFICES ASSUME TypeOK, DueFollow, [Next]_vars PROVE DueFollow'
    OBVIOUS
  <1>1. ASSUME UNCHANGED <<followers, due>> PROVE DueFollow'
    BY <1>1 DEF DueFollow, Following, PairsIn
  <1>2. ASSUME NEW u \in Users, NEW a \in Actors, NEW i \in Inboxes, AddFollower(u, a, i)
        PROVE  DueFollow'
    BY <1>2 DEF AddFollower, DueFollow, Following, PairsIn
  <1>3. ASSUME NEW u \in Users, NEW a \in Actors, RemoveFollower(u, a) PROVE DueFollow'
    BY <1>3 DEF RemoveFollower, DueFollow, Following
  <1>4. ASSUME NEW w \in Workers, EnqueueNext(w) PROVE DueFollow'
    <2> DEFINE m == Head(todo[w])
               New == {m.author} \X InboxesIn(followers, m.author)
    <2>1. New \subseteq Following
      BY DEF TypeOK, InboxesIn, Following, PairsIn
    <2>2. \A e \in Events : due'[e] \subseteq due[e] \cup New
      BY <1>4 DEF EnqueueNext, TypeOK
    <2>3. Following' = Following
      BY <1>4 DEF EnqueueNext, store, Following, PairsIn
    <2> QED BY <2>1, <2>2, <2>3 DEF DueFollow
  <1>5. CASE UNCHANGED vars
    BY <1>1, <1>5 DEF vars, store, history
  <1>6. ASSUME NEW e \in Events, Announce(e) PROVE DueFollow'
    BY <1>1, <1>6 DEF Announce, store
  <1>7. ASSUME NEW site \in [Slugs -> Users \cup {None}], Redeploy(site) PROVE DueFollow'
    BY <1>1, <1>7 DEF Redeploy, history
  <1>8. ASSUME NEW w \in Workers,
               ReceiveBatch(w) \/ ResolveAuthor(w) \/ ForwardDelete(w) \/ ReadPage(w)
        PROVE  DueFollow'
    BY <1>1, <1>8 DEF ReceiveBatch, ResolveAuthor, ForwardDelete, ReadPage, Enqueues,
                      store, history
  <1>9. ASSUME NEW w \in Workers, SendPost(w) \/ Ack(w) \/ Retry(w) PROVE DueFollow'
    BY <1>1, <1>9 DEF SendPost, Ack, Retry, store, history
  <1>10. ASSUME NEW w \in Workers, Failure(w) PROVE DueFollow'
    BY <1>1, <1>10 DEF Failure, EnqueueFails, QueryFails, AssetFails, Crash, Enqueues, store
  <1> QED BY <1>2, <1>3, <1>4, <1>5, <1>6, <1>7, <1>8, <1>9, <1>10
          DEF Next, Environment, WorkerStep

\* What InFlight collects.
LEMMA InFlightParts ==
    ASSUME TypeOK, NEW m
    PROVE  m \in InFlight <=>
              \/ m \in Message /\ queue[m] > 0
              \/ \E w \in Workers : \E k \in DOMAIN batch[w] : m = batch[w][k]
              \/ \E w \in Workers : \E k \in DOMAIN todo[w] : m = todo[w][k]
  BY DEF InFlight, Queued, Held, Pending

LEMMA InFlightMessages == ASSUME TypeOK PROVE InFlight \subseteq Message
  <1>1. \A w \in Workers : \A k \in DOMAIN batch[w] : batch[w][k] \in Message
    <2>1. \A w \in Workers : batch[w] \in Seq(Message)
      BY DEF TypeOK
    <2> QED BY <2>1, ElementOfSeq
  <1>2. \A w \in Workers : \A k \in DOMAIN todo[w] : todo[w][k] \in Message
    <2>1. \A w \in Workers : todo[w] \in Seq(Message)
      BY DEF TypeOK
    <2> QED BY <2>1, ElementOfSeq
  <1> QED BY <1>1, <1>2, InFlightParts

\* Message m stems from message x: it is about the same event, and a Post is for
\* somebody x was for, or who follows.
Stems(m, x) ==
    /\ m.ev = x.ev
    /\ m.type = "Post" =>
          \/ x.type = "Post" /\ Recipient(x) = Recipient(m)
          \/ Recipient(m) \in Following

\* Every message a consumer leaves behind stems from one that was in flight.
LEMMA WorkerStems ==
    ASSUME TypeOK, TypeOK', WorkersAligned, NEW w \in Workers, WorkerStep(w) \/ Failure(w),
           NEW m \in InFlight'
    PROVE  \E x \in InFlight : Stems(m, x)
  <1>1. ASSUME m \in InFlight PROVE \E x \in InFlight : Stems(m, x)
    BY <1>1 DEF Stems
  <1>2. \/ m \in Message /\ queue'[m] > 0
        \/ \E v \in Workers : \E k \in DOMAIN batch'[v] : m = batch'[v][k]
        \/ \E v \in Workers : \E k \in DOMAIN todo'[v] : m = todo'[v][k]
    BY DEF InFlight, Queued, Held, Pending
  <1>3. \A v \in Workers \ {w} : batch'[v] = batch[v] /\ todo'[v] = todo[v]
    BY OtherWorkers
  <1>4. \/ m \in Message /\ queue'[m] > 0
        \/ \E k \in DOMAIN batch'[w] : m = batch'[w][k]
        \/ \E k \in DOMAIN todo'[w] : m = todo'[w][k]
        \/ m \in InFlight
    BY <1>2, <1>3, InFlightParts
  <1>5. CASE ReceiveBatch(w)
    <2>1. PICK b \in Seq(Message) :
              /\ \A k \in DOMAIN b : queue[b[k]] > 0
              /\ batch' = [batch EXCEPT ![w] = b]
              /\ \A x \in Message : queue'[x] > 0 => queue[x] > 0
      BY <1>5, ReceiveTypes
    <2>2. batch'[w] = b /\ todo' = todo /\ \A k \in DOMAIN b : b[k] \in Message
      BY <1>5, <2>1 DEF ReceiveBatch, TypeOK
    <2> QED BY <1>1, <1>4, <2>1, <2>2, InFlightParts
  <1>6. ASSUME NEW msgs \in Seq(Message), Enqueues(w, msgs),
               \A k \in DOMAIN msgs : \E x \in InFlight : Stems(msgs[k], x)
        PROVE  \E x \in InFlight : Stems(m, x)
    <2>1. batch' = batch /\ queue' = queue /\ todo'[w] = msgs
      BY <1>6 DEF Enqueues, TypeOK
    <2> QED BY <1>1, <1>4, <1>6, <2>1, InFlightParts
  <1>7. ASSUME batch[w] # <<>> PROVE Current(w) \in InFlight
    BY <1>7, CurrentMessage, InFlightParts
  <1>8. CASE ResolveAuthor(w)
    <2> DEFINE msgs == FirstBatch(Current(w).ev, author[Current(w).ev.slug])
    <2>1. Begins(w, "ToAll") /\ Enqueues(w, msgs)
      BY <1>8 DEF ResolveAuthor
    <2>2. Current(w) \in InFlight /\ Current(w).ev \in Events
      BY <1>7, <2>1, CurrentMessage, MessageFields DEF Begins
    <2>3. /\ msgs \in Seq(Message)
          /\ \A k \in DOMAIN msgs : msgs[k].ev = Current(w).ev /\ msgs[k].type = "Batch"
      BY <2>2, AuthorTypes, FirstBatchMessages
    <2> HIDE DEF msgs
    <2> QED BY <1>6, <2>1, <2>2, <2>3 DEF Stems
  <1>9. CASE ForwardDelete(w)
    <2> DEFINE msgs == FirstBatch(Current(w).ev, Current(w).ev.author)
    <2>1. Begins(w, "ToAll") /\ Enqueues(w, msgs)
      BY <1>9 DEF ForwardDelete
    <2>2. Current(w) \in InFlight /\ Current(w).ev \in Events
      BY <1>7, <2>1, CurrentMessage, MessageFields DEF Begins
    <2>3. /\ msgs \in Seq(Message)
          /\ \A k \in DOMAIN msgs : msgs[k].ev = Current(w).ev /\ msgs[k].type = "Batch"
      BY <2>2, AuthorTypes, FirstBatchMessages
    <2> HIDE DEF msgs
    <2> QED BY <1>6, <2>1, <2>2, <2>3 DEF Stems
  <1>10. CASE ReadPage(w)
    <2>1. PICK page \in Pages :
             /\ IsPage(page, InboxesIn(followers, Current(w).author), Current(w).at)
             /\ Enqueues(w, Expansion(Current(w), page))
      BY <1>10 DEF ReadPage
    <2> DEFINE msgs == Expansion(Current(w), page)
               S == InboxesIn(followers, Current(w).author)
    <2>2. Current(w) \in Message /\ Current(w).type = "Batch" /\ Current(w) \in InFlight
      BY <1>7, <1>10, CurrentMessage DEF ReadPage, Begins
    <2>3. /\ msgs \in Seq(Message)
          /\ \A k \in DOMAIN msgs :
                /\ msgs[k].ev = Current(w).ev /\ msgs[k].author = Current(w).author
                /\ msgs[k].type = "Batch" \/ (msgs[k].type = "Post" /\ msgs[k].at \in S)
      BY <2>1, <2>2, InboxesInType, ExpansionMessages
    <2>4. \A i \in S : <<Current(w).author, i>> \in Following
      BY DEF TypeOK, InboxesIn, Following, PairsIn
    <2> HIDE DEF msgs, S
    <2>5. \A k \in DOMAIN msgs : Stems(msgs[k], Current(w))
      BY <2>3, <2>4 DEF Stems, Recipient
    <2>6. Enqueues(w, msgs)
      BY <2>1 DEF msgs
    <2> QED BY <1>6, <2>2, <2>3, <2>5, <2>6
  <1>11. CASE EnqueueNext(w) \/ EnqueueFails(w)
    <2>1. todo[w] # <<>> /\ todo'[w] = Tail(todo[w]) /\ batch' = batch
      BY <1>11 DEF EnqueueNext, EnqueueFails, TypeOK
    <2>2. m \in Message /\ queue'[m] > 0 => queue[m] > 0 \/ m = todo[w][1]
      BY <1>11, <2>1, TodoHead DEF EnqueueNext, EnqueueFails, TypeOK
    <2> QED BY <1>1, <1>4, <2>1, <2>2, TodoHead, InFlightParts
  <1>12. CASE SendPost(w)
    <2>1. UNCHANGED <<queue, batch, todo>>
      BY <1>12 DEF SendPost
    <2> QED BY <1>1, <1>4, <2>1, InFlightParts
  <1>13. ASSUME NEW s \in Seq(Message), queue' = Requeued(s),
                \A k \in DOMAIN s : s[k] \in InFlight,
                m \in Message, queue'[m] > 0
         PROVE  \E x \in InFlight : Stems(m, x)
    <2>1. CASE queue[m] > 0
      BY <1>1, <1>13, <2>1, InFlightParts
    <2>2. CASE \E k \in DOMAIN s : CanRedeliver(s[k]) /\ Redelivered(s[k]) = m
      <3>1. PICK k \in DOMAIN s : CanRedeliver(s[k]) /\ Redelivered(s[k]) = m
        BY <2>2
      <3>2. s[k] \in Message
        OBVIOUS
      <3>3. Stems(m, s[k])
        BY <3>1, <3>2, RedeliveredMessage DEF Stems, Recipient
      <3> QED BY <1>13, <3>3
    <2> QED BY <1>13, <2>1, <2>2, RequeuedQueue
  <1>14. CASE Ack(w) \/ Retry(w)
    <2>1. batch[w] # <<>> /\ batch'[w] = Tail(batch[w]) /\ todo' = todo
      BY <1>14 DEF Ack, Retry, WorkersAligned, TypeOK
    <2>2. \A k \in DOMAIN batch'[w] : batch'[w][k] \in InFlight
      BY <2>1, CurrentMessage, InFlightParts
    <2>3. ASSUME m \in Message, queue'[m] > 0 PROVE \E x \in InFlight : Stems(m, x)
      <3>1. CASE Ack(w)
        BY <1>1, <2>3, <3>1, InFlightParts DEF Ack
      <3>2. CASE Retry(w)
        <4>1. <<Current(w)>> \in Seq(Message) /\ \A k \in DOMAIN <<Current(w)>> :
                 <<Current(w)>>[k] \in InFlight
          BY <1>7, <2>1, CurrentMessage
        <4> QED BY <1>13, <2>3, <3>2, <4>1 DEF Retry
      <3> QED BY <1>14, <3>1, <3>2
    <2> QED BY <1>1, <1>4, <2>1, <2>2, <2>3, InFlightParts
  <1>15. CASE QueryFails(w) \/ AssetFails(w)
    <2>1. Enqueues(w, <<>>) /\ <<>> \in Seq(Message) /\ DOMAIN <<>> = {}
      BY <1>15 DEF QueryFails, AssetFails
    <2> QED BY <1>6, <2>1
  <1>16. CASE Crash(w)
    <2>1. /\ batch[w] \in Seq(Message) /\ queue' = Requeued(batch[w])
          /\ batch'[w] = <<>> /\ todo'[w] = <<>>
      BY <1>16 DEF Crash, TypeOK
    <2>2. \A k \in DOMAIN batch[w] : batch[w][k] \in InFlight
      BY InFlightParts
    <2>3. DOMAIN batch'[w] = {} /\ DOMAIN todo'[w] = {}
      BY <2>1
    <2> QED BY <1>1, <1>4, <1>13, <2>1, <2>2, <2>3
  <1> QED BY <1>5, <1>8, <1>9, <1>10, <1>11, <1>12, <1>14, <1>15, <1>16
          DEF WorkerStep, Failure

\* InFlight while the environment acts: nothing but what is announced joins.
LEMMA EnvironmentInFlight ==
    ASSUME TypeOK, TypeOK', Environment \/ UNCHANGED vars, NEW m \in InFlight'
    PROVE  \/ m \in InFlight
           \/ \E e \in Events : Announce(e) /\ m = ToAll(e)
  <1>1. UNCHANGED <<batch, todo>>
    BY EnvironmentFrame DEF vars, consumer
  <1>2. ASSUME UNCHANGED queue PROVE m \in InFlight
    BY <1>1, <1>2 DEF InFlight, Queued, Held, Pending
  <1>3. ASSUME NEW e \in Events, Announce(e)
        PROVE  m \in InFlight \/ m = ToAll(e)
    <2>1. queue' = [queue EXCEPT ![ToAll(e)] = @ + 1]
      BY <1>3 DEF Announce
    <2>2. \/ m \in Message /\ queue'[m] > 0
          \/ \E v \in Workers : \E k \in DOMAIN batch[v] : m = batch[v][k]
          \/ \E v \in Workers : \E k \in DOMAIN todo[v] : m = todo[v][k]
      BY <1>1 DEF InFlight, Queued, Held, Pending
    <2>3. m \in Message /\ queue'[m] > 0 => queue[m] > 0 \/ m = ToAll(e)
      BY <2>1 DEF TypeOK
    <2> QED BY <2>2, <2>3, InFlightParts
  <1>4. CASE UNCHANGED vars
    BY <1>2, <1>4 DEF vars
  <1>5. ASSUME NEW site, Redeploy(site) PROVE m \in InFlight
    BY <1>2, <1>5 DEF Redeploy
  <1>6. ASSUME NEW u, NEW a, NEW i, AddFollower(u, a, i) PROVE m \in InFlight
    BY <1>2, <1>6 DEF AddFollower
  <1>7. ASSUME NEW u, NEW a, RemoveFollower(u, a) PROVE m \in InFlight
    BY <1>2, <1>7 DEF RemoveFollower
  <1> QED BY <1>3, <1>4, <1>5, <1>6, <1>7 DEF Environment

\* How the sets of those who may be told grow.
LEMMA EnvironmentEligible ==
    ASSUME TypeOK, AnnouncedOnly, Environment \/ UNCHANGED vars
    PROVE  /\ \A e \in announced' : Following' \subseteq eligible'[e]
           /\ \A e \in announced : eligible[e] \subseteq eligible'[e]
           /\ announced \subseteq announced'
  <1>1. announced \subseteq Events
    BY DEF TypeOK
  <1>2. ASSUME NEW e \in Events, Announce(e)
        PROVE  /\ \A x \in announced' : Following' \subseteq eligible'[x]
               /\ \A x \in announced : eligible[x] \subseteq eligible'[x]
               /\ announced \subseteq announced'
    <2>1. Following' = Following
      BY <1>2 DEF Announce, store, Following, PairsIn
    <2> QED BY <1>1, <1>2, <2>1 DEF Announce, TypeOK, AnnouncedOnly
  <1>3. ASSUME NEW u \in Users, NEW a \in Actors, NEW i \in Inboxes, AddFollower(u, a, i)
        PROVE  /\ \A e \in announced' : Following' \subseteq eligible'[e]
               /\ \A e \in announced : eligible[e] \subseteq eligible'[e]
               /\ announced \subseteq announced'
    <2>1. Following' \subseteq Following \cup {<<u, i>>}
      BY <1>3 DEF AddFollower, Following, PairsIn
    <2>2. /\ announced' = announced
          /\ \A e \in announced : eligible'[e] = eligible[e] \cup {<<u, i>>}
      BY <1>1, <1>3 DEF AddFollower
    <2> QED BY <2>1, <2>2 DEF AnnouncedOnly
  <1>4. ASSUME NEW u \in Users, NEW a \in Actors, RemoveFollower(u, a)
        PROVE  /\ \A e \in announced' : Following' \subseteq eligible'[e]
               /\ \A e \in announced : eligible[e] \subseteq eligible'[e]
               /\ announced \subseteq announced'
    <2>1. Following' \subseteq Following
      BY <1>4 DEF RemoveFollower, Following, PairsIn
    <2> QED BY <1>4, <2>1 DEF RemoveFollower, AnnouncedOnly
  <1>5. ASSUME UNCHANGED <<followers, announced, eligible>>
        PROVE  /\ \A e \in announced' : Following' \subseteq eligible'[e]
               /\ \A e \in announced : eligible[e] \subseteq eligible'[e]
               /\ announced \subseteq announced'
    BY <1>5 DEF AnnouncedOnly, Following, PairsIn
  <1>6. ASSUME NEW site, Redeploy(site) PROVE UNCHANGED <<followers, announced, eligible>>
    BY <1>6 DEF Redeploy, history
  <1>7. CASE UNCHANGED vars
    BY <1>5, <1>7 DEF vars, store, history
  <1> QED BY <1>2, <1>3, <1>4, <1>5, <1>6, <1>7 DEF Environment

LEMMA NextOnlyFollowers ==
    TypeOK /\ TypeOK' /\ WorkersAligned /\ AnnouncedOnly /\ OnlyFollowersNotified /\ [Next]_vars
      => AnnouncedOnly' /\ OnlyFollowersNotified'
  <1> SUFFICES ASSUME TypeOK, TypeOK', WorkersAligned, AnnouncedOnly, OnlyFollowersNotified,
                      [Next]_vars
               PROVE  AnnouncedOnly' /\ OnlyFollowersNotified'
    OBVIOUS
  <1>0. announced \subseteq Events /\ InFlight \subseteq Message
    BY InFlightMessages DEF TypeOK
  <1>1. CASE Environment \/ UNCHANGED vars
    <2>1. /\ \A e \in announced' : Following' \subseteq eligible'[e]
          /\ \A e \in announced : eligible[e] \subseteq eligible'[e]
          /\ announced \subseteq announced'
      BY <1>1, EnvironmentEligible
    <2>2. UNCHANGED settled
      BY <1>1, EnvironmentFrame DEF vars, history
    <2>3. ASSUME NEW m \in InFlight'
          PROVE  /\ m.ev \in announced'
                 /\ m.type = "Post" => Recipient(m) \in eligible'[m.ev]
      <3>1. CASE m \in InFlight
        BY <1>0, <2>1, <3>1, MessageFields DEF AnnouncedOnly, OnlyFollowersNotified
      <3>2. CASE \E e \in Events : Announce(e) /\ m = ToAll(e)
        BY <3>2 DEF Announce, ToAll
      <3> QED BY <1>1, <3>1, <3>2, EnvironmentInFlight
    <2>4. ASSUME NEW e \in Events PROVE settled'[e] \subseteq eligible'[e]
      <3>1. CASE e \in announced
        BY <2>1, <2>2, <3>1 DEF OnlyFollowersNotified
      <3>2. CASE e \notin announced
        BY <2>2, <3>2 DEF AnnouncedOnly
      <3> QED BY <3>1, <3>2
    <2>5. \A e \in Events \ announced' : settled'[e] = {}
      BY <2>1, <2>2 DEF AnnouncedOnly
    <2> QED BY <2>1, <2>3, <2>4, <2>5 DEF AnnouncedOnly, OnlyFollowersNotified
  <1>2. ASSUME NEW w \in Workers, WorkerStep(w) \/ Failure(w)
        PROVE  AnnouncedOnly' /\ OnlyFollowersNotified'
    <2>1. UNCHANGED <<author, followers, announced, eligible>> /\ Following' = Following
      BY <1>2, OtherWorkers DEF Following, PairsIn
    <2>2. ASSUME NEW m \in InFlight'
          PROVE  /\ m.ev \in announced
                 /\ m.type = "Post" => Recipient(m) \in eligible[m.ev]
      <3>1. PICK x \in InFlight : Stems(m, x)
        BY <1>2, WorkerStems
      <3>2. x.ev \in announced /\ x.ev \in Events
        BY <1>0, <3>1, MessageFields DEF AnnouncedOnly
      <3> QED BY <3>1, <3>2 DEF Stems, AnnouncedOnly, OnlyFollowersNotified
    <2>3. \/ settled' = settled
          \/ SendPost(w) /\ settled' =
                 [settled EXCEPT ![Current(w).ev] = @ \cup {Recipient(Current(w))}]
      BY <1>2 DEF WorkerStep, Failure, ReceiveBatch, ResolveAuthor, ForwardDelete, ReadPage,
                  EnqueueNext, SendPost, Ack, Retry, EnqueueFails, QueryFails, AssetFails,
                  Crash, Enqueues, history
    <2>4. SendPost(w) => /\ Current(w).ev \in announced
                         /\ Recipient(Current(w)) \in eligible[Current(w).ev]
      <3> SUFFICES ASSUME SendPost(w)
                   PROVE  /\ Current(w).ev \in announced
                          /\ Recipient(Current(w)) \in eligible[Current(w).ev]
        OBVIOUS
      <3>1. batch[w] # <<>> /\ Current(w).type = "Post"
        BY DEF SendPost, Begins
      <3>2. Current(w) \in InFlight /\ Current(w).ev \in Events
        BY <3>1, CurrentMessage, MessageFields, InFlightParts
      <3> QED BY <3>1, <3>2 DEF AnnouncedOnly, OnlyFollowersNotified
    <2>5. ASSUME NEW e \in Events PROVE settled'[e] \subseteq eligible[e]
      <3>1. settled[e] \subseteq eligible[e]
        BY DEF OnlyFollowersNotified
      <3>2. settled \in [Events -> SUBSET (Users \X Inboxes)]
        BY DEF TypeOK
      <3>3. CASE settled' = settled
        BY <3>1, <3>3
      <3>4. CASE SendPost(w) /\ settled' =
                   [settled EXCEPT ![Current(w).ev] = @ \cup {Recipient(Current(w))}]
        <4>1. \/ settled'[e] = settled[e]
              \/ e = Current(w).ev /\ settled'[e] = settled[e] \cup {Recipient(Current(w))}
          BY <3>2, <3>4
        <4> QED BY <2>4, <3>1, <3>4, <4>1
      <3> QED BY <2>3, <3>3, <3>4
    <2>6. \A e \in Events \ announced : settled'[e] = {}
      BY <2>3, <2>4 DEF AnnouncedOnly, TypeOK
    <2> QED BY <2>1, <2>2, <2>5, <2>6 DEF AnnouncedOnly, OnlyFollowersNotified
  <1> QED BY <1>1, <1>2 DEF Next

-------------------------------------------------------------------------------
(* Whoever is owed an event is still on the way to be told.                *)

\* The places a message waits in.
WaitsInBatch(m, w) == \E k \in DOMAIN batch[w] : batch[w][k] = m /\ (k > 1 \/ pc[w] # "enqueue")
WaitsInTodo(m, w) == Current(w).type = "Batch" /\ \E k \in DOMAIN todo[w] : todo[w][k] = m

LEMMA WaitingPlaces ==
    ASSUME NEW m
    PROVE  Waiting(m) <=> \/ m \in Message /\ queue[m] > 0
                          \/ \E w \in Workers : WaitsInBatch(m, w) \/ WaitsInTodo(m, w)
  BY DEF Waiting, Queued, WaitsInBatch, WaitsInTodo

LEMMA WaitingPlacesNext ==
    ASSUME NEW m
    PROVE  Waiting(m)' <=> \/ m \in Message /\ queue'[m] > 0
                           \/ \E w \in Workers : WaitsInBatch(m, w)' \/ WaitsInTodo(m, w)'
  BY DEF Waiting, Queued, WaitsInBatch, WaitsInTodo

\* A message is kept by a step that leaves the queue growing, and that leaves
\* worker w's messages waiting.
LEMMA WaitingKept ==
    ASSUME TypeOK, NEW w \in Workers, WorkerStep(w) \/ Failure(w),
           NEW m \in Message, Waiting(m),
           queue[m] > 0 => Waiting(m)',
           WaitsInBatch(m, w) => Waiting(m)',
           WaitsInTodo(m, w) => Waiting(m)'
    PROVE  Waiting(m)'
  <1>1. CASE \E v \in Workers \ {w} : WaitsInBatch(m, v) \/ WaitsInTodo(m, v)
    <2>1. PICK v \in Workers \ {w} : WaitsInBatch(m, v) \/ WaitsInTodo(m, v)
      BY <1>1
    <2>2. batch'[v] = batch[v] /\ todo'[v] = todo[v] /\ pc'[v] = pc[v]
      BY OtherWorkers
    <2>3. WaitsInBatch(m, v)' \/ WaitsInTodo(m, v)'
      BY <2>1, <2>2 DEF WaitsInBatch, WaitsInTodo, Current
    <2> QED BY <2>3, WaitingPlacesNext
  <1> QED BY <1>1, WaitingPlaces

\* A message that leads to p is a Batch below it, or the Post for it.
LEMMA LeadsSettled ==
    ASSUME NEW m, NEW e, NEW u, NEW i, Leads(m, e, <<u, i>>), m.type = "Post"
    PROVE  Recipient(m) = <<u, i>> /\ m.ev = e
  BY DEF Leads, Recipient

\* A Batch that expands leads on to whoever it led to.
LEMMA ExpansionLeads ==
    ASSUME TypeOK, NEW m \in Message, m.type = "Batch", NEW page \in Pages,
           IsPage(page, InboxesIn(followers, m.author), m.at),
           NEW e, NEW u, NEW i, Leads(m, e, <<u, i>>), <<u, i>> \in Following
    PROVE  \E k \in DOMAIN Expansion(m, page) : Leads(Expansion(m, page)[k], e, <<u, i>>)
  <1> DEFINE S == InboxesIn(followers, m.author)
  <1>1. m.ev = e /\ m.author = u /\ m.at < i
    BY DEF Leads
  <1>2. i \in S
    BY <1>1 DEF TypeOK, InboxesIn, Following, PairsIn
  <1>3. S \in SUBSET Inboxes /\ m.at \in Cursors
    BY InboxesInType, MessageFields
  <1>4. CASE \E k \in 1..Len(page) : page[k] = i
    <2>1. PICK k \in 1..Len(page) : page[k] = i
      BY <1>4
    <2>2. PICK j \in DOMAIN Expansion(m, page) :
             Expansion(m, page)[j] = Post(m.ev, m.author, page[k])
      BY <1>3, ExpansionMessages
    <2> QED BY <1>1, <2>1, <2>2 DEF Leads, Post
  <1>5. CASE ~\E k \in 1..Len(page) : page[k] = i
    <2>1. i > m.at /\ i \in Nat
      BY <1>1, <1>2, <1>3, CursorsAreNumbers
    <2>2. IsFull(page) /\ ~(i <= NextLast(page))
      BY <1>2, <1>5, <2>1 DEF IsPage
    <2>3. NextLast(page) < i
      <3>1. NextLast(page) \in Inboxes
        BY <1>3, <2>2, PageCursor
      <3>2. NextLast(page) \in Nat
        BY <3>1, InboxesAssumption
      <3> QED BY <2>1, <2>2, <3>2
    <2>4. PICK j \in DOMAIN Expansion(m, page) :
             Expansion(m, page)[j] = Batch(m.ev, m.author, NextLast(page))
      BY <1>3, <2>2, ExpansionMessages
    <2> QED BY <1>1, <2>3, <2>4 DEF Leads, Batch
  <1> QED BY <1>4, <1>5

\* While a worker acts, what led to somebody keeps leading there, unless he is
\* told or the event is damaged.
LEMMA WorkerLeads ==
    ASSUME TypeOK, TypeOK', WorkersAligned, ExpansionAdvances,
           NEW w \in Workers, WorkerStep(w) \/ Failure(w),
           NEW e \in Events, e \notin damaged',
           NEW u \in Users, NEW i \in Inboxes,
           <<u, i>> \in Following, <<u, i>> \notin settled'[e],
           NEW m \in Message, Waiting(m), Leads(m, e, <<u, i>>)
    PROVE  \E x \in Message : Waiting(x)' /\ Leads(x, e, <<u, i>>)
  <1> DEFINE Led == \E x \in Message : Waiting(x)' /\ Leads(x, e, <<u, i>>)
  <1>1. m.ev = e /\ m.type \in {"Batch", "Post"}
    BY DEF Leads
  <1>2. ASSUME Waiting(m)' PROVE Led
    BY <1>2
  <1>3. CASE ReceiveBatch(w)
    <2>1. PICK b \in Seq(Message) :
              /\ batch' = [batch EXCEPT ![w] = b]
              /\ \A x \in Message :
                    queue[x] > 0 => queue'[x] > 0 \/ \E k \in DOMAIN b : b[k] = x
      BY <1>3, ReceiveTypes
    <2>2. batch[w] = <<>> /\ pc[w] = "next" /\ todo[w] = <<>> /\ pc' = pc /\ batch'[w] = b
      BY <1>3, <2>1 DEF ReceiveBatch, WorkersAligned, TypeOK
    <2>3. ASSUME queue[m] > 0 PROVE Waiting(m)'
      <3>1. CASE queue'[m] > 0
        BY <3>1, WaitingPlacesNext
      <3>2. CASE \E k \in DOMAIN b : b[k] = m
        <4>1. WaitsInBatch(m, w)'
          BY <2>2, <3>2 DEF WaitsInBatch
        <4> QED BY <4>1, WaitingPlacesNext
      <3> QED BY <2>1, <2>3, <3>1, <3>2
    <2>4. ~WaitsInBatch(m, w) /\ ~WaitsInTodo(m, w)
      BY <2>2 DEF WaitsInBatch, WaitsInTodo
    <2> QED BY <1>2, <2>3, <2>4, WaitingKept
  <1>4. ASSUME NEW type, Begins(w, type), NEW msgs \in Seq(Message), Enqueues(w, msgs)
        PROVE  /\ Waiting(m)' \/ m = Current(w)
               /\ type = "Batch" => \A k \in DOMAIN msgs : Waiting(msgs[k])'
    <2>1. /\ todo[w] = <<>> /\ pc[w] = "next" /\ batch[w] # <<>>
          /\ todo'[w] = msgs /\ pc'[w] = "enqueue" /\ batch' = batch
          /\ Current(w)' = Current(w) /\ Current(w).type = type
      BY <1>4, EnqueuesEffect
    <2>2. queue' = queue
      BY <1>4 DEF Enqueues
    <2>3. queue[m] > 0 => Waiting(m)'
      BY <2>2, WaitingPlacesNext
    <2>4. ~WaitsInTodo(m, w)
      BY <2>1 DEF WaitsInTodo
    <2>5. ASSUME WaitsInBatch(m, w), m # Current(w) PROVE Waiting(m)'
      <3>1. PICK k \in DOMAIN batch[w] : batch[w][k] = m
        BY <2>5 DEF WaitsInBatch
      <3>2. k > 1
        <4>1. batch[w] \in Seq(Message)
          BY DEF TypeOK
        <4>2. k \in Nat /\ k >= 1
          BY <3>1, <4>1
        <4>3. k # 1
          BY <2>1, <2>5, <3>1, CurrentMessage
        <4> QED BY <4>2, <4>3
      <3>3. WaitsInBatch(m, w)'
        BY <2>1, <3>1, <3>2 DEF WaitsInBatch
      <3> QED BY <3>3, WaitingPlacesNext
    <2>6. Waiting(m)' \/ m = Current(w)
      BY <2>3, <2>4, <2>5, WaitingKept
    <2>7. ASSUME type = "Batch", NEW k \in DOMAIN msgs PROVE Waiting(msgs[k])'
      <3>1. WaitsInTodo(msgs[k], w)'
        BY <2>1, <2>7 DEF WaitsInTodo
      <3> QED BY <3>1, WaitingPlacesNext
    <2> QED BY <2>6, <2>7
  <1>5. CASE ResolveAuthor(w) \/ ForwardDelete(w) \/ AssetFails(w)
    <2>1. Begins(w, "ToAll") /\ Current(w).type = "ToAll"
      BY <1>5 DEF ResolveAuthor, ForwardDelete, AssetFails, Begins
    <2>2. Current(w) \in Message /\ Current(w).ev \in Events
      BY <2>1, CurrentMessage, MessageFields DEF Begins
    <2>3. PICK msgs \in Seq(Message) : Enqueues(w, msgs)
      <3>1. <<>> \in Seq(Message)
        OBVIOUS
      <3>2. /\ FirstBatch(Current(w).ev, author[Current(w).ev.slug]) \in Seq(Message)
            /\ FirstBatch(Current(w).ev, Current(w).ev.author) \in Seq(Message)
        BY <2>2, AuthorTypes, FirstBatchMessages
      <3> QED BY <1>5, <3>1, <3>2 DEF ResolveAuthor, ForwardDelete, AssetFails
    <2> QED BY <1>1, <1>2, <1>4, <2>1, <2>3
  <1>6. CASE QueryFails(w)
    <2>1. Begins(w, "Batch") /\ Enqueues(w, <<>>) /\ <<>> \in Seq(Message)
      BY <1>6 DEF QueryFails
    <2>2. Current(w).ev \in damaged'
      BY <1>6 DEF QueryFails
    <2> QED BY <1>1, <1>2, <1>4, <2>1, <2>2
  <1>7. CASE ReadPage(w)
    <2>1. PICK page \in Pages :
             /\ IsPage(page, InboxesIn(followers, Current(w).author), Current(w).at)
             /\ Enqueues(w, Expansion(Current(w), page))
      BY <1>7 DEF ReadPage
    <2>2. Begins(w, "Batch") /\ Current(w) \in Message /\ Current(w).type = "Batch"
      BY <1>7, CurrentMessage DEF ReadPage, Begins
    <2>3. PICK msgs \in Seq(Message) : msgs = Expansion(Current(w), page)
      BY <2>1, <2>2, InboxesInType, ExpansionMessages
    <2>4. /\ \A k \in DOMAIN msgs : Waiting(msgs[k])'
          /\ Waiting(m)' \/ m = Current(w)
      BY <1>4, <2>1, <2>2, <2>3
    <2>5. ASSUME m = Current(w) PROVE Led
      <3>1. PICK k \in DOMAIN msgs : Leads(msgs[k], e, <<u, i>>)
        BY <2>1, <2>2, <2>3, <2>5, ExpansionLeads
      <3>2. msgs[k] \in Message
        OBVIOUS
      <3> QED BY <2>4, <3>1, <3>2
    <2> QED BY <1>2, <2>4, <2>5
  <1>8. CASE EnqueueNext(w) \/ EnqueueFails(w)
    <2>1. /\ todo[w] # <<>> /\ todo'[w] = Tail(todo[w]) /\ pc' = pc /\ batch' = batch
      BY <1>8 DEF EnqueueNext, EnqueueFails, TypeOK
    <2>2. queue[m] > 0 => queue'[m] > 0
      <3>1. \/ queue' = queue
            \/ queue' = [queue EXCEPT ![Head(todo[w])] = @ + 1]
        BY <1>8 DEF EnqueueNext, EnqueueFails
      <3>2. queue \in [Message -> Nat]
        BY DEF TypeOK
      <3> QED BY <3>1, <3>2
    <2>3. WaitsInBatch(m, w) => WaitsInBatch(m, w)'
      BY <2>1 DEF WaitsInBatch
    <2>4. ASSUME WaitsInTodo(m, w) PROVE Waiting(m)'
      <3>1. PICK k \in DOMAIN todo[w] : todo[w][k] = m
        BY <2>4 DEF WaitsInTodo
      <3>2. CASE k = 1
        <4>1. m = Head(todo[w])
          BY <2>1, <3>1, <3>2, TodoHead
        <4>2. EnqueueNext(w)
          BY <1>1, <1>8, <4>1 DEF EnqueueFails
        <4>3. queue' = [queue EXCEPT ![m] = @ + 1] /\ queue[m] \in Nat
          BY <4>1, <4>2 DEF EnqueueNext, TypeOK
        <4>4. queue'[m] > 0
          BY <4>3 DEF TypeOK
        <4> QED BY <4>4, WaitingPlacesNext
      <3>3. CASE k # 1
        <4>1. k \in Nat /\ k > 1
          BY <3>1, <3>3 DEF TypeOK
        <4>2. k - 1 \in DOMAIN todo'[w] /\ todo'[w][k - 1] = m
          BY <2>1, <3>1, <4>1, TodoHead
        <4>3. WaitsInTodo(m, w)'
          BY <2>1, <2>4, <4>2 DEF WaitsInTodo, Current
        <4> QED BY <4>3, WaitingPlacesNext
      <3> QED BY <3>2, <3>3
    <2> QED BY <1>2, <2>2, <2>3, <2>4, WaitingKept, WaitingPlacesNext
  <1>9. CASE SendPost(w)
    <2>1. /\ queue' = queue /\ batch' = batch /\ todo' = todo
          /\ pc'[w] \in {"finished", "retry"}
      BY <1>9 DEF SendPost, TypeOK
    <2>2. WaitsInBatch(m, w) => WaitsInBatch(m, w)'
      BY <2>1 DEF WaitsInBatch
    <2>3. WaitsInTodo(m, w) => WaitsInTodo(m, w)'
      BY <2>1 DEF WaitsInTodo, Current
    <2> QED BY <1>2, <2>1, <2>2, <2>3, WaitingKept, WaitingPlacesNext
  <1>10. ASSUME NEW s \in Seq(Message), queue' = Requeued(s),
                damaged' = damaged \cup LostIn(s),
                NEW x \in Message, Leads(x, e, <<u, i>>), \E k \in DOMAIN s : s[k] = x
         PROVE  Led
    <2>1. PICK k \in DOMAIN s : s[k] = x
      BY <1>10
    <2>2. x.ev = e
      BY <1>10 DEF Leads
    <2>3. CanRedeliver(x)
      BY <1>10, <2>1, <2>2 DEF LostIn
    <2>4. Redelivered(x) \in Message /\ queue'[Redelivered(x)] > 0
      BY <1>10, <2>1, <2>3, RequeuedQueue, RedeliveredMessage
    <2>5. Waiting(Redelivered(x))'
      BY <2>4, WaitingPlacesNext
    <2> QED BY <1>10, <2>3, <2>4, <2>5, RedeliveredLeads
  <1>11. CASE Ack(w) \/ Retry(w)
    <2>1. /\ batch[w] # <<>> /\ batch'[w] = Tail(batch[w]) /\ todo' = todo /\ todo[w] = <<>>
          /\ pc'[w] = "next"
      BY <1>11 DEF Ack, Retry, WorkersAligned, TypeOK
    <2>2. queue[m] > 0 => queue'[m] > 0
      <3>1. CASE Ack(w)
        BY <3>1 DEF Ack
      <3>2. CASE Retry(w)
        <4>1. <<Current(w)>> \in Seq(Message)
          BY <2>1, CurrentMessage
        <4> QED BY <3>2, <4>1, RequeuedQueue DEF Retry
      <3> QED BY <1>11, <3>1, <3>2
    <2>3. ~WaitsInTodo(m, w)
      BY <2>1 DEF WaitsInTodo
    <2>4. ASSUME NEW k \in DOMAIN batch[w], batch[w][k] = m, k > 1 PROVE Waiting(m)'
      <3>1. k - 1 \in DOMAIN batch'[w] /\ batch'[w][k - 1] = m
        BY <2>1, <2>4, CurrentMessage
      <3>2. WaitsInBatch(m, w)'
        BY <2>1, <3>1 DEF WaitsInBatch
      <3> QED BY <3>2, WaitingPlacesNext
    <2>5. ASSUME m = Current(w), pc[w] # "enqueue" PROVE Led
      <3>1. CASE Ack(w)
        <4>1. pc[w] = "finished" /\ m.type = "Post" /\ Recipient(m) \in settled[m.ev]
          BY <2>5, <3>1 DEF Ack, WorkersAligned
        <4>2. <<u, i>> \in settled[e]
          BY <4>1, LeadsSettled
        <4> QED BY <4>2, OtherWorkers
      <3>2. CASE Retry(w)
        <4>1. <<m>> \in Seq(Message) /\ 1 \in DOMAIN <<m>> /\ <<m>>[1] = m
          OBVIOUS
        <4>2. queue' = Requeued(<<m>>) /\ damaged' = damaged \cup LostIn(<<m>>)
          BY <2>5, <3>2 DEF Retry
        <4> QED BY <1>10, <4>1, <4>2
      <3> QED BY <1>11, <3>1, <3>2
    <2>6. CASE WaitsInBatch(m, w)
      <3>1. PICK k \in DOMAIN batch[w] : batch[w][k] = m /\ (k > 1 \/ pc[w] # "enqueue")
        BY <2>6 DEF WaitsInBatch
      <3>2. k = 1 \/ k > 1
        BY <3>1 DEF TypeOK
      <3>3. k = 1 => m = Current(w)
        BY <2>1, <3>1, CurrentMessage
      <3> QED BY <1>2, <2>4, <2>5, <3>1, <3>2, <3>3
    <2> QED BY <1>2, <2>2, <2>3, <2>6, WaitingKept, WaitingPlacesNext
  <1>12. CASE Crash(w)
    <2>1. /\ batch[w] # <<>> /\ batch[w] \in Seq(Message)
          /\ queue' = Requeued(batch[w]) /\ damaged' = damaged \cup LostIn(batch[w])
      BY <1>12 DEF Crash, TypeOK
    <2>2. queue[m] > 0 => queue'[m] > 0
      BY <2>1, RequeuedQueue
    <2>3. CASE WaitsInBatch(m, w)
      BY <1>10, <2>1, <2>3 DEF WaitsInBatch
    <2>4. CASE WaitsInTodo(m, w)
      <3>1. m \in Pending(w) /\ Current(w).type = "Batch"
        BY <2>4 DEF WaitsInTodo, Pending
      <3>2. /\ m.ev = Current(w).ev /\ m.author = Current(w).author
            /\ m.at > Current(w).at
        BY <3>1 DEF ExpansionAdvances
      <3>3. Current(w) \in Message /\ \E k \in DOMAIN batch[w] : batch[w][k] = Current(w)
        BY <2>1, CurrentMessage
      <3>4. m.at \in Nat /\ Current(w).at \in Nat /\ i \in Nat
        <4>1. m.at \in Cursors /\ Current(w).at \in Cursors
          BY <1>1, <3>1, <3>3, MessageFields DEF Cursors
        <4> QED BY <4>1, CursorsAreNumbers
      <3>5. m.at <= i
        BY <3>4 DEF Leads
      <3>6. Leads(Current(w), e, <<u, i>>)
        BY <3>1, <3>2, <3>4, <3>5 DEF Leads
      <3> QED BY <1>10, <2>1, <3>3, <3>6
    <2> QED BY <1>2, <2>2, <2>3, <2>4, WaitingKept, WaitingPlacesNext
  <1> QED BY <1>3, <1>5, <1>6, <1>7, <1>8, <1>9, <1>11, <1>12 DEF WorkerStep, Failure

LEMMA NextCovered ==
    IndInv /\ TypeOK' /\ [Next]_vars => Covered'
  <1> SUFFICES ASSUME IndInv, TypeOK', [Next]_vars,
                      NEW e \in Events, e \notin damaged',
                      NEW p \in due'[e], p \notin settled'[e]
               PROVE  \E x \in Message : Waiting(x)' /\ Leads(x, e, p)
    BY DEF Covered, Leads
  <1>0. TypeOK /\ WorkersAligned /\ ExpansionAdvances /\ DueFollow /\ Covered
    BY DEF IndInv
  <1>1. PICK u \in Users, i \in Inboxes : p = <<u, i>>
    BY DEF TypeOK
  <1>2. CASE Environment \/ UNCHANGED vars
    <2>1. UNCHANGED <<batch, todo, pc, settled, damaged>>
      BY <1>2, EnvironmentFrame DEF vars, consumer, history
    <2>2. due'[e] \subseteq due[e]
      BY <1>2 DEF Environment, Announce, Redeploy, AddFollower, RemoveFollower, vars, history
    <2>3. \A x \in Message : queue[x] > 0 => queue'[x] > 0
      <3>1. queue' = queue \/ \E x \in Events : queue' = [queue EXCEPT ![ToAll(x)] = @ + 1]
        BY <1>2 DEF Environment, Announce, Redeploy, AddFollower, RemoveFollower, vars
      <3>2. queue \in [Message -> Nat]
        BY <1>0 DEF TypeOK
      <3> QED BY <3>1, <3>2
    <2>4. PICK x \in Message : Waiting(x) /\ Leads(x, e, p)
      BY <1>0, <2>1, <2>2 DEF Covered
    <2>5. Waiting(x)'
      <3>1. ASSUME NEW w \in Workers, WaitsInBatch(x, w) \/ WaitsInTodo(x, w)
            PROVE  WaitsInBatch(x, w)' \/ WaitsInTodo(x, w)'
        BY <2>1, <3>1 DEF WaitsInBatch, WaitsInTodo, Current
      <3> QED BY <2>3, <2>4, <3>1, WaitingPlaces, WaitingPlacesNext
    <2> QED BY <2>4, <2>5
  <1>3. ASSUME NEW w \in Workers, WorkerStep(w) \/ Failure(w)
        PROVE  \E x \in Message : Waiting(x)' /\ Leads(x, e, p)
    <2>1. CASE p \in due[e]
      <3>1. p \notin settled[e] /\ e \notin damaged /\ p \in Following
        BY <1>0, <1>3, <2>1, OtherWorkers DEF DueFollow
      <3>2. PICK x \in Message : Waiting(x) /\ Leads(x, e, p)
        BY <1>0, <2>1, <3>1 DEF Covered
      <3> QED BY <1>0, <1>1, <1>3, <3>1, <3>2, WorkerLeads
    <2>2. CASE p \notin due[e]
      <3>1. due' # due
        BY <2>2
      <3>2. EnqueueNext(w)
        BY <1>3, <3>1 DEF WorkerStep, Failure, ReceiveBatch, ResolveAuthor, ForwardDelete,
              ReadPage, SendPost, Ack, Retry, EnqueueFails, QueryFails, AssetFails, Crash, history
      <3>3. PICK h \in Message : h = Head(todo[w])
        BY <1>0, <3>2, TodoHead DEF EnqueueNext
      <3>4. /\ e = h.ev /\ h.type = "Batch" /\ h.at = EmptyString
            /\ p \in {h.author} \X InboxesIn(followers, h.author)
        BY <1>0, <2>2, <3>2, <3>3 DEF EnqueueNext, TypeOK
      <3>5. queue' = [queue EXCEPT ![h] = @ + 1] /\ queue \in [Message -> Nat]
        BY <1>0, <3>2, <3>3 DEF EnqueueNext, TypeOK
      <3>6. Waiting(h)'
        BY <3>3, <3>5, WaitingPlacesNext
      <3>7. i > 0
        BY <1>1, InboxesAssumption
      <3>8. Leads(h, e, p)
        BY <1>1, <3>4, <3>7 DEF Leads, EmptyString
      <3> QED BY <3>3, <3>6, <3>8
    <2> QED BY <2>1, <2>2
  <1> QED BY <1>2, <1>3 DEF Next

-------------------------------------------------------------------------------
(* The theorems.                                                           *)

LEMMA InitIndInv == Init => IndInv
  <1> SUFFICES ASSUME Init PROVE IndInv
    OBVIOUS
  <1>1. TypeOK
    BY InitTypeOK
  <1>2. /\ \A w \in Workers : pc[w] = "next" /\ todo[w] = <<>> /\ batch[w] = <<>>
        /\ \A e \in Events : due[e] = {} /\ settled[e] = {}
        /\ \A m \in Message : queue[m] = 0
        /\ announced = {}
    BY DEF Init
  <1>3. \A w \in Workers : DOMAIN todo[w] = {} /\ DOMAIN batch[w] = {}
    BY <1>2
  <1>4. WorkersAligned /\ ExpansionAdvances
    BY <1>2, <1>3 DEF WorkersAligned, ExpansionAdvances, Pending
  <1>5. DueFollow /\ Covered
    BY <1>2 DEF DueFollow, Covered
  <1>6. InFlight = {}
    BY <1>1, <1>2, <1>3, InFlightParts
  <1> QED BY <1>1, <1>2, <1>4, <1>5, <1>6 DEF IndInv, AnnouncedOnly, OnlyFollowersNotified

LEMMA NextIndInv == IndInv /\ [Next]_vars => IndInv'
  <1> SUFFICES ASSUME IndInv, [Next]_vars PROVE IndInv'
    OBVIOUS
  <1>1. TypeOK'
    BY NextTypeOK DEF IndInv
  <1>2. WorkersAligned' /\ ExpansionAdvances'
    BY NextAligned DEF IndInv
  <1>3. DueFollow'
    BY NextDueFollow DEF IndInv
  <1>4. AnnouncedOnly' /\ OnlyFollowersNotified'
    BY <1>1, NextOnlyFollowers DEF IndInv
  <1>5. Covered'
    BY <1>1, NextCovered
  <1> QED BY <1>1, <1>2, <1>3, <1>4, <1>5 DEF IndInv

THEOREM Invariance == Spec => []IndInv
  BY InitIndInv, NextIndInv, PTL DEF Spec

\* Every state of every run is well typed.
THEOREM TypeCorrect == Spec => []TypeOK
  <1>1. IndInv => TypeOK
    BY DEF IndInv
  <1> QED BY <1>1, Invariance, PTL

\* What is covered by no message in flight is not owed any more.
LEMMA EndedIsTold == IndInv => NoFollowerSkipped
  <1> SUFFICES ASSUME IndInv, NEW e \in Events \ damaged, ~Active(e),
                      NEW p \in due[e], p \notin settled[e]
               PROVE  FALSE
    BY DEF NoFollowerSkipped
  <1>1. PICK m \in Message : Waiting(m) /\ Leads(m, e, p)
    BY DEF IndInv, Covered
  <1>2. m \in InFlight
    BY <1>1, InFlightParts DEF IndInv, Waiting, Queued
  <1> QED BY <1>1, <1>2 DEF Active, Leads

\* However many followers, pages and consumers there are, and however messages
\* are reordered, batched, retried and redelivered while followers come and go:
\* an event that lost nothing to a failure has reached everybody it is owed to
\* by the time nothing of it is left in the queue or with a consumer.
THEOREM NobodySkipped == Spec => []NoFollowerSkipped
  <1> QED BY EndedIsTold, Invariance, PTL

\* Only inboxes that followed the author at some time since the announcement are
\* ever posted to.
THEOREM OnlyFollowers == Spec => []OnlyFollowersNotified
  <1>1. IndInv => OnlyFollowersNotified
    BY DEF IndInv
  <1> QED BY <1>1, Invariance, PTL

\* The expansion of an announcement only ever moves forward.
THEOREM Advances == Spec => []ExpansionAdvances
  <1>1. IndInv => ExpansionAdvances
    BY DEF IndInv
  <1> QED BY <1>1, Invariance, PTL

-------------------------------------------------------------------------------
(* No inbox is sent an event twice.                                        *)

\* Processing m may end in a Post of event e to the recipient p.
Covers(m, e, p) == m.ev = e /\ (m.type = "ToAll" \/ Leads(m, e, p))

\* x is a place event e may still reach recipient p from, or has: a message that
\* waits in the queue, with a consumer or to be enqueued, the final answer, or
\* the announcement still to come.  A message that is being expanded is no place,
\* nor is one whose answer has come.
IsPlace(x, e, p) ==
    \/ \E m \in Message : queue[m] > 0 /\ Covers(m, e, p) /\ x = <<"queue", m, 0>>
    \/ \E w \in Workers : \E k \in DOMAIN batch[w] :
          /\ Covers(batch[w][k], e, p) /\ (k > 1 \/ pc[w] \in {"next", "retry"})
          /\ x = <<"batch", w, k>>
    \/ \E w \in Workers : \E k \in DOMAIN todo[w] :
          Covers(todo[w][k], e, p) /\ x = <<"todo", w, k>>
    \/ p \in settled[e] /\ x = <<"settled", 0, 0>>
    \/ e \notin announced /\ x = <<"new", 0, 0>>

\* There is one such place at most, and one copy of the message there.
OneWay(e, p) ==
    /\ \A x, y : IsPlace(x, e, p) /\ IsPlace(y, e, p) => x = y
    /\ \A m \in Message : Covers(m, e, p) => queue[m] <= 1

\* An invocation that died in the middle of a message may have sent it on.
OneWayEach == \A e \in Events \ repeated : \A p \in Users \X Inboxes : OneWay(e, p)

\* The form of a place.
Triple(x) == \E a, b : \E k \in Nat : x = <<a, b, k>> /\ (a \in {"batch", "todo"} => k >= 1)

LEMMA PlaceForm == TypeOK => \A x, e, p : IsPlace(x, e, p) => Triple(x)
  <1> SUFFICES ASSUME TypeOK, NEW x, NEW e, NEW p, IsPlace(x, e, p) PROVE Triple(x)
    OBVIOUS
  <1>1. \A w \in Workers : \A k \in DOMAIN batch[w] : k \in Nat /\ k >= 1
    BY DEF TypeOK
  <1>2. \A w \in Workers : \A k \in DOMAIN todo[w] : k \in Nat /\ k >= 1
    BY DEF TypeOK
  <1>3. 0 \in Nat
    OBVIOUS
  <1>4. ASSUME NEW a, NEW b, NEW k \in Nat, x = <<a, b, k>>, a \in {"batch", "todo"} => k >= 1
        PROVE  Triple(x)
    BY <1>4 DEF Triple
  <1>5. CASE \E m \in Message : x = <<"queue", m, 0>>
    <2>1. PICK m : x = <<"queue", m, 0>>
      BY <1>5
    <2>2. ("queue" \in {"batch", "todo"} => 0 >= 1)
      OBVIOUS
    <2> QED BY <1>3, <1>4, <2>1, <2>2
  <1>6. CASE \E w \in Workers : \E k \in DOMAIN batch[w] : x = <<"batch", w, k>>
    BY <1>1, <1>4, <1>6
  <1>7. CASE \E w \in Workers : \E k \in DOMAIN todo[w] : x = <<"todo", w, k>>
    BY <1>2, <1>4, <1>7
  <1>8. CASE x = <<"settled", 0, 0>> \/ x = <<"new", 0, 0>>
    BY <1>3, <1>8 DEF Triple
  <1> QED BY <1>5, <1>6, <1>7, <1>8 DEF IsPlace

LEMMA PlaceFormNext == TypeOK' => \A x, e, p : IsPlace(x, e, p)' => Triple(x)
  <1>1. TypeOK' => (\A x, e, p : IsPlace(x, e, p) => Triple(x))'
    BY PlaceForm, PTL
  <1> QED BY <1>1

LEMMA EnqueueNextOneWay ==
    ASSUME TypeOK, TypeOK', NEW w \in Workers, EnqueueNext(w),
           NEW e \in Events, NEW p \in Users \X Inboxes, OneWay(e, p)
    PROVE  OneWay(e, p)'
  <1>1. PICK m \in Message : m = Head(todo[w])
    BY TodoHead DEF EnqueueNext
  <1>2. /\ \A v \in Workers \ {w} : todo'[v] = todo[v]
        /\ queue' = [queue EXCEPT ![m] = @ + 1]
        /\ \A q \in Message \ {m} : queue'[q] = queue[q]
        /\ queue'[m] = queue[m] + 1 /\ queue[m] \in Nat
        /\ todo'[w] = Tail(todo[w])
        /\ 1 \in DOMAIN todo[w] /\ todo[w][1] = m
        /\ \A k \in DOMAIN todo'[w] :
              k \in Nat /\ k >= 1 /\ k + 1 \in DOMAIN todo[w] /\ todo'[w][k] = todo[w][k + 1]
        /\ UNCHANGED <<batch, pc, settled, announced>>
    <2>1. /\ todo' = [todo EXCEPT ![w] = Tail(@)] /\ queue' = [queue EXCEPT ![m] = @ + 1]
          /\ todo[w] # <<>>
          /\ UNCHANGED <<batch, pc, settled, announced>>
      BY <1>1 DEF EnqueueNext
    <2>2. /\ \A v \in Workers \ {w} : todo'[v] = todo[v]
          /\ todo'[w] = Tail(todo[w])
      BY <2>1 DEF TypeOK
    <2>3. /\ \A q \in Message \ {m} : queue'[q] = queue[q]
          /\ queue'[m] = queue[m] + 1 /\ queue[m] \in Nat
      BY <2>1 DEF TypeOK
    <2>4. /\ 1 \in DOMAIN todo[w] /\ todo[w][1] = m
          /\ Tail(todo[w]) \in Seq(Message)
          /\ \A k \in DOMAIN Tail(todo[w]) :
                k + 1 \in DOMAIN todo[w] /\ Tail(todo[w])[k] = todo[w][k + 1]
      BY <1>1, <2>1, TodoHead
    <2>5. \A k \in DOMAIN Tail(todo[w]) : k \in Nat /\ k >= 1
      BY <2>4
    <2> QED BY <2>1, <2>2, <2>3, <2>4, <2>5
  <1>3. Covers(m, e, p) => queue[m] = 0
    <2> SUFFICES ASSUME Covers(m, e, p), queue[m] > 0 PROVE FALSE
      BY <1>2
    <2>1. IsPlace(<<"queue", m, 0>>, e, p) /\ IsPlace(<<"todo", w, 1>>, e, p)
      BY <1>2 DEF IsPlace
    <2> QED BY <2>1 DEF OneWay
  <1> DEFINE from(x) == IF x = <<"queue", m, 0>> THEN <<"todo", w, 1>>
                        ELSE IF x[1] = "todo" /\ x[2] = w THEN <<"todo", w, x[3] + 1>> ELSE x
  <1>4. ASSUME NEW x, IsPlace(x, e, p)'
        PROVE  IsPlace(from(x), e, p)
    <2>1. ASSUME NEW q \in Message, queue'[q] > 0, Covers(q, e, p), x = <<"queue", q, 0>>
          PROVE  IsPlace(from(x), e, p)
      BY <1>2, <2>1 DEF IsPlace
    <2>2. ASSUME NEW v \in Workers, NEW k \in DOMAIN todo'[v], Covers(todo'[v][k], e, p),
                 x = <<"todo", v, k>>
          PROVE  IsPlace(from(x), e, p)
      <3>1. CASE v = w
        <4>1. /\ from(x) = <<"todo", w, k + 1>> /\ k + 1 \in DOMAIN todo[w]
              /\ Covers(todo[w][k + 1], e, p)
          BY <1>2, <2>2, <3>1
        <4> HIDE DEF from
        <4> QED BY <4>1 DEF IsPlace
      <3>2. CASE v # w
        <4>1. from(x) = x /\ v \in Workers /\ todo'[v] = todo[v]
          BY <1>2, <2>2, <3>2
        <4> HIDE DEF from
        <4> QED BY <2>2, <4>1 DEF IsPlace
      <3> QED BY <3>1, <3>2
    <2>3. CASE x[1] \notin {"queue", "todo"}
      BY <1>2, <1>4, <2>3 DEF IsPlace
    <2> QED BY <1>4, <2>1, <2>2, <2>3 DEF IsPlace
  <1>5. ASSUME NEW x, NEW y, IsPlace(x, e, p)', IsPlace(y, e, p)', from(x) = from(y)
        PROVE  x = y
    <2>1. Triple(x) /\ Triple(y)
      BY <1>5, PlaceFormNext
    <2> QED BY <1>5, <2>1 DEF Triple
  <1>6. \A x, y : IsPlace(x, e, p)' /\ IsPlace(y, e, p)' => x = y
    BY <1>4, <1>5 DEF OneWay
  <1> QED BY <1>2, <1>3, <1>6 DEF OneWay

\* A step that makes no new place for the event and its recipient.
LEMMA NoNewPlace ==
    ASSUME TypeOK, NEW e, NEW p, OneWay(e, p),
           \A x : IsPlace(x, e, p)' => IsPlace(x, e, p),
           \A m \in Message : Covers(m, e, p) => queue'[m] = queue[m]
    PROVE  OneWay(e, p)'
  BY DEF OneWay

\* An event is announced once, and takes the place of its announcement.
LEMMA AnnounceOneWay ==
    ASSUME TypeOK, NEW a \in Events, Announce(a),
           NEW e \in Events, NEW p \in Users \X Inboxes, OneWay(e, p)
    PROVE  OneWay(e, p)'
  <1>0. ToAll(a) \in Message
    BY MaxRetriesAssumption DEF ToAll, Message, Tries
  <1>1. PICK m \in Message : m = ToAll(a)
    BY <1>0
  <1>2. /\ \A q \in Message \ {m} : queue'[q] = queue[q]
        /\ queue'[m] = queue[m] + 1 /\ queue[m] \in Nat
        /\ m.ev = a /\ a \notin announced /\ announced' = announced \cup {a}
        /\ UNCHANGED <<batch, todo, pc, settled>>
    BY <1>1 DEF Announce, TypeOK, ToAll, consumer
  <1>3. CASE e # a
    <2>1. ~Covers(m, e, p)
      BY <1>2, <1>3 DEF Covers
    <2>2. \A x : IsPlace(x, e, p)' => IsPlace(x, e, p)
      BY <1>2, <1>3, <2>1 DEF IsPlace
    <2> QED BY <1>2, <2>1, <2>2, NoNewPlace
  <1>4. CASE e = a
    <2>1. IsPlace(<<"new", 0, 0>>, e, p)
      BY <1>2, <1>4 DEF IsPlace
    <2>2. \A x : IsPlace(x, e, p) => x = <<"new", 0, 0>>
      BY <2>1 DEF OneWay
    <2>3. \A q \in Message : Covers(q, e, p) => queue[q] = 0
      <3> SUFFICES ASSUME NEW q \in Message, Covers(q, e, p), queue[q] > 0 PROVE FALSE
        BY DEF TypeOK
      <3>1. IsPlace(<<"queue", q, 0>>, e, p)
        BY DEF IsPlace
      <3> QED BY <2>2, <3>1
    <2>4. ASSUME NEW x, IsPlace(x, e, p)'
          PROVE  x = <<"queue", m, 0>>
      <3>1. IsPlace(x, e, p) \/ x = <<"queue", m, 0>>
        BY <1>2, <2>4 DEF IsPlace
      <3>2. x # <<"new", 0, 0>>
        BY <1>2, <1>4, <2>4 DEF IsPlace
      <3> QED BY <2>2, <3>1, <3>2
    <2>5. \A q \in Message : Covers(q, e, p) => queue'[q] <= 1
      BY <1>2, <2>3
    <2> QED BY <2>4, <2>5 DEF OneWay
  <1> QED BY <1>3, <1>4

\* Who follows meanwhile, and what is deployed, does not matter.
LEMMA EnvironmentOneWay ==
    ASSUME TypeOK, Environment,
           NEW e \in Events, NEW p \in Users \X Inboxes, OneWay(e, p)
    PROVE  OneWay(e, p)'
  <1>1. ASSUME NEW a \in Events, Announce(a) PROVE OneWay(e, p)'
    BY <1>1, AnnounceOneWay
  <1>2. ASSUME UNCHANGED <<queue, batch, todo, pc, settled, announced>>
        PROVE  OneWay(e, p)'
    <2>1. \A x : IsPlace(x, e, p)' => IsPlace(x, e, p)
      BY <1>2 DEF IsPlace
    <2> QED BY <1>2, <2>1, NoNewPlace
  <1>3. CASE \/ \E site \in [Slugs -> Users \cup {None}] : Redeploy(site)
             \/ \E u \in Users, a \in Actors, i \in Inboxes : AddFollower(u, a, i)
             \/ \E u \in Users, a \in Actors : RemoveFollower(u, a)
    BY <1>2, <1>3 DEF Redeploy, AddFollower, RemoveFollower, consumer, history
  <1> QED BY <1>1, <1>3 DEF Environment

\* What a consumer sets out to enqueue takes the place of the message it is at,
\* if there is only one message among it that leads to the recipient.
LEMMA BeginOneWay ==
    ASSUME TypeOK, TypeOK', WorkersAligned, NEW w \in Workers, NEW type, Begins(w, type),
           NEW msgs \in Seq(Message), Enqueues(w, msgs), UNCHANGED <<settled, announced>>,
           NEW e \in Events, NEW p \in Users \X Inboxes, OneWay(e, p),
           \A k \in DOMAIN msgs : Covers(msgs[k], e, p) => Covers(Current(w), e, p),
           \A j, k \in DOMAIN msgs : Covers(msgs[j], e, p) /\ Covers(msgs[k], e, p) => j = k
    PROVE  OneWay(e, p)'
  <1>1. /\ todo'[w] = msgs /\ pc[w] = "next" /\ pc'[w] = "enqueue"
        /\ 1 \in DOMAIN batch[w] /\ batch[w][1] = Current(w)
        /\ \A v \in Workers \ {w} : todo'[v] = todo[v] /\ pc'[v] = pc[v]
        /\ UNCHANGED <<queue, batch, settled, announced>>
    <2>1. /\ todo'[w] = msgs /\ pc[w] = "next" /\ pc'[w] = "enqueue" /\ batch[w] # <<>>
      BY EnqueuesEffect
    <2>2. 1 \in DOMAIN batch[w] /\ batch[w][1] = Current(w)
      BY <2>1, CurrentMessage
    <2>3. /\ \A v \in Workers \ {w} : todo'[v] = todo[v] /\ pc'[v] = pc[v]
          /\ UNCHANGED <<queue, batch>>
      BY DEF Enqueues, TypeOK
    <2> QED BY <2>1, <2>2, <2>3
  <1> DEFINE from(x) == IF x[1] = "todo" /\ x[2] = w THEN <<"batch", w, 1>> ELSE x
  <1>2. ASSUME NEW x, IsPlace(x, e, p)'
        PROVE  IsPlace(from(x), e, p)
    <2>1. ASSUME NEW k \in DOMAIN msgs, Covers(msgs[k], e, p), x = <<"todo", w, k>>
          PROVE  IsPlace(from(x), e, p)
      <3>1. from(x) = <<"batch", w, 1>>
        BY <2>1
      <3>2. Covers(batch[w][1], e, p)
        BY <1>1, <2>1
      <3> HIDE DEF from
      <3> QED BY <1>1, <3>1, <3>2 DEF IsPlace
    <2>2. ASSUME NEW v \in Workers \ {w}, NEW k \in DOMAIN todo[v], Covers(todo[v][k], e, p),
                 x = <<"todo", v, k>>
          PROVE  IsPlace(from(x), e, p)
      <3>1. from(x) = x
        BY <2>2
      <3> HIDE DEF from
      <3> QED BY <2>2, <3>1 DEF IsPlace
    <2>3. ASSUME NEW v \in Workers, NEW k \in DOMAIN batch[v], Covers(batch[v][k], e, p),
                 k > 1 \/ pc'[v] \in {"next", "retry"}, x = <<"batch", v, k>>
          PROVE  IsPlace(from(x), e, p)
      <3>1. from(x) = x /\ (k > 1 \/ pc[v] \in {"next", "retry"})
        BY <1>1, <2>3
      <3> HIDE DEF from
      <3> QED BY <2>3, <3>1 DEF IsPlace
    <2>4. CASE x[1] \notin {"batch", "todo"}
      BY <1>1, <1>2, <2>4 DEF IsPlace
    <2> QED BY <1>1, <1>2, <2>1, <2>2, <2>3, <2>4 DEF IsPlace
  <1>3. ASSUME NEW x, NEW y, IsPlace(x, e, p)', IsPlace(y, e, p)', from(x) = from(y)
        PROVE  x = y
    <2>1. Triple(x) /\ Triple(y)
      BY <1>3, PlaceFormNext
    <2>2. x # <<"batch", w, 1>> /\ y # <<"batch", w, 1>>
      BY <1>1, <1>3 DEF IsPlace
    <2>3. ASSUME NEW z, IsPlace(z, e, p)', z[1] = "todo", z[2] = w
          PROVE  \E k \in DOMAIN msgs : Covers(msgs[k], e, p) /\ z = <<"todo", w, k>>
      BY <1>1, <2>3 DEF IsPlace
    <2>4. CASE x[1] = "todo" /\ x[2] = w /\ y[1] = "todo" /\ y[2] = w
      BY <1>3, <2>3, <2>4
    <2>5. CASE ~(x[1] = "todo" /\ x[2] = w) \/ ~(y[1] = "todo" /\ y[2] = w)
      BY <1>3, <2>2, <2>5
    <2> QED BY <2>4, <2>5
  <1>4. \A x, y : IsPlace(x, e, p)' /\ IsPlace(y, e, p)' => x = y
    BY <1>2, <1>3 DEF OneWay
  <1> QED BY <1>1, <1>4 DEF OneWay

\* A page and the cursor after it share nobody: what a Batch message leads to,
\* exactly one message of its expansion leads to, or none.
LEMMA ExpansionOneWay ==
    ASSUME NEW m \in Message, m.type = "Batch",
           NEW S \in SUBSET Inboxes, NEW page \in Pages, IsPage(page, S, m.at),
           NEW e, NEW p \in Users \X Inboxes
    PROVE  /\ \A k \in DOMAIN Expansion(m, page) :
                 Covers(Expansion(m, page)[k], e, p) => Covers(m, e, p)
           /\ \A j, k \in DOMAIN Expansion(m, page) :
                 Covers(Expansion(m, page)[j], e, p) /\ Covers(Expansion(m, page)[k], e, p) => j = k
  <1>1. /\ m.ev \in Events /\ m.author \in Users /\ m.at \in Cursors
    BY MessageFields
  <1>2. /\ page \in Seq(Inboxes) /\ Len(page) \in Nat
        /\ \A j, k \in 1..Len(page) : j < k => page[j] < page[k]
        /\ \A k \in 1..Len(page) : page[k] \in Nat
    <2>1. page \in Seq(Inboxes)
      BY <1>1, PageCursor
    <2>2. \A k \in 1..Len(page) : page[k] \in Inboxes
      BY <2>1, ElementOfSeq
    <2>3. \A j, k \in 1..Len(page) : j < k => page[j] < page[k]
      BY DEF IsPage
    <2>4. \A k \in 1..Len(page) : page[k] \in Nat
      BY <2>2, CursorsAreNumbers
    <2> QED BY <2>1, <2>3, <2>4
  <1>3. p[1] \in Users /\ p[2] \in Nat /\ m.at \in Nat
    BY <1>1, CursorsAreNumbers
  <1> DEFINE P == Posts(m, page)
             N == NextBatch(m, page)
             x == Expansion(m, page)
  <1>4. /\ Len(P) = Len(page) /\ P \in Seq(Message)
        /\ \A k \in 1..Len(page) : P[k] = Post(m.ev, m.author, page[k])
    <2>1. \A k \in 1..Len(page) : Post(m.ev, m.author, page[k]) \in Message
      BY <1>1, <1>2, FreshMessages DEF Cursors
    <2> QED BY <1>2, <2>1 DEF Posts
  <1>5. /\ N \in Seq(Message) /\ Len(N) \in 0..1
        /\ Len(N) = 1 => Len(page) >= 1 /\ N[1] = Batch(m.ev, m.author, page[Len(page)])
    <2>1. CASE IsFull(page)
      <3>1. Len(page) >= 1 /\ page # <<>>
        BY <1>2, <2>1, BatchSizeAssumption DEF IsFull
      <3>2. NextLast(page) = page[Len(page)] /\ NextLast(page) \in Inboxes
        BY <1>2, <3>1 DEF NextLast
      <3>3. Batch(m.ev, m.author, NextLast(page)) \in Message
        BY <1>1, <3>2, FreshMessages DEF Cursors
      <3> QED BY <2>1, <3>1, <3>2, <3>3 DEF NextBatch
    <2>2. CASE ~IsFull(page)
      BY <2>2 DEF NextBatch
    <2> QED BY <2>1, <2>2
  <1>6. x = N \o P
    BY DEF Expansion
  <1> HIDE DEF P, N, x
  <1>7. ASSUME NEW k \in DOMAIN x, Covers(x[k], e, p)
        PROVE  Covers(m, e, p)
    <2>1. /\ x[k].ev = m.ev /\ x[k].author = m.author /\ x[k].at > m.at
          /\ x[k].type = "Batch" \/ x[k].type = "Post"
          /\ x[k] \in Message
      <3>1. x \in Seq(Message) /\ \A j \in DOMAIN x :
              /\ x[j].ev = m.ev /\ x[j].author = m.author /\ x[j].at > m.at
              /\ x[j].type = "Batch" \/ x[j].type = "Post"
        <4>1. /\ Expansion(m, page) \in Seq(Message)
              /\ \A j \in DOMAIN Expansion(m, page) :
                    LET y == Expansion(m, page)[j]
                    IN  /\ y.ev = m.ev /\ y.author = m.author /\ y.tries = 0
                        /\ y.at > m.at
                        /\ y.type = "Batch" \/ (y.type = "Post" /\ y.at \in S)
          BY ExpansionMessages
        <4> QED BY <4>1 DEF x
      <3> QED BY <3>1
    <2>2. x[k].at \in Nat
      BY <2>1, MessageFields, CursorsAreNumbers
    <2>3. m.at < p[2]
      BY <1>3, <1>7, <2>1, <2>2 DEF Covers, Leads
    <2> QED BY <1>7, <2>1, <2>3 DEF Covers, Leads
\* The k-th message is the next Batch, or a Post.
  <1>8. ASSUME NEW k \in DOMAIN x, Covers(x[k], e, p)
        PROVE  \/ Len(N) = 1 /\ k = 1 /\ page[Len(page)] < p[2]
               \/ \E j \in 1..Len(page) : k = j + Len(N) /\ page[j] = p[2]
    <2>1. /\ Len(N) \in Nat /\ Len(P) \in Nat /\ DOMAIN x = 1..(Len(N) + Len(P))
          /\ \A i \in 1..Len(N) : x[i] = N[i]
          /\ \A i \in 1..Len(P) : x[i + Len(N)] = P[i]
      <3>1. N \in Seq(Message) /\ P \in Seq(Message)
        BY <1>4, <1>5
      <3> QED BY <1>6, <3>1
    <2>2. CASE k <= Len(N)
      <3>1. Len(N) = 1 /\ k = 1 /\ x[k] = N[1]
        BY <1>4, <1>5, <1>6, <2>1, <2>2
      <3> QED BY <1>5, <1>8, <3>1 DEF Covers, Leads, Batch
    <2>3. CASE k > Len(N)
      <3>1. PICK j \in 1..Len(page) : k = j + Len(N)
        <4>1. k - Len(N) \in 1..Len(page) /\ k = (k - Len(N)) + Len(N)
          BY <1>4, <2>1, <2>3
        <4> QED BY <4>1
      <3>2. x[k] = Post(m.ev, m.author, page[j])
        BY <1>4, <1>5, <1>6, <2>1, <3>1
      <3> QED BY <1>8, <3>1, <3>2 DEF Covers, Leads, Post
    <2> QED BY <2>1, <2>2, <2>3
  <1>9. ASSUME NEW j \in DOMAIN x, NEW k \in DOMAIN x, Covers(x[j], e, p), Covers(x[k], e, p)
        PROVE  j = k
    <2>1. ASSUME NEW i \in 1..Len(page), page[i] = p[2]
          PROVE  ~(page[Len(page)] < p[2])
      <3>1. CASE i = Len(page)
        BY <1>2, <1>3, <2>1, <3>1
      <3>2. CASE i # Len(page)
        <4>1. i < Len(page) /\ Len(page) \in 1..Len(page)
          BY <1>2, <3>2
        <4>2. page[i] < page[Len(page)] /\ page[i] \in Nat /\ page[Len(page)] \in Nat
          BY <1>2, <4>1
        <4> QED BY <1>3, <2>1, <4>2
      <3> QED BY <3>1, <3>2
    <2>2. ASSUME NEW i \in 1..Len(page), NEW l \in 1..Len(page), page[i] = p[2], page[l] = p[2]
          PROVE  i = l
      BY <1>2, <1>3, <2>2
    <2> QED BY <1>8, <1>9, <2>1, <2>2
  <1> QED BY <1>7, <1>9 DEF x

\* The steps that begin a message of the fan-out.
LEMMA StartOneWay ==
    ASSUME TypeOK, TypeOK', WorkersAligned, NEW w \in Workers,
           \/ ResolveAuthor(w) \/ ForwardDelete(w) \/ ReadPage(w)
           \/ QueryFails(w) \/ AssetFails(w),
           NEW e \in Events, NEW p \in Users \X Inboxes, OneWay(e, p)
    PROVE  OneWay(e, p)'
  <1>1. UNCHANGED <<settled, announced>>
    BY DEF ResolveAuthor, ForwardDelete, ReadPage, QueryFails, AssetFails, history
  <1>2. CASE QueryFails(w) \/ AssetFails(w)
    <2>1. PICK type : Begins(w, type) /\ Enqueues(w, <<>>)
      BY <1>2 DEF QueryFails, AssetFails
    <2>2. <<>> \in Seq(Message) /\ DOMAIN <<>> = {}
      OBVIOUS
    <2> QED BY <1>1, <2>1, <2>2, BeginOneWay
  <1>3. CASE ResolveAuthor(w) \/ ForwardDelete(w)
    <2>1. /\ Begins(w, "ToAll") /\ Current(w).type = "ToAll"
          /\ Current(w) \in Message /\ Current(w).ev \in Events
      BY <1>3, CurrentMessage, MessageFields DEF ResolveAuthor, ForwardDelete, Begins
    <2>2. PICK u \in Users \cup {None} : Enqueues(w, FirstBatch(Current(w).ev, u))
      BY <1>3, <2>1, AuthorTypes DEF ResolveAuthor, ForwardDelete
    <2>3. PICK msgs \in Seq(Message) : msgs = FirstBatch(Current(w).ev, u)
      BY <2>1, FirstBatchMessages
    <2>4. \A k \in DOMAIN msgs : k = 1
      BY <2>3 DEF FirstBatch
    <2>5. \A k \in DOMAIN msgs : msgs[k].ev = Current(w).ev
      BY <2>1, <2>3, FirstBatchMessages
    <2>6. \A k \in DOMAIN msgs : Covers(msgs[k], e, p) => Covers(Current(w), e, p)
      BY <2>1, <2>5 DEF Covers, Leads
    <2> QED BY <1>1, <2>1, <2>2, <2>3, <2>4, <2>6, BeginOneWay
  <1>4. CASE ReadPage(w)
    <2>1. /\ Begins(w, "Batch") /\ Current(w).type = "Batch" /\ Current(w) \in Message
      BY <1>4, CurrentMessage DEF ReadPage, Begins
    <2>2. PICK page \in Pages :
             /\ IsPage(page, InboxesIn(followers, Current(w).author), Current(w).at)
             /\ Enqueues(w, Expansion(Current(w), page))
      BY <1>4 DEF ReadPage
    <2>3. PICK S \in SUBSET Inboxes : S = InboxesIn(followers, Current(w).author)
      BY InboxesInType
    <2>4. PICK msgs \in Seq(Message) : msgs = Expansion(Current(w), page)
      BY <2>1, <2>2, <2>3, ExpansionMessages
    <2>5. /\ \A k \in DOMAIN msgs : Covers(msgs[k], e, p) => Covers(Current(w), e, p)
          /\ \A j, k \in DOMAIN msgs : Covers(msgs[j], e, p) /\ Covers(msgs[k], e, p) => j = k
      <3>1. PICK m \in Message : m = Current(w)
        BY <2>1
      <3>2. m.type = "Batch" /\ IsPage(page, S, m.at) /\ msgs = Expansion(m, page)
        BY <2>1, <2>2, <2>3, <2>4, <3>1
      <3>3. /\ \A k \in DOMAIN Expansion(m, page) :
                  Covers(Expansion(m, page)[k], e, p) => Covers(m, e, p)
            /\ \A j, k \in DOMAIN Expansion(m, page) :
                  Covers(Expansion(m, page)[j], e, p) /\ Covers(Expansion(m, page)[k], e, p)
                    => j = k
        BY <3>2, ExpansionOneWay
      <3> QED BY <3>1, <3>2, <3>3
    <2> QED BY <1>1, <2>1, <2>2, <2>4, <2>5, BeginOneWay
  <1> QED BY <1>2, <1>3, <1>4

\* The final answer takes the place of the Post that got it.
LEMMA SendOneWay ==
    ASSUME TypeOK, NEW w \in Workers, SendPost(w),
           NEW e \in Events, NEW p \in Users \X Inboxes, OneWay(e, p)
    PROVE  OneWay(e, p)'
  <1>1. PICK m \in Message : m = Current(w) /\ batch[w][1] = m /\ 1 \in DOMAIN batch[w]
    BY CurrentMessage DEF SendPost, Begins
  <1>2. /\ pc[w] = "next" /\ m.type = "Post"
        /\ \A v \in Workers \ {w} : pc'[v] = pc[v]
        /\ UNCHANGED <<queue, batch, todo, announced>>
        /\ \/ /\ pc'[w] = "finished"
              /\ settled' = [settled EXCEPT ![m.ev] = @ \cup {Recipient(m)}]
           \/ pc'[w] = "retry" /\ UNCHANGED settled
    BY <1>1 DEF SendPost, Begins, TypeOK
  <1>3. ASSUME NEW x, IsPlace(x, e, p)', x # <<"settled", 0, 0>>
        PROVE  IsPlace(x, e, p)
    BY <1>2, <1>3 DEF IsPlace
  <1>4. CASE p \in settled'[e] /\ p \notin settled[e]
    <2>1. pc'[w] = "finished" /\ m.ev = e /\ Recipient(m) = p
      BY <1>2, <1>4 DEF TypeOK
    <2>2. Covers(m, e, p)
      BY <1>2, <2>1 DEF Covers, Leads, Recipient
    <2>3. IsPlace(<<"batch", w, 1>>, e, p)
      BY <1>1, <1>2, <2>2 DEF IsPlace
    <2>4. ~IsPlace(<<"batch", w, 1>>, e, p)'
      BY <2>1 DEF IsPlace
    <2>5. \A x : IsPlace(x, e, p)' => x = <<"settled", 0, 0>>
      BY <1>3, <2>3, <2>4 DEF OneWay
    <2> QED BY <1>2, <2>5 DEF OneWay
  <1>5. CASE ~(p \in settled'[e] /\ p \notin settled[e])
    <2>1. \A x : IsPlace(x, e, p)' => IsPlace(x, e, p)
      <3> SUFFICES ASSUME NEW x, IsPlace(x, e, p)', x = <<"settled", 0, 0>>
                   PROVE  IsPlace(x, e, p)
        BY <1>3
      <3>1. p \in settled'[e]
        BY DEF IsPlace
      <3> QED BY <1>5, <3>1 DEF IsPlace
    <2> QED BY <1>2, <2>1, NoNewPlace
  <1> QED BY <1>4, <1>5

\* A consumer that is done with a message leaves its place, if the queue does not
\* get it back.
LEMMA DropHeadOneWay ==
    ASSUME TypeOK, TypeOK', NEW w \in Workers, batch[w] # <<>>,
           batch' = [batch EXCEPT ![w] = Tail(@)], pc' = [pc EXCEPT ![w] = "next"],
           UNCHANGED <<todo, settled, announced>>,
           NEW e \in Events, NEW p \in Users \X Inboxes, OneWay(e, p),
           \A m \in Message : Covers(m, e, p) => queue'[m] = queue[m]
    PROVE  OneWay(e, p)'
  <1>1. /\ batch'[w] = Tail(batch[w])
        /\ \A v \in Workers \ {w} : batch'[v] = batch[v] /\ pc'[v] = pc[v]
        /\ \A k \in DOMAIN batch'[w] :
              k \in Nat /\ k >= 1 /\ k + 1 \in DOMAIN batch[w] /\ batch'[w][k] = batch[w][k + 1]
    <2>1. /\ batch'[w] = Tail(batch[w])
          /\ \A v \in Workers \ {w} : batch'[v] = batch[v]
      BY DEF TypeOK
    <2>2. \A v \in Workers \ {w} : pc'[v] = pc[v]
      BY DEF TypeOK
    <2>3. /\ Tail(batch[w]) \in Seq(Message)
          /\ \A k \in DOMAIN Tail(batch[w]) :
                k + 1 \in DOMAIN batch[w] /\ Tail(batch[w])[k] = batch[w][k + 1]
      BY CurrentMessage
    <2>4. \A k \in DOMAIN Tail(batch[w]) : k \in Nat /\ k >= 1
      BY <2>3
    <2> QED BY <2>1, <2>2, <2>3, <2>4
  <1> DEFINE from(x) == IF x[1] = "batch" /\ x[2] = w THEN <<"batch", w, x[3] + 1>> ELSE x
  <1>2. ASSUME NEW x, IsPlace(x, e, p)'
        PROVE  IsPlace(from(x), e, p)
    <2>1. ASSUME NEW v \in Workers, NEW k \in DOMAIN batch'[v], Covers(batch'[v][k], e, p),
                 k > 1 \/ pc'[v] \in {"next", "retry"}, x = <<"batch", v, k>>
          PROVE  IsPlace(from(x), e, p)
      <3>1. CASE v = w
        <4>1. /\ from(x) = <<"batch", w, k + 1>> /\ k + 1 \in DOMAIN batch[w] /\ k + 1 > 1
              /\ Covers(batch[w][k + 1], e, p)
          BY <1>1, <2>1, <3>1
        <4> HIDE DEF from
        <4> QED BY <4>1 DEF IsPlace
      <3>2. CASE v # w
        <4>1. /\ from(x) = x /\ k \in DOMAIN batch[v] /\ Covers(batch[v][k], e, p)
              /\ (k > 1 \/ pc[v] \in {"next", "retry"})
          BY <1>1, <2>1, <3>2
        <4> HIDE DEF from
        <4> QED BY <2>1, <4>1 DEF IsPlace
      <3> QED BY <3>1, <3>2
    <2>2. CASE x[1] # "batch"
      <3>1. from(x) = x
        BY <2>2
      <3> HIDE DEF from
      <3>2. IsPlace(x, e, p)
        BY <1>2, <2>2 DEF IsPlace
      <3> QED BY <3>1, <3>2
    <2> QED BY <1>2, <2>1, <2>2 DEF IsPlace
  <1>3. ASSUME NEW x, NEW y, IsPlace(x, e, p)', IsPlace(y, e, p)', from(x) = from(y)
        PROVE  x = y
    <2>1. Triple(x) /\ Triple(y)
      BY <1>3, PlaceFormNext
    <2>2. ASSUME NEW z, IsPlace(z, e, p)', z[1] = "batch", z[2] = w
          PROVE  IsPlace(<<"batch", w, z[3] + 1>>, e, p)
      BY <1>2, <2>2
    <2> QED BY <1>3, <2>1, <2>2 DEF Triple
  <1>4. \A x, y : IsPlace(x, e, p)' /\ IsPlace(y, e, p)' => x = y
    <2> HIDE DEF from
    <2> QED BY <1>2, <1>3 DEF OneWay
  <1> QED BY <1>4 DEF OneWay

\* A message that was not enqueued frees its place.
LEMMA EnqueueFailsOneWay ==
    ASSUME TypeOK, TypeOK', NEW w \in Workers, EnqueueFails(w),
           NEW e \in Events, NEW p \in Users \X Inboxes, OneWay(e, p)
    PROVE  OneWay(e, p)'
  <1>1. /\ todo'[w] = Tail(todo[w])
        /\ \A v \in Workers \ {w} : todo'[v] = todo[v]
        /\ \A k \in DOMAIN todo'[w] :
              k \in Nat /\ k >= 1 /\ k + 1 \in DOMAIN todo[w] /\ todo'[w][k] = todo[w][k + 1]
        /\ UNCHANGED <<queue, batch, pc, settled, announced>>
    <2>1. /\ todo' = [todo EXCEPT ![w] = Tail(@)] /\ todo[w] # <<>>
          /\ UNCHANGED <<queue, batch, pc, settled, announced>>
      BY DEF EnqueueFails
    <2>2. /\ \A v \in Workers \ {w} : todo'[v] = todo[v]
          /\ todo'[w] = Tail(todo[w])
      BY <2>1 DEF TypeOK
    <2>3. /\ Tail(todo[w]) \in Seq(Message)
          /\ \A k \in DOMAIN Tail(todo[w]) :
                k + 1 \in DOMAIN todo[w] /\ Tail(todo[w])[k] = todo[w][k + 1]
      BY <2>1, TodoHead
    <2>4. \A k \in DOMAIN Tail(todo[w]) : k \in Nat /\ k >= 1
      BY <2>3
    <2> QED BY <2>1, <2>2, <2>3, <2>4
  <1> DEFINE from(x) == IF x[1] = "todo" /\ x[2] = w THEN <<"todo", w, x[3] + 1>> ELSE x
  <1>2. ASSUME NEW x, IsPlace(x, e, p)'
        PROVE  IsPlace(from(x), e, p)
    <2>1. ASSUME NEW v \in Workers, NEW k \in DOMAIN todo'[v], Covers(todo'[v][k], e, p),
                 x = <<"todo", v, k>>
          PROVE  IsPlace(from(x), e, p)
      <3>1. CASE v = w
        <4>1. /\ from(x) = <<"todo", w, k + 1>> /\ k + 1 \in DOMAIN todo[w]
              /\ Covers(todo[w][k + 1], e, p)
          BY <1>1, <2>1, <3>1
        <4> HIDE DEF from
        <4> QED BY <4>1 DEF IsPlace
      <3>2. CASE v # w
        <4>1. from(x) = x /\ k \in DOMAIN todo[v] /\ Covers(todo[v][k], e, p)
          BY <1>1, <2>1, <3>2
        <4> HIDE DEF from
        <4> QED BY <2>1, <4>1 DEF IsPlace
      <3> QED BY <3>1, <3>2
    <2>2. CASE x[1] # "todo"
      <3>1. from(x) = x
        BY <2>2
      <3> HIDE DEF from
      <3>2. IsPlace(x, e, p)
        BY <1>1, <1>2, <2>2 DEF IsPlace
      <3> QED BY <3>1, <3>2
    <2> QED BY <1>2, <2>1, <2>2 DEF IsPlace
  <1>3. ASSUME NEW x, NEW y, IsPlace(x, e, p)', IsPlace(y, e, p)', from(x) = from(y)
        PROVE  x = y
    <2>1. Triple(x) /\ Triple(y)
      BY <1>3, PlaceFormNext
    <2> QED BY <1>3, <2>1 DEF Triple
  <1>4. \A x, y : IsPlace(x, e, p)' /\ IsPlace(y, e, p)' => x = y
    <2> HIDE DEF from
    <2> QED BY <1>2, <1>3 DEF OneWay
  <1> QED BY <1>1, <1>4 DEF OneWay

\* Copies counts more than one where a message occurs twice.
LEMMA CopiesOfOne ==
    ASSUME NEW s \in Seq(Message), NEW m, Copies(s, m) <= 1,
           NEW j \in DOMAIN s, NEW k \in DOMAIN s, s[j] = m, s[k] = m
    PROVE  j = k
  <1> DEFINE K == {i \in DOMAIN s : s[i] = m}
  <1>1. IsFiniteSet(K)
    <2>1. DOMAIN s = 1..Len(s) /\ Len(s) \in Nat
      OBVIOUS
    <2>2. IsFiniteSet(1..Len(s))
      BY <2>1, FS_Interval
    <2> QED BY <2>1, <2>2, FS_Subset
  <1>2. j \in K /\ k \in K
    OBVIOUS
  <1>3. Cardinality(K) <= 1
    BY DEF Copies
  <1> HIDE DEF K
  <1>4. IsFiniteSet(K \ {j}) /\ Cardinality(K \ {j}) = Cardinality(K) - 1
    BY <1>1, <1>2, FS_RemoveElement
  <1>5. Cardinality(K) \in Nat /\ Cardinality(K \ {j}) \in Nat
    BY <1>1, <1>4, FS_CardinalityType
  <1>6. Cardinality(K \ {j}) = 0
    BY <1>3, <1>4, <1>5
  <1>7. K \ {j} = {}
    BY <1>4, <1>6, FS_EmptySet
  <1> QED BY <1>2, <1>7

\* A batch takes its messages from the queue.
LEMMA ReceiveOneWay ==
    ASSUME TypeOK, WorkersAligned, NEW w \in Workers, ReceiveBatch(w),
           NEW e \in Events, NEW p \in Users \X Inboxes, OneWay(e, p)
    PROVE  OneWay(e, p)'
  <1>1. PICK n \in 1..MaxBatch : \E b \in [1..n -> Queued] :
          /\ \A k \in 1..n : Copies(b, b[k]) <= queue[b[k]]
          /\ queue' = [m \in Message |-> queue[m] - Copies(b, m)]
          /\ batch' = [batch EXCEPT ![w] = b]
    BY DEF ReceiveBatch
  <1>2. PICK b \in [1..n -> Queued] :
          /\ \A k \in 1..n : Copies(b, b[k]) <= queue[b[k]]
          /\ queue' = [m \in Message |-> queue[m] - Copies(b, m)]
          /\ batch' = [batch EXCEPT ![w] = b]
    BY <1>1
  <1>3. b \in Seq(Message) /\ DOMAIN b = 1..n
    BY MaxBatchAssumption DEF Queued
  <1>4. /\ batch'[w] = b
        /\ \A v \in Workers \ {w} : batch'[v] = batch[v]
        /\ batch[w] = <<>> /\ pc[w] = "next"
        /\ UNCHANGED <<todo, pc, settled, announced>>
    BY <1>2 DEF ReceiveBatch, TypeOK, WorkersAligned, history
  <1>5. \A m \in Message : /\ Copies(b, m) \in Nat /\ queue[m] \in Nat
                           /\ queue'[m] = queue[m] - Copies(b, m)
                           /\ Copies(b, m) > 0 <=> \E k \in DOMAIN b : b[k] = m
    BY <1>2, <1>3, CopiesCount DEF TypeOK
  <1>6. \A k \in DOMAIN b : b[k] \in Message /\ queue[b[k]] > 0 /\ Copies(b, b[k]) <= queue[b[k]]
    BY <1>2, <1>3 DEF Queued
\* The places in the batch are all that is new.
  <1>7. ASSUME NEW x, IsPlace(x, e, p)', ~IsPlace(x, e, p)
        PROVE  \E k \in DOMAIN b : Covers(b[k], e, p) /\ x = <<"batch", w, k>>
    <2>1. ASSUME NEW v \in Workers, NEW k \in DOMAIN batch'[v], Covers(batch'[v][k], e, p),
                 k > 1 \/ pc'[v] \in {"next", "retry"}, x = <<"batch", v, k>>
          PROVE  v = w
      BY <1>4, <1>7, <2>1 DEF IsPlace
    <2>2. ASSUME NEW m \in Message, queue'[m] > 0, Covers(m, e, p), x = <<"queue", m, 0>>
          PROVE  FALSE
      <3>1. queue[m] > 0
        BY <1>5, <2>2
      <3> QED BY <1>7, <2>2, <3>1 DEF IsPlace
    <2>3. \E v \in Workers : \E k \in DOMAIN batch'[v] :
             /\ Covers(batch'[v][k], e, p) /\ (k > 1 \/ pc'[v] \in {"next", "retry"})
             /\ x = <<"batch", v, k>>
      BY <1>4, <1>7, <2>2 DEF IsPlace
    <2> QED BY <1>4, <2>1, <2>3
  <1>8. CASE \A k \in DOMAIN b : ~Covers(b[k], e, p)
    <2>1. \A x : IsPlace(x, e, p)' => IsPlace(x, e, p)
      BY <1>7, <1>8
    <2>2. \A m \in Message : Covers(m, e, p) => queue'[m] = queue[m]
      BY <1>5, <1>8
    <2> QED BY <2>1, <2>2, NoNewPlace
  <1>9. ASSUME NEW k \in DOMAIN b, Covers(b[k], e, p)
        PROVE  OneWay(e, p)'
    <2>1. ASSUME NEW j \in DOMAIN b, Covers(b[j], e, p)
          PROVE  IsPlace(<<"queue", b[j], 0>>, e, p)
      BY <1>6, <2>1 DEF IsPlace
    <2>2. ASSUME NEW j \in DOMAIN b, Covers(b[j], e, p)
          PROVE  j = k
      <3>1. <<"queue", b[j], 0>> = <<"queue", b[k], 0>>
        BY <1>9, <2>1, <2>2 DEF OneWay
      <3>2. b[j] = b[k]
        BY <3>1
      <3>3. Copies(b, b[k]) <= 1
        BY <1>5, <1>6, <1>9 DEF OneWay
      <3> QED BY <1>3, <3>2, <3>3, CopiesOfOne
    <2>3. ASSUME NEW x, IsPlace(x, e, p)'
          PROVE  x = <<"batch", w, k>>
      <3>1. ASSUME IsPlace(x, e, p) PROVE FALSE
        <4>1. x = <<"queue", b[k], 0>>
          BY <1>9, <2>1, <3>1 DEF OneWay
        <4>2. queue'[b[k]] > 0
          BY <2>3, <4>1 DEF IsPlace
        <4>3. queue[b[k]] <= 1 /\ Copies(b, b[k]) > 0
          BY <1>5, <1>6, <1>9 DEF OneWay
        <4> QED BY <1>5, <1>6, <4>2, <4>3
      <3>2. PICK j \in DOMAIN b : Covers(b[j], e, p) /\ x = <<"batch", w, j>>
        BY <1>7, <2>3, <3>1
      <3> QED BY <2>2, <3>2
    <2>4. \A m \in Message : Covers(m, e, p) => queue'[m] <= 1
      BY <1>5 DEF OneWay
    <2> QED BY <2>3, <2>4 DEF OneWay
  <1> QED BY <1>8, <1>9

\* Requeueing leaves the copies of a message alone that nothing put back turns
\* into, and adds one if only one thing does.
LEMMA RequeuedCount ==
    ASSUME TypeOK, NEW s \in Seq(Message), NEW m \in Message, NEW i,
           \A k \in DOMAIN s : CanRedeliver(s[k]) /\ Redelivered(s[k]) = m => k = i
    PROVE  /\ Requeued(s)[m] <= queue[m] + 1
           /\ (\A k \in DOMAIN s : CanRedeliver(s[k]) => Redelivered(s[k]) # m)
                => Requeued(s)[m] = queue[m]
  <1> DEFINE K == {k \in DOMAIN s : CanRedeliver(s[k]) /\ Redelivered(s[k]) = m}
  <1>1. K = {} \/ K = {i}
    OBVIOUS
  <1>2. Cardinality(K) = 0 \/ Cardinality(K) = 1
    BY <1>1, FS_EmptySet, FS_Singleton
  <1>3. Requeued(s)[m] = queue[m] + Cardinality(K) /\ queue[m] \in Nat
    BY DEF Requeued, TypeOK
  <1>4. Requeued(s)[m] <= queue[m] + 1
    BY <1>2, <1>3
  <1>5. ASSUME \A k \in DOMAIN s : CanRedeliver(s[k]) => Redelivered(s[k]) # m
        PROVE  Requeued(s)[m] = queue[m]
    <2>1. K = {}
      BY <1>5
    <2>2. Cardinality(K) = 0
      BY <2>1, FS_EmptySet
    <2> QED BY <1>3, <2>2
  <1> QED BY <1>4, <1>5

\* Redelivery does not change what a message covers.
LEMMA RedeliveredCovers ==
    ASSUME NEW m \in Message, CanRedeliver(m), NEW e, NEW p
    PROVE  Covers(Redelivered(m), e, p) <=> Covers(m, e, p)
  BY RedeliveredMessage DEF Covers, Leads

\* Putting back what covers nothing of the recipient does not matter.
LEMMA PutBackOthers ==
    ASSUME TypeOK, NEW s \in Seq(Message), queue' = Requeued(s), NEW e, NEW p,
           \A k \in DOMAIN s : ~Covers(s[k], e, p)
    PROVE  \A m \in Message : Covers(m, e, p) => queue'[m] = queue[m]
  <1> SUFFICES ASSUME NEW m \in Message, Covers(m, e, p) PROVE queue'[m] = queue[m]
    OBVIOUS
  <1>1. \A k \in DOMAIN s : CanRedeliver(s[k]) => Redelivered(s[k]) # m
    <2> SUFFICES ASSUME NEW k \in DOMAIN s, CanRedeliver(s[k]), Redelivered(s[k]) = m
                 PROVE  FALSE
      OBVIOUS
    <2>1. s[k] \in Message /\ ~Covers(s[k], e, p)
      OBVIOUS
    <2> QED BY <2>1, RedeliveredCovers
  <1> QED BY <1>1, RequeuedCount

\* A message that is put back takes its own place, if nothing else that is put
\* back goes to the recipient.
LEMMA PutBackOneWay ==
    ASSUME TypeOK, NEW w \in Workers, NEW s \in Seq(Message), queue' = Requeued(s),
           NEW e \in Events, NEW p \in Users \X Inboxes, OneWay(e, p),
           NEW i \in DOMAIN s, IsPlace(<<"batch", w, i>>, e, p),
           \A k \in DOMAIN s : Covers(s[k], e, p) => k = i,
           \A x : IsPlace(x, e, p)' => x[1] = "queue"
    PROVE  OneWay(e, p)'
  <1>1. \A m \in Message : Covers(m, e, p) => queue[m] = 0
    <2> SUFFICES ASSUME NEW m \in Message, Covers(m, e, p), queue[m] > 0 PROVE FALSE
      BY DEF TypeOK
    <2>1. IsPlace(<<"queue", m, 0>>, e, p)
      BY DEF IsPlace
    <2> QED BY <2>1 DEF OneWay
  <1>2. ASSUME NEW m \in Message, Covers(m, e, p)
        PROVE  /\ queue'[m] <= 1
               /\ queue'[m] > 0 => m = Redelivered(s[i])
    <2>1. ASSUME NEW k \in DOMAIN s, CanRedeliver(s[k]), Redelivered(s[k]) = m
          PROVE  k = i
      <3>1. s[k] \in Message
        OBVIOUS
      <3>2. Covers(s[k], e, p)
        BY <1>2, <2>1, <3>1, RedeliveredCovers
      <3> QED BY <3>2
    <2>2. /\ Requeued(s)[m] <= queue[m] + 1
          /\ (\A k \in DOMAIN s : CanRedeliver(s[k]) => Redelivered(s[k]) # m)
               => Requeued(s)[m] = queue[m]
      BY <2>1, RequeuedCount
    <2>3. queue[m] = 0
      BY <1>1, <1>2
    <2>4. queue'[m] <= 1
      BY <2>2, <2>3
    <2>5. m # Redelivered(s[i]) => queue'[m] = 0
      BY <2>1, <2>2, <2>3
    <2> QED BY <2>4, <2>5
  <1>3. ASSUME NEW x, IsPlace(x, e, p)'
        PROVE  x = <<"queue", Redelivered(s[i]), 0>>
    <2>1. x[1] = "queue"
      BY <1>3
    <2>2. PICK m \in Message : queue'[m] > 0 /\ Covers(m, e, p) /\ x = <<"queue", m, 0>>
      BY <1>3, <2>1 DEF IsPlace
    <2> QED BY <1>2, <2>2
  <1> QED BY <1>2, <1>3 DEF OneWay

\* A message to be retried goes back to the queue, or is gone.
LEMMA RetryOneWay ==
    ASSUME TypeOK, TypeOK', WorkersAligned, NEW w \in Workers, Retry(w),
           NEW e \in Events, NEW p \in Users \X Inboxes, OneWay(e, p)
    PROVE  OneWay(e, p)'
  <1>1. /\ pc[w] = "retry" /\ batch[w] # <<>>
        /\ batch' = [batch EXCEPT ![w] = Tail(@)] /\ pc' = [pc EXCEPT ![w] = "next"]
        /\ UNCHANGED <<todo, settled, announced>>
    BY DEF Retry, WorkersAligned
  <1>2. PICK m \in Message : m = Current(w) /\ 1 \in DOMAIN batch[w] /\ batch[w][1] = m
    BY <1>1, CurrentMessage
  <1>3. PICK s \in Seq(Message) : s = <<m>> /\ s[1] = m /\ \A k \in DOMAIN s : k = 1
    <2>1. <<m>> \in Seq(Message) /\ <<m>>[1] = m /\ \A k \in DOMAIN <<m>> : k = 1
      OBVIOUS
    <2> QED BY <2>1
  <1>4. queue' = Requeued(s)
    BY <1>2, <1>3 DEF Retry
  <1>5. CASE ~Covers(m, e, p)
    <2>1. \A q \in Message : Covers(q, e, p) => queue'[q] = queue[q]
      BY <1>3, <1>4, <1>5, PutBackOthers
    <2> QED BY <1>1, <2>1, DropHeadOneWay
  <1>6. CASE Covers(m, e, p)
    <2>1. IsPlace(<<"batch", w, 1>>, e, p)
      BY <1>1, <1>2, <1>6 DEF IsPlace
    <2>2. ASSUME NEW x, IsPlace(x, e, p)', x[1] # "queue"
          PROVE  FALSE
      <3>1. \A y : IsPlace(y, e, p) => y = <<"batch", w, 1>>
        BY <2>1 DEF OneWay
      <3>2. ASSUME NEW v \in Workers, NEW k \in DOMAIN batch'[v], Covers(batch'[v][k], e, p),
                   k > 1 \/ pc'[v] \in {"next", "retry"}, x = <<"batch", v, k>>
            PROVE  FALSE
        <4>1. CASE v = w
          <5>1. /\ k \in Nat /\ k >= 1 /\ k + 1 \in DOMAIN batch[w] /\ Covers(batch[w][k + 1], e, p)
            <6>1. batch'[w] = Tail(batch[w])
              BY <1>1 DEF TypeOK
            <6>2. k \in DOMAIN Tail(batch[w]) /\ Covers(Tail(batch[w])[k], e, p)
              BY <3>2, <4>1, <6>1
            <6>3. k + 1 \in DOMAIN batch[w] /\ Covers(batch[w][k + 1], e, p)
              BY <1>1, <6>2, CurrentMessage
            <6>4. Tail(batch[w]) \in Seq(Message)
              BY <1>1, CurrentMessage
            <6>5. k \in Nat /\ k >= 1
              BY <6>2, <6>4
            <6> QED BY <6>3, <6>5
          <5>2. k + 1 > 1
            BY <5>1
          <5>3. IsPlace(<<"batch", w, k + 1>>, e, p)
            BY <5>1, <5>2 DEF IsPlace
          <5>4. <<"batch", w, k + 1>> = <<"batch", w, 1>>
            BY <3>1, <5>3
          <5> QED BY <5>1, <5>4
        <4>2. CASE v # w
          <5>1. IsPlace(<<"batch", v, k>>, e, p)
            BY <1>1, <3>2, <4>2 DEF IsPlace, TypeOK
          <5> QED BY <3>1, <4>2, <5>1
        <4> QED BY <4>1, <4>2
      <3>3. CASE x[1] # "batch"
        <4>1. IsPlace(x, e, p)
          BY <1>1, <2>2, <3>3 DEF IsPlace
        <4> QED BY <3>1, <3>3, <4>1
      <3> QED BY <2>2, <3>2, <3>3 DEF IsPlace
    <2>3. 1 \in DOMAIN s
      BY <1>3
    <2> QED BY <1>3, <1>4, <2>1, <2>2, <2>3, PutBackOneWay
  <1> QED BY <1>5, <1>6

\* So does every message of an invocation that died, unless it had begun one that
\* goes to the recipient.
LEMMA CrashOneWay ==
    ASSUME TypeOK, NEW w \in Workers, Crash(w),
           NEW e \in Events, e \notin repeated', NEW p \in Users \X Inboxes, OneWay(e, p)
    PROVE  OneWay(e, p)'
  <1>1. PICK s \in Seq(Message) : s = batch[w]
    BY DEF TypeOK
  <1>2. /\ queue' = Requeued(s)
        /\ batch'[w] = <<>> /\ todo'[w] = <<>>
        /\ \A v \in Workers \ {w} : batch'[v] = batch[v] /\ todo'[v] = todo[v] /\ pc'[v] = pc[v]
        /\ UNCHANGED <<settled, announced>>
    BY <1>1 DEF Crash, TypeOK
  <1>3. ASSUME NEW x, IsPlace(x, e, p)', x[1] # "queue"
        PROVE  IsPlace(x, e, p) /\ ~(x[1] = "batch" /\ x[2] = w)
    BY <1>2, <1>3 DEF IsPlace
  <1>4. ASSUME NEW k \in DOMAIN s, Covers(s[k], e, p)
        PROVE  IsPlace(<<"batch", w, k>>, e, p)
    <2>1. CASE k = 1
      <3>1. Current(w).ev = e
        BY <1>1, <1>4, <2>1, CurrentMessage DEF Covers, Crash
      <3>2. pc[w] = "next"
        BY <3>1 DEF Crash
      <3> QED BY <1>1, <1>4, <3>2 DEF IsPlace
    <2>2. CASE k # 1
      <3>1. k \in Nat /\ k > 1
        BY <2>2
      <3> QED BY <1>1, <1>4, <3>1 DEF IsPlace
    <2> QED BY <2>1, <2>2
  <1>5. CASE \A k \in DOMAIN s : ~Covers(s[k], e, p)
    <2>1. \A m \in Message : Covers(m, e, p) => queue'[m] = queue[m]
      BY <1>2, <1>5, PutBackOthers
    <2>2. ASSUME NEW x, IsPlace(x, e, p)', x[1] = "queue"
          PROVE  IsPlace(x, e, p)
      BY <2>1, <2>2 DEF IsPlace
    <2> QED BY <1>3, <2>1, <2>2, NoNewPlace
  <1>6. ASSUME NEW i \in DOMAIN s, Covers(s[i], e, p)
        PROVE  OneWay(e, p)'
    <2>1. IsPlace(<<"batch", w, i>>, e, p)
      BY <1>4, <1>6
    <2>2. \A x : IsPlace(x, e, p)' => x[1] = "queue"
      BY <1>3, <2>1 DEF OneWay
    <2>3. ASSUME NEW k \in DOMAIN s, Covers(s[k], e, p)
          PROVE  k = i
      <3>1. <<"batch", w, k>> = <<"batch", w, i>>
        BY <1>4, <2>1, <2>3 DEF OneWay
      <3> QED BY <3>1
    <2> QED BY <1>2, <1>6, <2>1, <2>2, <2>3, PutBackOneWay
  <1> QED BY <1>5, <1>6

LEMMA NextOneWay ==
    ASSUME TypeOK, TypeOK', WorkersAligned, [Next]_vars, OneWayEach
    PROVE  OneWayEach'
  <1> SUFFICES ASSUME NEW e \in Events, e \notin repeated', NEW p \in Users \X Inboxes
               PROVE  OneWay(e, p)'
    BY DEF OneWayEach
  <1>1. e \notin repeated
    BY EnvironmentFrame DEF Next, WorkerStep, Failure, ReceiveBatch, ResolveAuthor, ForwardDelete,
       ReadPage, EnqueueNext, SendPost, Ack, Retry, EnqueueFails, QueryFails, AssetFails, Crash,
       history, vars
  <1>2. OneWay(e, p)
    BY <1>1 DEF OneWayEach
  <1>3. CASE Environment
    BY <1>2, <1>3, EnvironmentOneWay
  <1>4. CASE UNCHANGED vars
    <2>1. UNCHANGED <<queue, batch, todo, pc, settled, announced>>
      BY <1>4 DEF vars, consumer, history
    <2>2. \A x : IsPlace(x, e, p)' => IsPlace(x, e, p)
      BY <2>1 DEF IsPlace
    <2> QED BY <1>2, <2>1, <2>2, NoNewPlace
  <1>5. ASSUME NEW w \in Workers, WorkerStep(w) \/ Failure(w)
        PROVE  OneWay(e, p)'
    <2>1. CASE ReceiveBatch(w)
      BY <1>2, <2>1, ReceiveOneWay
    <2>2. CASE \/ ResolveAuthor(w) \/ ForwardDelete(w) \/ ReadPage(w)
               \/ QueryFails(w) \/ AssetFails(w)
      BY <1>2, <2>2, StartOneWay
    <2>3. CASE EnqueueNext(w)
      BY <1>2, <2>3, EnqueueNextOneWay
    <2>4. CASE SendPost(w)
      BY <1>2, <2>4, SendOneWay
    <2>5. CASE Ack(w)
      <3>1. /\ batch[w] # <<>>
            /\ batch' = [batch EXCEPT ![w] = Tail(@)] /\ pc' = [pc EXCEPT ![w] = "next"]
            /\ UNCHANGED <<queue, todo, settled, announced>>
        BY <2>5 DEF Ack, WorkersAligned, history
      <3> QED BY <1>2, <3>1, DropHeadOneWay
    <2>6. CASE Retry(w)
      BY <1>2, <2>6, RetryOneWay
    <2>7. CASE EnqueueFails(w)
      BY <1>2, <2>7, EnqueueFailsOneWay
    <2>8. CASE Crash(w)
      BY <1>2, <2>8, CrashOneWay
    <2> QED BY <1>5, <2>1, <2>2, <2>3, <2>4, <2>5, <2>6, <2>7, <2>8 DEF WorkerStep, Failure
  <1> QED BY <1>3, <1>4, <1>5 DEF Next

LEMMA InitOneWay == Init => OneWayEach
  <1> SUFFICES ASSUME Init, NEW e \in Events, NEW p \in Users \X Inboxes
               PROVE  OneWay(e, p)
    BY DEF OneWayEach
  <1>1. /\ \A m \in Message : queue[m] = 0
        /\ \A w \in Workers : DOMAIN batch[w] = {} /\ DOMAIN todo[w] = {}
        /\ settled[e] = {}
    <2>1. DOMAIN <<>> = {}
      OBVIOUS
    <2> QED BY <2>1 DEF Init
  <1>2. \A x : IsPlace(x, e, p) => x = <<"new", 0, 0>>
    BY <1>1 DEF IsPlace
  <1> QED BY <1>1, <1>2 DEF OneWay

\* Whoever answered for good is not sent the event again: the Post a consumer
\* takes up is a place, and the answer would be another.
LEMMA StepNoPostAgain ==
    ASSUME TypeOK, WorkersAligned, OneWayEach, Next
    PROVE  \A w \in Workers :
              /\ pc[w] = "next" /\ pc'[w] \in {"finished", "retry"}
              /\ Current(w).ev \notin repeated
              => Recipient(Current(w)) \notin settled[Current(w).ev]
  <1> SUFFICES ASSUME NEW w \in Workers, pc[w] = "next", pc'[w] \in {"finished", "retry"},
                      Current(w).ev \notin repeated,
                      Recipient(Current(w)) \in settled[Current(w).ev]
               PROVE  FALSE
    OBVIOUS
  <1>1. SendPost(w)
    <2>1. PICK v \in Workers : WorkerStep(v) \/ Failure(v)
      BY EnvironmentFrame DEF Next
    <2>2. v = w
      BY <2>1, OtherWorkers
    <2>3. ASSUME pc'[w] = "next" \/ pc'[w] = "enqueue" \/ pc' = pc PROVE FALSE
      BY <2>3
    <2> QED BY <2>1, <2>2, <2>3 DEF WorkerStep, Failure, ReceiveBatch, ResolveAuthor,
          ForwardDelete, ReadPage, EnqueueNext, Ack, Retry, EnqueueFails, QueryFails, AssetFails,
          Crash, Enqueues, TypeOK
  <1>2. PICK m \in Message : m = Current(w) /\ 1 \in DOMAIN batch[w] /\ batch[w][1] = m
    BY <1>1, CurrentMessage DEF SendPost, Begins
  <1>3. /\ m.type = "Post" /\ m.ev \in Events /\ m.ev \notin repeated
        /\ Recipient(m) \in Users \X Inboxes
    BY <1>1, <1>2, MessageFields DEF SendPost, Begins, Recipient
  <1>4. PICK p \in Users \X Inboxes : p = Recipient(m)
    BY <1>3
  <1>5. Covers(m, m.ev, p)
    BY <1>3, <1>4 DEF Covers, Leads, Recipient
  <1>6. IsPlace(<<"batch", w, 1>>, m.ev, p) /\ IsPlace(<<"settled", 0, 0>>, m.ev, p)
    BY <1>2, <1>4, <1>5 DEF IsPlace
  <1>7. OneWay(m.ev, p)
    BY <1>3 DEF OneWayEach
  <1> QED BY <1>6, <1>7 DEF OneWay

\* However the queue reorders and redelivers, and whoever follows meanwhile: no
\* inbox that answered for good is sent the event again, unless an invocation
\* died in the middle of one of its messages.
THEOREM NeverTwice == Spec => NoPostAfterFinalAnswer
  <1>1. IndInv /\ IndInv' /\ OneWayEach /\ [Next]_vars => OneWayEach'
    BY NextOneWay DEF IndInv
  <1>2. IndInv /\ OneWayEach /\ [Next]_vars =>
          [\A w \in Workers :
              /\ pc[w] = "next" /\ pc'[w] \in {"finished", "retry"}
              /\ Current(w).ev \notin repeated
              => Recipient(Current(w)) \notin settled[Current(w).ev]]_vars
    BY StepNoPostAgain DEF IndInv
  <1> QED BY <1>1, <1>2, InitOneWay, Invariance, PTL DEF Spec, NoPostAfterFinalAnswer

===============================================================================
