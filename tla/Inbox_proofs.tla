----------------------------- MODULE Inbox_proofs -----------------------------
(***************************************************************************)
(* Theorems about Inbox, for any users, actors, activities, requests,      *)
(* consumers and failures: an Accept can be relied on, and nobody's follow *)
(* or like is undone by anybody else.  Both come down to where a message   *)
(* comes from and to what was checked before the step a consumer is at.    *)
(***************************************************************************)
EXTENDS Inbox, FiniteSetTheorems, SequenceTheorems, TLAPS

\* The part of the type invariant the argument needs.
Types ==
    /\ received \in [Requests -> Nat]
    /\ queue \in [Message -> Nat]
    /\ batch \in [Workers -> Seq(Message)]
    /\ pc \in [Workers -> Steps]
    /\ act \in [Workers -> Activities \cup {None}]

\* Message m was queued for a request that came.
Genuine(m) ==
    \E r \in Requests :
        /\ received[r] > 0
        /\ m.to = r.to /\ m.actor = r.actor
        /\ m.body = IF r.actor = None THEN None ELSE r.body
AllGenuine == \A m \in InFlight : Genuine(m)

\* Activity b of message m may be at this step.
Fits(step, b, m) ==
    /\ step = "author" => b.type \in AboutArticle
    /\ step \in {"putComment", "countComment"} => b.type = "Create" /\ AuthorOf[b.target] = m.to
    /\ step \in {"putReaction", "countReaction", "putActor"} => b.type = "Like"
    /\ step \in {"decrement", "dropActor"} => b.type = "UndoLike" /\ AuthorOf[b.target] = m.to
    /\ step \in {"actor", "insert", "accept"} => b.type = "Follow"
    /\ step = "remove" => b.type = "UndoFollow"

\* A consumer in the middle of a message has checked its activity.
Checked(w) ==
    /\ act[w] \in Bodies(Current(w))
    /\ Admissible(Current(w), act[w])
    /\ Fits(pc[w], act[w], Current(w))
InStep ==
    \A w \in Workers :
        /\ batch[w] = <<>> => pc[w] = "next"
        /\ pc[w] \notin {"next", "finished"} => Checked(w)

\* Actor a may take it that it follows u.
Backed(u, a) == Follows(u, a) \/ SignedUndo("UndoFollow", u, a, u) \/ Spoiled("Follow", u, a)
RowBeforeAccept ==
    \A w \in Workers : pc[w] = "accept" => Backed(Current(w).to, act[w].actor)

Core == Types /\ AllGenuine /\ InStep
IndInv == Core /\ RowBeforeAccept /\ AcceptedIsStored

-------------------------------------------------------------------------------
(* Messages, activities and steps.                                         *)

LEMMA StepsAre ==
    Steps = {"next", "author", "finished", "actor", "insert", "accept", "remove", "putComment",
             "countComment", "putReaction", "countReaction", "putActor", "decrement", "dropActor"}
BY DEF Steps, FollowOrder, StoreOrder

LEMMA AfterIs ==
    /\ After("actor") = "insert" /\ After("insert") = "accept" /\ After("accept") = "finished"
    /\ After("remove") = "finished"
    /\ After("putComment") = "countComment" /\ After("countComment") = "finished"
    /\ After("putReaction") = "countReaction" /\ After("countReaction") = "putActor"
    /\ After("putActor") = "finished"
    /\ After("decrement") = "dropActor" /\ After("dropActor") = "finished"
BY DEF After, FollowOrder, StoreOrder

LEMMA ActivityFields ==
    ASSUME NEW b \in Activities
    PROVE  /\ b.type \in ActivityTypes /\ b.actor \in Actors /\ b.of \in Actors \cup {None}
           /\ b.target \in Slugs \cup Users \cup {None} /\ b # None
BY ActivitiesAssumption, NoneAssumption

LEMMA RequestFields ==
    ASSUME NEW r \in Requests
    PROVE  r.to \in Users /\ r.body \in Activities /\ r.actor \in Actors \cup {None}
BY RequestsAssumption

LEMMA EnqueuedMessage ==
    ASSUME NEW r \in Requests
    PROVE  Enqueued(r) \in Message
<1>1. Enqueued(r) = [Enqueued(r) EXCEPT !.tries = 0]
  BY DEF Enqueued
<1>2. 0 \in 0..MaxRetries
  BY BoundsAssumption
<1> QED BY <1>1, <1>2 DEF Message

LEMMA TriesOnly ==
    ASSUME NEW to, NEW id, NEW body, NEW actor, NEW k, NEW n
    PROVE  [[to |-> to, id |-> id, body |-> body, actor |-> actor, tries |-> k] EXCEPT !.tries = n]
             = [to |-> to, id |-> id, body |-> body, actor |-> actor, tries |-> n]
OBVIOUS

LEMMA MessageFields ==
    ASSUME NEW m \in Message
    PROVE  \E r \in Requests, n \in 0..MaxRetries :
              m = [to |-> r.to, id |-> r.body.id, body |-> IF r.actor = None THEN None ELSE r.body,
                   actor |-> r.actor, tries |-> n]
<1>1. PICK r \in Requests, n \in 0..MaxRetries : m = [Enqueued(r) EXCEPT !.tries = n]
  BY DEF Message
<1>2. [Enqueued(r) EXCEPT !.tries = n]
        = [to |-> r.to, id |-> r.body.id, body |-> IF r.actor = None THEN None ELSE r.body,
           actor |-> r.actor, tries |-> n]
  BY TriesOnly DEF Enqueued
<1> QED BY <1>1, <1>2

LEMMA BodiesAreActivities ==
    ASSUME NEW m \in Message
    PROVE  Bodies(m) \subseteq Activities
<1>1. PICK r \in Requests, n \in 0..MaxRetries :
         m = [to |-> r.to, id |-> r.body.id, body |-> IF r.actor = None THEN None ELSE r.body,
              actor |-> r.actor, tries |-> n]
  BY MessageFields
<1> QED BY <1>1, RequestFields DEF Bodies

\* Redelivery changes nothing of a message but its count.
LEMMA RedeliveredMessage ==
    ASSUME NEW m \in Message, CanRedeliver(m)
    PROVE  /\ Redelivered(m) \in Message
           /\ Redelivered(m).to = m.to /\ Redelivered(m).actor = m.actor
           /\ Redelivered(m).body = m.body
<1>1. PICK r \in Requests, n \in 0..MaxRetries :
         m = [to |-> r.to, id |-> r.body.id, body |-> IF r.actor = None THEN None ELSE r.body,
              actor |-> r.actor, tries |-> n]
  BY MessageFields
<1>2. n + 1 \in 0..MaxRetries
  BY <1>1, BoundsAssumption DEF CanRedeliver
<1>3. Redelivered(m)
        = [to |-> r.to, id |-> r.body.id, body |-> IF r.actor = None THEN None ELSE r.body,
           actor |-> r.actor, tries |-> n + 1]
  BY <1>1, TriesOnly DEF Redelivered
<1>4. [Enqueued(r) EXCEPT !.tries = n + 1] = Redelivered(m)
  BY <1>3, TriesOnly DEF Enqueued
<1> QED BY <1>1, <1>2, <1>3, <1>4 DEF Message

LEMMA CurrentMessage ==
    ASSUME Types, NEW w \in Workers, batch[w] # <<>>
    PROVE  /\ Current(w) \in Message /\ Current(w) \in Held(w)
           /\ Tail(batch[w]) \in Seq(Message)
           /\ \A k \in DOMAIN Tail(batch[w]) : Tail(batch[w])[k] \in Held(w)
<1>1. batch[w] \in Seq(Message)
  BY DEF Types
<1>2. Head(batch[w]) = batch[w][1] /\ 1 \in DOMAIN batch[w]
  BY <1>1
<1>3. Tail(batch[w]) \in Seq(Message) /\ Len(Tail(batch[w])) = Len(batch[w]) - 1
  BY <1>1, HeadTailProperties
<1>4. ASSUME NEW k \in DOMAIN Tail(batch[w])
      PROVE  k + 1 \in DOMAIN batch[w] /\ Tail(batch[w])[k] = batch[w][k + 1]
  BY <1>1, <1>3, HeadTailProperties
<1> QED BY <1>1, <1>2, <1>3, <1>4 DEF Current, Held

\* Whoever's activity is undone has signed the Undo.
LEMMA UndoSigned ==
    ASSUME NEW m \in Message, Genuine(m), NEW b \in Bodies(m), Authorised(b, m.actor)
    PROVE  SignedUndo(b.type, m.to, b.of, b.target)
<1>1. PICK r \in Requests : /\ received[r] > 0 /\ m.to = r.to /\ m.actor = r.actor
                            /\ m.body = IF r.actor = None THEN None ELSE r.body
  BY DEF Genuine
<1>2. r.actor # None /\ r.body # None
  BY <1>1, RequestFields, ActivityFields DEF Authorised
<1>3. b = r.body
  BY <1>1, <1>2 DEF Bodies
<1> QED BY <1>1, <1>3 DEF SignedUndo, Authorised

-------------------------------------------------------------------------------
(* The queue.                                                              *)

\* Requests only ever come.
LEMMA ReceivedGrows ==
    ASSUME Types, [Next]_vars
    PROVE  /\ received' \in [Requests -> Nat]
           /\ \A r \in Requests : received'[r] >= received[r]
<1>1. \A r \in Requests : received[r] \in Nat
  BY DEF Types
<1>2. CASE received' = received
  BY <1>1, <1>2 DEF Types
<1>3. ASSUME NEW r \in Requests, received' = [received EXCEPT ![r] = @ + 1]
      PROVE  /\ received' \in [Requests -> Nat]
             /\ \A q \in Requests : received'[q] >= received[q]
  BY <1>1, <1>3 DEF Types
<1>4. received' = received \/ \E r \in Requests : received' = [received EXCEPT ![r] = @ + 1]
  <2>1. CASE Request
    BY <2>1 DEF Request, Receive, EnqueueFails
  <2>2. ASSUME NEW w \in Workers, WorkerStep(w)
        PROVE  received' = received
    BY <2>2 DEF WorkerStep, ReceiveBatch, Dispatch, FetchFails, CheckAuthor, PutObject, CountComment,
                CountReaction, PutActor, Decrement, DropActor, FetchActor, AddFollower, SendAccept,
                RemoveFollower, Ack
  <2>3. ASSUME NEW w \in Workers, Failure(w)
        PROVE  received' = received
    BY <2>3 DEF Failure, AssetFails, PutFails, StatementFails, Crash
  <2> QED BY <2>1, <2>2, <2>3 DEF Next, vars
<1> QED BY <1>2, <1>3, <1>4

LEMMA GenuineStays ==
    ASSUME Types, NEW m, Genuine(m), \A r \in Requests : received'[r] >= received[r],
           received' \in [Requests -> Nat]
    PROVE  Genuine(m)'
<1>1. PICK r \in Requests : /\ received[r] > 0 /\ m.to = r.to /\ m.actor = r.actor
                            /\ m.body = IF r.actor = None THEN None ELSE r.body
  BY DEF Genuine
<1>2. received'[r] > 0
  BY <1>1 DEF Types
<1> QED BY <1>1, <1>2 DEF Genuine

\* Copies counts, and counts none of a message that does not occur.
LEMMA CopiesCount ==
    ASSUME NEW s \in Seq(Message), NEW m
    PROVE  /\ Copies(s, m) \in Nat
           /\ (\A k \in DOMAIN s : s[k] # m) => Copies(s, m) = 0
<1> DEFINE K == {k \in DOMAIN s : s[k] = m}
<1>1. DOMAIN s = 1..Len(s) /\ Len(s) \in Nat
  OBVIOUS
<1>2. IsFiniteSet(1..Len(s))
  BY <1>1, FS_Interval
<1>3. IsFiniteSet(K)
  BY <1>1, <1>2, FS_Subset
<1>4. Cardinality(K) \in Nat /\ (K = {} => Cardinality(K) = 0)
  BY <1>3, FS_CardinalityType, FS_EmptySet
<1> QED BY <1>4 DEF Copies

\* Requeueing adds redelivered messages and nothing else.
LEMMA RequeuedQueue ==
    ASSUME Types, NEW s \in Seq(Message)
    PROVE  /\ Requeued(s) \in [Message -> Nat]
           /\ \A m \in Message : Requeued(s)[m] > 0 =>
                 \/ queue[m] > 0
                 \/ \E k \in DOMAIN s : CanRedeliver(s[k]) /\ Redelivered(s[k]) = m
<1> DEFINE K(m) == {k \in DOMAIN s : CanRedeliver(s[k]) /\ Redelivered(s[k]) = m}
<1>1. ASSUME NEW m \in Message
      PROVE  Cardinality(K(m)) \in Nat /\ (K(m) = {} => Cardinality(K(m)) = 0)
  <2>1. DOMAIN s = 1..Len(s) /\ Len(s) \in Nat
    OBVIOUS
  <2>2. IsFiniteSet(1..Len(s))
    BY <2>1, FS_Interval
  <2>3. IsFiniteSet(K(m))
    BY <2>1, <2>2, FS_Subset
  <2> QED BY <2>3, FS_CardinalityType, FS_EmptySet
<1>2. \A m \in Message : queue[m] \in Nat
  BY DEF Types
<1>3. Requeued(s) = [m \in Message |-> queue[m] + Cardinality(K(m))]
  BY DEF Requeued
<1> HIDE DEF K
<1>4. \A m \in Message : Requeued(s)[m] > 0 => queue[m] > 0 \/ K(m) # {}
  BY <1>1, <1>2, <1>3
<1>5. Requeued(s) \in [Message -> Nat]
  BY <1>1, <1>2, <1>3
<1> QED BY <1>4, <1>5 DEF K

-------------------------------------------------------------------------------
(* Core is preserved: first requests and what moves messages,              *)

LEMMA ReceivePreserves ==
    ASSUME Core, NEW r \in Requests, Receive(r)
    PROVE  Core'
<1> DEFINE q == Enqueued(r)
<1>1. /\ received' = [received EXCEPT ![r] = @ + 1]
      /\ queue' = [queue EXCEPT ![q] = @ + 1]
      /\ batch' = batch /\ pc' = pc /\ act' = act
  BY DEF Receive, consumer
<1>2. /\ received \in [Requests -> Nat] /\ queue \in [Message -> Nat] /\ q \in Message
      /\ AllGenuine /\ InStep
  BY EnqueuedMessage DEF Core, Types
<1>3. Types'
  BY <1>1, <1>2 DEF Core, Types
<1>4. \A p \in Requests : received'[p] >= received[p]
  BY <1>1, <1>2
<1>5. Genuine(q)'
  <2>1. received'[r] > 0
    BY <1>1, <1>2
  <2>2. q.to = r.to /\ q.actor = r.actor /\ q.body = IF r.actor = None THEN None ELSE r.body
    BY DEF Enqueued
  <2> QED BY <2>1, <2>2 DEF Genuine
<1> HIDE DEF q
<1>6. \A m \in InFlight' : m \in InFlight \/ m = q
  BY <1>1, <1>2 DEF InFlight, Queued, Held
<1>7. ASSUME NEW m \in InFlight'
      PROVE  Genuine(m)'
  <2>1. CASE m = q
    BY <1>5, <2>1
  <2>2. CASE m \in InFlight
    <3>1. Genuine(m)
      BY <1>2, <2>2 DEF AllGenuine
    <3> QED BY <1>2, <1>3, <1>4, <3>1, GenuineStays DEF Core, Types
  <2> QED BY <1>6, <2>1, <2>2
<1>8. InStep'
  BY <1>1, <1>2 DEF InStep, Checked, Current
<1> QED BY <1>3, <1>7, <1>8 DEF Core, AllGenuine

LEMMA EnqueueFailsPreserves ==
    ASSUME Core, NEW r \in Requests, EnqueueFails(r)
    PROVE  Core'
<1>1. /\ received' = [received EXCEPT ![r] = @ + 1]
      /\ queue' = queue /\ batch' = batch /\ pc' = pc /\ act' = act
  BY DEF EnqueueFails, consumer
<1>2. received \in [Requests -> Nat] /\ AllGenuine /\ InStep
  BY DEF Core, Types
<1>3. Types'
  BY <1>1, <1>2 DEF Core, Types
<1>4. \A p \in Requests : received'[p] >= received[p]
  BY <1>1, <1>2
<1>5. InFlight' = InFlight
  BY <1>1 DEF InFlight, Queued, Held
<1>6. ASSUME NEW m \in InFlight'
      PROVE  Genuine(m)'
  <2>1. Genuine(m)
    BY <1>2, <1>5 DEF AllGenuine
  <2> QED BY <1>3, <1>4, <2>1, GenuineStays DEF Core, Types
<1>7. InStep'
  BY <1>1, <1>2 DEF InStep, Checked, Current
<1> QED BY <1>3, <1>6, <1>7 DEF Core, AllGenuine

\* Where requests, and messages in flight, are as before or fewer.
LEMMA GenuineKept ==
    ASSUME AllGenuine, received' = received, InFlight' \subseteq InFlight
    PROVE  AllGenuine'
<1>1. ASSUME NEW m, Genuine(m)
      PROVE  Genuine(m)'
  BY <1>1 DEF Genuine
<1> QED BY <1>1 DEF AllGenuine

LEMMA ReceiveBatchPreserves ==
    ASSUME Core, NEW w \in Workers, ReceiveBatch(w)
    PROVE  Core'
<1>1. PICK n \in 1..MaxBatch : \E b \in [1..n -> Queued] :
         /\ \A k \in 1..n : Copies(b, b[k]) <= queue[b[k]]
         /\ queue' = [m \in Message |-> queue[m] - Copies(b, m)]
         /\ batch' = [batch EXCEPT ![w] = b]
  BY DEF ReceiveBatch
<1>2. PICK b \in [1..n -> Queued] :
         /\ \A k \in 1..n : Copies(b, b[k]) <= queue[b[k]]
         /\ queue' = [m \in Message |-> queue[m] - Copies(b, m)]
         /\ batch' = [batch EXCEPT ![w] = b]
  BY <1>1
<1>3. /\ batch[w] = <<>> /\ received' = received /\ pc' = pc /\ act' = act
      /\ Types /\ AllGenuine /\ InStep
  BY DEF ReceiveBatch, Core
<1>4. n \in Nat /\ 1 <= n
  BY BoundsAssumption
<1>5. b \in Seq(Message) /\ DOMAIN b = 1..n /\ b # <<>>
  <2>1. Queued \subseteq Message
    BY DEF Queued
  <2> QED BY <1>4, <2>1
<1>6. \A m \in Message : queue[m] \in Nat /\ Copies(b, m) \in Nat
  BY <1>3, <1>5, CopiesCount DEF Types
<1>7. \A m \in Message : queue[m] - Copies(b, m) \in Nat /\ queue[m] - Copies(b, m) <= queue[m]
  <2> SUFFICES ASSUME NEW m \in Message
               PROVE  queue[m] - Copies(b, m) \in Nat /\ queue[m] - Copies(b, m) <= queue[m]
    OBVIOUS
  <2>1. Copies(b, m) <= queue[m]
    <3>1. CASE \A k \in DOMAIN b : b[k] # m
      BY <1>5, <1>6, <3>1, CopiesCount
    <3>2. CASE \E k \in DOMAIN b : b[k] = m
      BY <1>2, <1>5, <3>2
    <3> QED BY <3>1, <3>2
  <2> QED BY <1>6, <2>1
<1>8. Types'
  <2>1. queue' \in [Message -> Nat]
    BY <1>2, <1>7
  <2>2. batch' \in [Workers -> Seq(Message)]
    BY <1>2, <1>3, <1>5 DEF Types
  <2> QED BY <1>3, <2>1, <2>2 DEF Types
<1>9. InFlight' \subseteq InFlight
  <2>1. Queued' \subseteq Queued
    BY <1>2, <1>6, <1>7 DEF Queued
  <2>2. Held(w)' \subseteq Queued
    BY <1>2, <1>3, <1>5 DEF Held, Types
  <2>3. \A v \in Workers \ {w} : Held(v)' = Held(v)
    BY <1>2, <1>3 DEF Held, Types
  <2> QED BY <2>1, <2>2, <2>3 DEF InFlight
<1>10. InStep'
  <2>1. pc[w] = "next" /\ batch'[w] = b
    BY <1>2, <1>3 DEF InStep, Types
  <2>2. \A v \in Workers \ {w} : batch'[v] = batch[v]
    BY <1>2, <1>3 DEF Types
  <2> QED BY <1>3, <1>5, <2>1, <2>2 DEF InStep, Checked, Current
<1> QED BY <1>3, <1>8, <1>9, <1>10, GenuineKept DEF Core

LEMMA AckPreserves ==
    ASSUME Core, NEW w \in Workers, Ack(w)
    PROVE  Core'
<1>1. /\ batch[w] # <<>> /\ received' = received /\ queue' = queue
      /\ batch' = [batch EXCEPT ![w] = Tail(@)]
      /\ pc' = [pc EXCEPT ![w] = "next"] /\ act' = [act EXCEPT ![w] = None]
      /\ Types /\ AllGenuine /\ InStep
  BY DEF Ack, At, Goes, Core
<1>2. Tail(batch[w]) \in Seq(Message) /\ \A k \in DOMAIN Tail(batch[w]) : Tail(batch[w])[k] \in Held(w)
  BY <1>1, CurrentMessage
<1>3. Types'
  BY <1>1, <1>2, StepsAre DEF Types
<1>4. InFlight' \subseteq InFlight
  <2>1. Queued' = Queued
    BY <1>1 DEF Queued
  <2>2. Held(w)' \subseteq Held(w)
    <3>1. batch'[w] = Tail(batch[w])
      BY <1>1 DEF Types
    <3> QED BY <1>2, <3>1 DEF Held
  <2>3. \A v \in Workers \ {w} : Held(v)' = Held(v)
    BY <1>1 DEF Held, Types
  <2> QED BY <2>1, <2>2, <2>3 DEF InFlight
<1>5. InStep'
  <2>1. pc'[w] = "next"
    BY <1>1 DEF Types
  <2>2. \A v \in Workers \ {w} : batch'[v] = batch[v] /\ pc'[v] = pc[v] /\ act'[v] = act[v]
    BY <1>1 DEF Types
  <2> QED BY <1>1, <2>1, <2>2 DEF InStep, Checked, Current
<1> QED BY <1>1, <1>3, <1>4, <1>5, GenuineKept DEF Core

LEMMA CrashPreserves ==
    ASSUME Core, NEW w \in Workers, Crash(w)
    PROVE  Core'
<1>1. /\ received' = received /\ queue' = Requeued(batch[w])
      /\ batch' = [batch EXCEPT ![w] = <<>>]
      /\ pc' = [pc EXCEPT ![w] = "next"] /\ act' = [act EXCEPT ![w] = None]
      /\ Types /\ AllGenuine /\ InStep
  BY DEF Crash, Goes, Core
<1>2. batch[w] \in Seq(Message) /\ <<>> \in Seq(Message)
  BY <1>1 DEF Types
<1>3. /\ queue' \in [Message -> Nat]
      /\ \A m \in Message : queue'[m] > 0 =>
            \/ queue[m] > 0
            \/ \E k \in DOMAIN batch[w] : CanRedeliver(batch[w][k]) /\ Redelivered(batch[w][k]) = m
  BY <1>1, <1>2, RequeuedQueue
<1>4. Types'
  BY <1>1, <1>2, <1>3, StepsAre DEF Types
<1>5. ASSUME NEW m, Genuine(m)
      PROVE  Genuine(m)'
  BY <1>1, <1>5 DEF Genuine
<1>6. ASSUME NEW m \in Queued'
      PROVE  Genuine(m)'
  <2>1. m \in Message /\ queue'[m] > 0
    BY DEF Queued
  <2>2. CASE queue[m] > 0
    <3>1. Genuine(m)
      BY <1>1, <2>1, <2>2 DEF AllGenuine, InFlight, Queued
    <3> QED BY <1>5, <3>1
  <2>3. ASSUME NEW k \in DOMAIN batch[w], CanRedeliver(batch[w][k]), Redelivered(batch[w][k]) = m
        PROVE  Genuine(m)'
    <3>1. batch[w][k] \in Message /\ Genuine(batch[w][k])
      BY <1>1, <1>2 DEF AllGenuine, InFlight, Held
    <3>2. Genuine(m)
      BY <2>3, <3>1, RedeliveredMessage DEF Genuine
    <3> QED BY <1>5, <3>2
  <2> QED BY <1>3, <2>1, <2>2, <2>3
<1>7. ASSUME NEW v \in Workers, NEW m \in Held(v)'
      PROVE  Genuine(m)'
  <2>1. m \in Held(v)
    BY <1>1, <1>7 DEF Held, Types
  <2>2. Genuine(m)
    BY <1>1, <2>1 DEF AllGenuine, InFlight
  <2> QED BY <1>5, <2>2
<1>8. AllGenuine'
  BY <1>6, <1>7 DEF AllGenuine, InFlight
<1>9. InStep'
  <2>1. pc'[w] = "next"
    BY <1>1 DEF Types
  <2>2. \A v \in Workers \ {w} : batch'[v] = batch[v] /\ pc'[v] = pc[v] /\ act'[v] = act[v]
    BY <1>1 DEF Types
  <2> QED BY <1>1, <2>1, <2>2 DEF InStep, Checked, Current
<1> QED BY <1>4, <1>8, <1>9 DEF Core

-------------------------------------------------------------------------------
(* then the processing of a message.                                       *)

\* Where nothing but worker w's step and activity changes, w is what matters.
LEMMA StepPreserves ==
    ASSUME Core, NEW w \in Workers, NEW step \in Steps, NEW b \in Activities \cup {None},
           received' = received, queue' = queue, batch' = batch,
           act' = [act EXCEPT ![w] = b], pc' = [pc EXCEPT ![w] = step], batch[w] # <<>>,
           step \notin {"next", "finished"} =>
             b \in Bodies(Current(w)) /\ Admissible(Current(w), b) /\ Fits(step, b, Current(w))
    PROVE  Core'
<1>1. Types /\ AllGenuine /\ InStep
  BY DEF Core
<1>2. Types'
  BY <1>1 DEF Types
<1>3. InFlight' = InFlight
  BY DEF InFlight, Queued, Held
<1>4. pc'[w] = step /\ act'[w] = b
  BY <1>1 DEF Types
<1>5. \A v \in Workers \ {w} : pc'[v] = pc[v] /\ act'[v] = act[v]
  BY <1>1 DEF Types
<1>6. InStep'
  BY <1>1, <1>4, <1>5 DEF InStep, Checked, Current
<1> QED BY <1>1, <1>2, <1>3, <1>6, GenuineKept DEF Core

LEMMA GoesOn ==
    ASSUME Core, NEW w \in Workers, NEW step \in Steps,
           received' = received, queue' = queue, batch' = batch, act' = act,
           Goes(w, step), batch[w] # <<>>,
           step \notin {"next", "finished"} =>
             /\ pc[w] \notin {"next", "finished"}
             /\ Fits(step, act[w], Current(w))
    PROVE  Core'
<1>1. act[w] \in Activities \cup {None} /\ act' = [act EXCEPT ![w] = act[w]]
  BY DEF Core, Types
<1>2. step \notin {"next", "finished"} =>
        act[w] \in Bodies(Current(w)) /\ Admissible(Current(w), act[w])
  BY DEF Core, InStep, Checked
<1> QED BY <1>1, <1>2, StepPreserves DEF Goes

\* From one step of an arm to the next.
LEMMA ProceedsPreserves ==
    ASSUME Core, NEW w \in Workers, pc[w] \notin {"next", "finished", "author"}, batch[w] # <<>>,
           received' = received, queue' = queue, batch' = batch, act' = act, Proceeds(w)
    PROVE  Core'
<1>1. pc[w] \in Steps /\ Fits(pc[w], act[w], Current(w))
  BY DEF Core, Types, InStep, Checked
<1>2. After(pc[w]) \in Steps /\ Fits(After(pc[w]), act[w], Current(w))
  BY <1>1, StepsAre, AfterIs DEF Fits
<1> QED BY <1>2, GoesOn DEF Proceeds

LEMMA FinishesPreserves ==
    ASSUME Core, NEW w \in Workers, batch[w] # <<>>,
           received' = received, queue' = queue, batch' = batch, act' = act, Goes(w, "finished")
    PROVE  Core'
BY GoesOn, StepsAre

LEMMA DispatchPreserves ==
    ASSUME Core, NEW w \in Workers, Dispatch(w)
    PROVE  Core'
<1>1. PICK b \in Bodies(Current(w)) :
         /\ act' = [act EXCEPT ![w] = b]
         /\ Goes(w, IF Admissible(Current(w), b) THEN Entry(b) ELSE "finished")
  BY DEF Dispatch
<1>2. batch[w] # <<>> /\ received' = received /\ queue' = queue /\ batch' = batch
  BY DEF Dispatch, At
<1>3. b \in Activities
  BY <1>2, CurrentMessage, BodiesAreActivities DEF Core
<1> DEFINE step == IF Admissible(Current(w), b) THEN Entry(b) ELSE "finished"
<1>4. step \in Steps
  BY StepsAre DEF Entry
<1>5. ASSUME step \notin {"next", "finished"}
      PROVE  Admissible(Current(w), b) /\ Fits(step, b, Current(w))
  <2>1. Admissible(Current(w), b)
    BY <1>5
  <2>2. b.type \in ActivityTypes
    BY <1>3, ActivityFields
  <2>3. b.type \in AboutArticle \/ b.type = "Follow" \/ b.type = "UndoFollow"
    BY <2>1, <2>2 DEF Admissible, ActivityTypes, AboutArticle
  <2>4. step = Entry(b)
    BY <2>1
  <2> QED BY <2>1, <2>3, <2>4 DEF Entry, Fits, AboutArticle
<1>6. pc' = [pc EXCEPT ![w] = step]
  BY <1>1 DEF Goes
<1> HIDE DEF step
<1> QED BY <1>1, <1>2, <1>3, <1>4, <1>5, <1>6, StepPreserves

LEMMA CheckAuthorPreserves ==
    ASSUME Core, NEW w \in Workers, CheckAuthor(w)
    PROVE  Core'
<1> DEFINE step == IF AuthorOf[act[w].target] = Current(w).to
                   THEN FirstEffect[act[w].type] ELSE "finished"
<1>1. /\ pc[w] = "author" /\ batch[w] # <<>> /\ Goes(w, step)
      /\ received' = received /\ queue' = queue /\ batch' = batch /\ act' = act
  BY DEF CheckAuthor, At
<1>2. act[w].type \in AboutArticle
  BY <1>1 DEF Core, InStep, Checked, Fits
<1>3. FirstEffect["Create"] = "putComment" /\ FirstEffect["Like"] = "putReaction"
        /\ FirstEffect["UndoLike"] = "decrement"
  BY DEF FirstEffect
<1>4. step \in Steps /\ (step = "finished" \/ Fits(step, act[w], Current(w)))
  BY <1>2, <1>3, StepsAre DEF AboutArticle, Fits
<1> HIDE DEF step
<1> QED BY <1>1, <1>4, GoesOn

LEMMA NextCore == Core /\ [Next]_vars => Core'
<1> SUFFICES ASSUME Core, [Next]_vars PROVE Core'
  OBVIOUS
<1>1. CASE UNCHANGED vars
  BY <1>1 DEF vars, consumer, Core, Types, AllGenuine, Genuine, InFlight, Queued, Held, InStep,
              Checked, Current
<1>2. CASE Request
  BY <1>2, ReceivePreserves, EnqueueFailsPreserves DEF Request
<1>3. ASSUME NEW w \in Workers, WorkerStep(w)
      PROVE  Core'
  <2>1. CASE ReceiveBatch(w) \/ Dispatch(w) \/ CheckAuthor(w) \/ Ack(w)
    BY <2>1, ReceiveBatchPreserves, DispatchPreserves, CheckAuthorPreserves, AckPreserves
  <2>2. CASE FetchFails(w)
    BY <2>2, FinishesPreserves DEF FetchFails, At
  <2>3. CASE PutObject(w) \/ CountComment(w) \/ CountReaction(w) \/ PutActor(w) \/ Decrement(w)
               \/ DropActor(w) \/ AddFollower(w) \/ SendAccept(w) \/ RemoveFollower(w)
    BY <2>3, ProceedsPreserves DEF PutObject, CountComment, CountReaction, PutActor, Decrement,
       DropActor, AddFollower, SendAccept, RemoveFollower, At
  <2>4. CASE FetchActor(w)
    BY <2>4, ProceedsPreserves, FinishesPreserves DEF FetchActor, At
  <2> QED BY <1>3, <2>1, <2>2, <2>3, <2>4 DEF WorkerStep
<1>4. ASSUME NEW w \in Workers, Failure(w)
      PROVE  Core'
  <2>1. CASE AssetFails(w) \/ PutFails(w)
    BY <2>1, FinishesPreserves DEF AssetFails, PutFails, At
  <2>2. CASE StatementFails(w)
    BY <2>2, ProceedsPreserves DEF StatementFails, D1Steps
  <2>3. CASE Crash(w)
    BY <2>3, CrashPreserves
  <2> QED BY <1>4, <2>1, <2>2, <2>3 DEF Failure
<1> QED BY <1>1, <1>2, <1>3, <1>4 DEF Next

-------------------------------------------------------------------------------
(* Who ends a follow or takes back a like.                                 *)

LEMMA UndoOfWorker ==
    ASSUME Core, NEW w \in Workers, batch[w] # <<>>, pc[w] \in {"remove", "dropActor"}
    PROVE  /\ SignedUndo(act[w].type, Current(w).to, act[w].of, act[w].target)
           /\ pc[w] = "remove" => act[w].type = "UndoFollow" /\ act[w].target = Current(w).to
           /\ pc[w] = "dropActor" =>
                act[w].type = "UndoLike" /\ AuthorOf[act[w].target] = Current(w).to
<1>1. /\ act[w] \in Bodies(Current(w)) /\ Admissible(Current(w), act[w])
      /\ Fits(pc[w], act[w], Current(w))
  BY DEF Core, InStep, Checked
<1>2. Current(w) \in Message /\ Genuine(Current(w))
  BY CurrentMessage DEF Core, AllGenuine, InFlight
<1>3. act[w].type \in {"UndoFollow", "UndoLike"}
  BY <1>1 DEF Fits
<1>4. Authorised(act[w], Current(w).actor)
  BY <1>1, <1>3 DEF Admissible, Undos
<1>5. pc[w] = "remove" => act[w].type = "UndoFollow" /\ act[w].target = Current(w).to
  BY <1>1 DEF Fits, Admissible, AboutUser
<1> QED BY <1>1, <1>2, <1>4, <1>5, UndoSigned DEF Fits

\* A step takes away follower rows and reactions only as their actors signed.
LEMMA RemovesSigned ==
    ASSUME Core, [Next]_vars
    PROVE  /\ \A r \in followers \ followers' : SignedUndo("UndoFollow", r[1], r[2], r[1])
           /\ \A r \in reactionActors \ reactionActors' :
                 SignedUndo("UndoLike", AuthorOf[r[1]], r[2], r[1])
<1>1. CASE followers \subseteq followers' /\ reactionActors \subseteq reactionActors'
  BY <1>1
<1>2. ASSUME NEW w \in Workers, RemoveFollower(w)
      PROVE  /\ reactionActors' = reactionActors
             /\ \A r \in followers \ followers' : SignedUndo("UndoFollow", r[1], r[2], r[1])
  <2>1. /\ pc[w] = "remove" /\ batch[w] # <<>> /\ reactionActors' = reactionActors
        /\ followers' = Without(followers, Current(w).to, act[w].of)
    BY <1>2 DEF RemoveFollower, At, reactions
  <2>2. \A r \in followers \ followers' : r[1] = Current(w).to /\ r[2] = act[w].of
    BY <2>1 DEF Without
  <2>3. SignedUndo("UndoFollow", Current(w).to, act[w].of, Current(w).to)
    BY <2>1, UndoOfWorker
  <2> QED BY <2>1, <2>2, <2>3
<1>3. ASSUME NEW w \in Workers, DropActor(w)
      PROVE  /\ followers' = followers
             /\ \A r \in reactionActors \ reactionActors' :
                   SignedUndo("UndoLike", AuthorOf[r[1]], r[2], r[1])
  <2>1. /\ pc[w] = "dropActor" /\ batch[w] # <<>> /\ followers' = followers
        /\ reactionActors' = reactionActors \ {ActorRow(w)}
    BY <1>3 DEF DropActor, At
  <2>2. /\ SignedUndo("UndoLike", Current(w).to, act[w].of, act[w].target)
        /\ AuthorOf[act[w].target] = Current(w).to /\ act[w].type = "UndoLike"
    BY <2>1, UndoOfWorker
  <2>3. ActorRow(w) = <<act[w].target, act[w].of>>
    BY <2>2 DEF ActorRow
  <2> QED BY <2>1, <2>2, <2>3
<1>4. \/ followers \subseteq followers' /\ reactionActors \subseteq reactionActors'
      \/ \E w \in Workers : RemoveFollower(w) \/ DropActor(w)
  <2>1. CASE UNCHANGED vars
    BY <2>1 DEF vars, stores, reactions
  <2>2. CASE Request
    BY <2>2 DEF Request, Receive, EnqueueFails, stores, reactions
  <2>3. ASSUME NEW w \in Workers, WorkerStep(w), ~RemoveFollower(w), ~DropActor(w)
        PROVE  followers \subseteq followers' /\ reactionActors \subseteq reactionActors'
    <3>1. CASE \/ ReceiveBatch(w) \/ Dispatch(w) \/ FetchFails(w) \/ CheckAuthor(w)
               \/ FetchActor(w) \/ SendAccept(w) \/ Ack(w)
      BY <3>1 DEF ReceiveBatch, Dispatch, FetchFails, CheckAuthor, FetchActor, SendAccept, Ack,
                  stores, reactions
    <3>2. CASE \/ PutObject(w) \/ CountComment(w) \/ CountReaction(w) \/ PutActor(w)
               \/ Decrement(w) \/ AddFollower(w)
      BY <3>2 DEF PutObject, CountComment, CountReaction, PutActor, Decrement, AddFollower, reactions
    <3> QED BY <2>3, <3>1, <3>2 DEF WorkerStep
  <2>4. ASSUME NEW w \in Workers, Failure(w)
        PROVE  followers \subseteq followers' /\ reactionActors \subseteq reactionActors'
    BY <2>4 DEF Failure, AssetFails, PutFails, StatementFails, Crash, stores, reactions
  <2> QED BY <2>1, <2>2, <2>3, <2>4 DEF Next
<1> QED BY <1>1, <1>2, <1>3, <1>4

-------------------------------------------------------------------------------
(* What an Accept rests on.                                                *)

LEMMA SignedStays ==
    ASSUME Types, [Next]_vars, NEW type, NEW u, NEW a, NEW t, SignedUndo(type, u, a, t)
    PROVE  SignedUndo(type, u, a, t)'
<1>1. PICK r \in Requests :
         /\ received[r] > 0 /\ r.to = u /\ r.actor = a
         /\ r.body.type = type /\ r.body.actor = a /\ r.body.of = a /\ r.body.target = t
  BY DEF SignedUndo
<1>2. received'[r] > 0
  BY <1>1, ReceivedGrows DEF Types
<1> QED BY <1>1, <1>2 DEF SignedUndo

LEMMA SpoiledStays ==
    ASSUME [Next]_vars
    PROVE  spoiled \subseteq spoiled'
<1>1. CASE UNCHANGED vars
  BY <1>1 DEF vars, history
<1>2. CASE Request
  BY <1>2 DEF Request, Receive, EnqueueFails
<1>3. ASSUME NEW w \in Workers, WorkerStep(w)
      PROVE  spoiled \subseteq spoiled'
  BY <1>3 DEF WorkerStep, ReceiveBatch, Dispatch, FetchFails, CheckAuthor, PutObject, CountComment,
              CountReaction, PutActor, Decrement, DropActor, FetchActor, AddFollower, SendAccept,
              RemoveFollower, Ack, history
<1>4. ASSUME NEW w \in Workers, Failure(w)
      PROVE  spoiled \subseteq spoiled'
  BY <1>4 DEF Failure, AssetFails, PutFails, StatementFails, Crash
<1> QED BY <1>1, <1>2, <1>3, <1>4 DEF Next

LEMMA BackedStays ==
    ASSUME Core, [Next]_vars, NEW u, NEW a, Backed(u, a)
    PROVE  Backed(u, a)'
<1>1. CASE Follows(u, a)
  <2>1. PICK r \in followers : r[1] = u /\ r[2] = a
    BY <1>1 DEF Follows
  <2>2. CASE r \in followers'
    BY <2>1, <2>2 DEF Backed, Follows
  <2>3. CASE r \notin followers'
    <3>1. SignedUndo("UndoFollow", u, a, u)
      BY <2>1, <2>3, RemovesSigned
    <3> QED BY <3>1, SignedStays DEF Backed, Core
  <2> QED BY <2>2, <2>3
<1>2. CASE SignedUndo("UndoFollow", u, a, u)
  BY <1>2, SignedStays DEF Backed, Core
<1>3. CASE Spoiled("Follow", u, a)
  BY <1>3, SpoiledStays DEF Backed, Spoiled
<1> QED BY <1>1, <1>2, <1>3 DEF Backed

\* Worker w comes to the Accept from the INSERT, done or failed.
LEMMA ComesToAccept ==
    ASSUME Core, [Next]_vars, NEW w \in Workers, pc'[w] = "accept"
    PROVE  \/ pc[w] = "accept" /\ batch'[w] = batch[w] /\ act'[w] = act[w]
           \/ AddFollower(w)
           \/ StatementFails(w) /\ pc[w] = "insert"
<1>1. Types
  BY DEF Core
<1>2. CASE UNCHANGED vars
  BY <1>2 DEF vars, consumer
<1>3. CASE Request
  BY <1>3 DEF Request, Receive, EnqueueFails, consumer
<1>4. ASSUME NEW v \in Workers, WorkerStep(v) \/ Failure(v), v # w
      PROVE  pc'[w] = pc[w] /\ batch'[w] = batch[w] /\ act'[w] = act[w]
  <2>1. CASE WorkerStep(v)
    BY <1>1, <1>4, <2>1 DEF Types, WorkerStep, ReceiveBatch, Dispatch, FetchFails, CheckAuthor,
       PutObject, CountComment, CountReaction, PutActor, Decrement, DropActor, FetchActor,
       AddFollower, SendAccept, RemoveFollower, Ack, Goes, Proceeds
  <2>2. CASE Failure(v)
    BY <1>1, <1>4, <2>2 DEF Types, Failure, AssetFails, PutFails, StatementFails, Crash, Goes, Proceeds
  <2> QED BY <1>4, <2>1, <2>2
<1>5. ASSUME Proceeds(w), pc[w] \notin {"next", "finished", "author"}
      PROVE  pc[w] = "insert"
  <2>1. pc'[w] = After(pc[w]) /\ pc[w] \in Steps
    BY <1>1, <1>5 DEF Proceeds, Goes, Types
  <2> QED BY <1>5, <2>1, AfterIs, StepsAre
<1>6. CASE WorkerStep(w)
  <2>1. CASE ReceiveBatch(w)
    <3>1. pc[w] = "next" /\ pc'[w] = pc[w]
      BY <2>1 DEF ReceiveBatch, Core, InStep
    <3> QED BY <3>1
  <2>2. CASE Dispatch(w)
    BY <1>1, <2>2 DEF Dispatch, Goes, Types, Entry
  <2>3. CASE FetchFails(w) \/ Ack(w)
    BY <1>1, <2>3 DEF FetchFails, Ack, Goes, Types
  <2>4. CASE CheckAuthor(w)
    <3>1. act[w].type \in AboutArticle
      BY <2>4 DEF CheckAuthor, At, Core, InStep, Checked, Fits
    <3>2. FirstEffect[act[w].type] \in {"putComment", "putReaction", "decrement"}
      BY <3>1 DEF FirstEffect, AboutArticle
    <3> QED BY <1>1, <2>4, <3>2 DEF CheckAuthor, Goes, Types
  <2>5. CASE PutObject(w) \/ CountComment(w) \/ CountReaction(w) \/ PutActor(w) \/ Decrement(w)
               \/ DropActor(w) \/ SendAccept(w) \/ RemoveFollower(w)
    BY <1>5, <2>5 DEF PutObject, CountComment, CountReaction, PutActor, Decrement, DropActor,
       SendAccept, RemoveFollower, At
  <2>6. CASE FetchActor(w)
    BY <1>1, <1>5, <2>6 DEF FetchActor, At, Goes, Types
  <2> QED BY <1>6, <2>1, <2>2, <2>3, <2>4, <2>5, <2>6 DEF WorkerStep
<1>7. CASE Failure(w)
  <2>1. CASE AssetFails(w) \/ PutFails(w) \/ Crash(w)
    BY <1>1, <2>1 DEF AssetFails, PutFails, Crash, Goes, Types
  <2>2. CASE StatementFails(w)
    BY <1>5, <2>2 DEF StatementFails, D1Steps
  <2> QED BY <1>7, <2>1, <2>2 DEF Failure
<1> QED BY <1>2, <1>3, <1>4, <1>6, <1>7 DEF Next

LEMMA NextRowBeforeAccept == IndInv /\ [Next]_vars => RowBeforeAccept'
<1> SUFFICES ASSUME IndInv, [Next]_vars, NEW w \in Workers, pc'[w] = "accept",
                    NEW u, NEW a, u = Head(batch'[w]).to, a = act'[w].actor
             PROVE  Backed(u, a)'
  BY DEF RowBeforeAccept, Current
<1>1. Core /\ RowBeforeAccept
  BY DEF IndInv
<1>2. CASE pc[w] = "accept" /\ batch'[w] = batch[w] /\ act'[w] = act[w]
  <2>1. Backed(u, a)
    BY <1>1, <1>2 DEF RowBeforeAccept, Current
  <2> QED BY <1>1, <2>1, BackedStays
<1>3. CASE AddFollower(w)
  <2>1. /\ followers' = followers \cup {<<Current(w).to, act[w].actor, inbox[w], act[w].id>>}
        /\ batch' = batch /\ act' = act
    BY <1>3 DEF AddFollower
  <2>2. u = Current(w).to /\ a = act[w].actor
    BY <2>1 DEF Current
  <2>3. Follows(u, a)'
    <3>1. PICK r \in followers' : r = <<Current(w).to, act[w].actor, inbox[w], act[w].id>>
      BY <2>1
    <3>2. r[1] = u /\ r[2] = a
      BY <2>2, <3>1
    <3> QED BY <3>2 DEF Follows
  <2> QED BY <2>3 DEF Backed
<1>4. CASE StatementFails(w) /\ pc[w] = "insert"
  <2>1. act[w] \in spoiled' /\ batch[w] # <<>> /\ batch' = batch /\ act' = act
    BY <1>4 DEF StatementFails
  <2>2. act[w].type = "Follow" /\ act[w].target = Current(w).to
    BY <1>1, <1>4 DEF Core, InStep, Checked, Fits, Admissible, AboutUser
  <2>3. u = Current(w).to /\ a = act[w].actor
    BY <2>1 DEF Current
  <2>4. Spoiled("Follow", u, a)'
    BY <2>1, <2>2, <2>3 DEF Spoiled
  <2> QED BY <2>4 DEF Backed
<1> QED BY <1>1, <1>2, <1>3, <1>4, ComesToAccept

\* An Accept is taken at that step only.
LEMMA AcceptedWhenSent ==
    ASSUME [Next]_vars, NEW p \in accepted', p \notin accepted
    PROVE  \E w \in Workers : pc[w] = "accept" /\ p = <<Current(w).to, act[w].actor>>
<1>1. ASSUME accepted' = accepted
      PROVE  FALSE
  BY <1>1
<1>2. ASSUME UNCHANGED vars
      PROVE  FALSE
  BY <1>1, <1>2 DEF vars, history
<1>3. ASSUME Request
      PROVE  FALSE
  BY <1>1, <1>3 DEF Request, Receive, EnqueueFails
<1>4. ASSUME NEW w \in Workers, WorkerStep(w)
      PROVE  SendAccept(w)
  BY <1>1, <1>4 DEF WorkerStep, ReceiveBatch, Dispatch, FetchFails, CheckAuthor, PutObject,
     CountComment, CountReaction, PutActor, Decrement, DropActor, FetchActor, AddFollower,
     RemoveFollower, Ack, history
<1>5. ASSUME NEW w \in Workers, Failure(w)
      PROVE  FALSE
  BY <1>1, <1>5 DEF Failure, AssetFails, PutFails, StatementFails, Crash
<1>6. PICK w \in Workers : SendAccept(w)
  BY <1>2, <1>3, <1>4, <1>5 DEF Next
<1> QED BY <1>6 DEF SendAccept, At

LEMMA NextAccepted == IndInv /\ [Next]_vars => AcceptedIsStored'
<1> SUFFICES ASSUME IndInv, [Next]_vars, NEW p \in accepted'
             PROVE  Backed(p[1], p[2])'
  BY DEF AcceptedIsStored, Backed
<1>1. Core /\ RowBeforeAccept /\ AcceptedIsStored
  BY DEF IndInv
<1>2. Backed(p[1], p[2])
  <2>1. CASE p \in accepted
    BY <1>1, <2>1 DEF AcceptedIsStored, Backed
  <2>2. CASE p \notin accepted
    <3>1. PICK w \in Workers : pc[w] = "accept" /\ p = <<Current(w).to, act[w].actor>>
      BY <2>2, AcceptedWhenSent
    <3> QED BY <1>1, <3>1 DEF RowBeforeAccept
  <2> QED BY <2>1, <2>2
<1> DEFINE u == p[1]
           a == p[2]
<1> HIDE DEF u, a
<1>3. Backed(u, a)
  BY <1>2 DEF u, a
<1>4. Backed(u, a)'
  BY <1>1, <1>3, BackedStays
<1> QED BY <1>4 DEF u, a

LEMMA InitIndInv == Init => IndInv
<1> SUFFICES ASSUME Init PROVE IndInv
  OBVIOUS
<1>1. <<>> \in Seq(Message)
  OBVIOUS
<1>2. Types
  BY <1>1, StepsAre DEF Init, Types
<1>3. InFlight = {}
  BY DEF Init, InFlight, Queued, Held
<1> QED BY <1>2, <1>3 DEF Init, IndInv, Core, AllGenuine, InStep, RowBeforeAccept, AcceptedIsStored

LEMMA Invariance == Spec => []IndInv
<1>1. IndInv /\ [Next]_vars => IndInv'
  BY NextCore, NextRowBeforeAccept, NextAccepted DEF IndInv
<1> QED BY InitIndInv, <1>1, PTL DEF Spec

-------------------------------------------------------------------------------
\* A server that took the Accept of a Follow is in the table of followers until
\* its actor signs an Undo; only a failing INSERT leaves it out.
THEOREM AcceptCanBeReliedOn == Spec => []AcceptedIsStored
<1>1. IndInv => AcceptedIsStored
  BY DEF IndInv
<1> QED BY <1>1, Invariance, PTL

\* No follower row and no reaction goes without an Undo its actor signed.
THEOREM OnlyItsActorRemoves == Spec => RemovedOnlyByItsActor
<1>1. IndInv /\ [Next]_vars =>
        [/\ \A r \in followers \ followers' : SignedUndo("UndoFollow", r[1], r[2], r[1])
         /\ \A r \in reactionActors \ reactionActors' :
               SignedUndo("UndoLike", AuthorOf[r[1]], r[2], r[1])]_vars
  BY RemovesSigned DEF IndInv
<1> QED BY <1>1, Invariance, PTL DEF Spec, RemovedOnlyByItsActor

-------------------------------------------------------------------------------
(* Inbox implements FollowerTable.                                         *)

\* The inbox about to be written to a row is one its actor's profile gave.
InboxKnown ==
    /\ inbox \in [Workers -> Inboxes \cup {None}]
    /\ \A w \in Workers : pc[w] = "insert" => inbox[w] \in InboxesOfActor[act[w].actor]

\* Worker w comes to the INSERT with the profile it fetched.
LEMMA ComesToInsert ==
    ASSUME Core, [Next]_vars, NEW w \in Workers, pc'[w] = "insert",
           inbox \in [Workers -> Inboxes \cup {None}]
    PROVE  \/ pc[w] = "insert" /\ inbox'[w] = inbox[w] /\ act'[w] = act[w]
           \/ act'[w] = act[w] /\ inbox'[w] \in InboxesOfActor[act[w].actor]
<1>1. Types
  BY DEF Core
<1>2. CASE UNCHANGED vars
  BY <1>2 DEF vars, consumer
<1>3. CASE Request
  BY <1>3 DEF Request, Receive, EnqueueFails, consumer
<1>4. ASSUME NEW v \in Workers, WorkerStep(v) \/ Failure(v), v # w
      PROVE  pc'[w] = pc[w] /\ inbox'[w] = inbox[w] /\ act'[w] = act[w]
  <2>1. CASE WorkerStep(v)
    BY <1>1, <1>4, <2>1 DEF Types, WorkerStep, ReceiveBatch, Dispatch, FetchFails, CheckAuthor,
       PutObject, CountComment, CountReaction, PutActor, Decrement, DropActor, FetchActor,
       AddFollower, SendAccept, RemoveFollower, Ack, Goes, Proceeds
  <2>2. CASE Failure(v)
    BY <1>1, <1>4, <2>2 DEF Types, Failure, AssetFails, PutFails, StatementFails, Crash, Goes, Proceeds
  <2> QED BY <1>4, <2>1, <2>2
<1>5. ASSUME Proceeds(w), pc[w] \notin {"next", "finished", "author"}
      PROVE  pc[w] = "actor"
  <2>1. pc'[w] = After(pc[w]) /\ pc[w] \in Steps
    BY <1>1, <1>5 DEF Proceeds, Goes, Types
  <2> QED BY <1>5, <2>1, AfterIs, StepsAre
<1>6. CASE WorkerStep(w)
  <2>1. CASE ReceiveBatch(w)
    <3>1. pc[w] = "next" /\ pc'[w] = pc[w]
      BY <2>1 DEF ReceiveBatch, Core, InStep
    <3> QED BY <3>1
  <2>2. CASE Dispatch(w)
    BY <1>1, <2>2 DEF Dispatch, Goes, Types, Entry
  <2>3. CASE FetchFails(w) \/ Ack(w)
    BY <1>1, <2>3 DEF FetchFails, Ack, Goes, Types
  <2>4. CASE CheckAuthor(w)
    <3>1. act[w].type \in AboutArticle
      BY <2>4 DEF CheckAuthor, At, Core, InStep, Checked, Fits
    <3>2. FirstEffect[act[w].type] \in {"putComment", "putReaction", "decrement"}
      BY <3>1 DEF FirstEffect, AboutArticle
    <3> QED BY <1>1, <2>4, <3>2 DEF CheckAuthor, Goes, Types
  <2>5. CASE PutObject(w) \/ CountComment(w) \/ CountReaction(w) \/ PutActor(w) \/ Decrement(w)
               \/ DropActor(w) \/ AddFollower(w) \/ SendAccept(w) \/ RemoveFollower(w)
    BY <1>5, <2>5 DEF PutObject, CountComment, CountReaction, PutActor, Decrement, DropActor,
       AddFollower, SendAccept, RemoveFollower, At
  <2>6. CASE FetchActor(w)
    BY <1>1, <2>6 DEF FetchActor, Goes, Types
  <2> QED BY <1>6, <2>1, <2>2, <2>3, <2>4, <2>5, <2>6 DEF WorkerStep
<1>7. CASE Failure(w)
  <2>1. CASE AssetFails(w) \/ PutFails(w) \/ Crash(w)
    BY <1>1, <2>1 DEF AssetFails, PutFails, Crash, Goes, Types
  <2>2. CASE StatementFails(w)
    BY <1>5, <2>2 DEF StatementFails, D1Steps
  <2> QED BY <1>7, <2>1, <2>2 DEF Failure
<1> QED BY <1>2, <1>3, <1>4, <1>6, <1>7 DEF Next

LEMMA NextInboxKnown == Core /\ InboxKnown /\ [Next]_vars => InboxKnown'
<1> SUFFICES ASSUME Core, InboxKnown, [Next]_vars PROVE InboxKnown'
  OBVIOUS
<1>1. inbox \in [Workers -> Inboxes \cup {None}] /\ Types
  BY DEF InboxKnown, Core
<1>2. inbox' \in [Workers -> Inboxes \cup {None}]
  <2>1. CASE inbox' = inbox
    BY <1>1, <2>1
  <2>2. ASSUME NEW w \in Workers, FetchActor(w)
        PROVE  inbox' \in [Workers -> Inboxes \cup {None}]
    <3>1. CASE inbox' = inbox
      BY <1>1, <3>1
    <3>2. ASSUME NEW i \in InboxesOfActor[act[w].actor], inbox' = [inbox EXCEPT ![w] = i]
          PROVE  inbox' \in [Workers -> Inboxes \cup {None}]
      <4>1. /\ batch[w] # <<>> /\ Current(w) \in Message /\ act[w] \in Bodies(Current(w))
        BY <1>1, <2>2, CurrentMessage DEF FetchActor, At, Core, InStep, Checked
      <4>2. act[w].actor \in Actors
        BY <4>1, BodiesAreActivities, ActivityFields
      <4>3. i \in Inboxes
        BY <4>2, InboxesOfActorAssumption
      <4> QED BY <1>1, <3>2, <4>3
    <3> QED BY <2>2, <3>1, <3>2 DEF FetchActor
  <2>3. ASSUME NEW w \in Workers, inbox' = [inbox EXCEPT ![w] = None]
        PROVE  inbox' \in [Workers -> Inboxes \cup {None}]
    BY <1>1, <2>3
  <2>4. \/ inbox' = inbox
        \/ \E w \in Workers : FetchActor(w) \/ inbox' = [inbox EXCEPT ![w] = None]
    <3>1. CASE UNCHANGED vars
      BY <3>1 DEF vars, consumer
    <3>2. CASE Request
      BY <3>2 DEF Request, Receive, EnqueueFails, consumer
    <3>3. ASSUME NEW w \in Workers, WorkerStep(w)
          PROVE  inbox' = inbox \/ FetchActor(w) \/ inbox' = [inbox EXCEPT ![w] = None]
      BY <3>3 DEF WorkerStep, ReceiveBatch, Dispatch, FetchFails, CheckAuthor, PutObject,
         CountComment, CountReaction, PutActor, Decrement, DropActor, AddFollower, SendAccept,
         RemoveFollower, Ack
    <3>4. ASSUME NEW w \in Workers, Failure(w)
          PROVE  inbox' = inbox \/ inbox' = [inbox EXCEPT ![w] = None]
      BY <3>4 DEF Failure, AssetFails, PutFails, StatementFails, Crash
    <3> QED BY <3>1, <3>2, <3>3, <3>4 DEF Next
  <2> QED BY <2>1, <2>2, <2>3, <2>4
<1>3. ASSUME NEW w \in Workers, pc'[w] = "insert"
      PROVE  inbox'[w] \in InboxesOfActor[act'[w].actor]
  BY <1>1, <1>3, ComesToInsert DEF InboxKnown
<1> QED BY <1>2, <1>3 DEF InboxKnown

\* The rows of the table as FollowerTable has them.
Rows == {<<r[1], r[2], r[3]>> : r \in followers}

\* Only the INSERT and the DELETE change the table.
LEMMA TableChanges ==
    ASSUME [Next]_vars
    PROVE  followers' = followers \/ \E w \in Workers : AddFollower(w) \/ RemoveFollower(w)
<1>1. CASE UNCHANGED vars
  BY <1>1 DEF vars, stores
<1>2. CASE Request
  BY <1>2 DEF Request, Receive, EnqueueFails, stores
<1>3. ASSUME NEW w \in Workers, WorkerStep(w), ~AddFollower(w), ~RemoveFollower(w)
      PROVE  followers' = followers
  BY <1>3 DEF WorkerStep, ReceiveBatch, Dispatch, FetchFails, CheckAuthor, PutObject, CountComment,
     CountReaction, PutActor, Decrement, DropActor, FetchActor, SendAccept, Ack, stores
<1>4. ASSUME NEW w \in Workers, Failure(w)
      PROVE  followers' = followers
  BY <1>4 DEF Failure, AssetFails, PutFails, StatementFails, Crash, stores
<1> QED BY <1>1, <1>2, <1>3, <1>4 DEF Next

LEMMA TableStep == Core /\ InboxKnown /\ [Next]_vars => [Table!Next]_Rows
<1> SUFFICES ASSUME Core, InboxKnown, [Next]_vars, Rows' # Rows PROVE Table!Next
  OBVIOUS
<1>1. Rows' = {<<r[1], r[2], r[3]>> : r \in followers'}
  BY DEF Rows
<1>2. PICK w \in Workers : AddFollower(w) \/ RemoveFollower(w)
  BY <1>1, TableChanges DEF Rows
<1>3. /\ batch[w] # <<>> /\ pc[w] \in {"insert", "remove"}
      /\ act[w] \in Bodies(Current(w)) /\ Admissible(Current(w), act[w])
      /\ Fits(pc[w], act[w], Current(w))
  BY <1>2 DEF AddFollower, RemoveFollower, At, Core, InStep, Checked
<1>4. Current(w) \in Message
  BY <1>3, CurrentMessage DEF Core
<1>5. act[w] \in Activities
  BY <1>3, <1>4, BodiesAreActivities
<1>6. Current(w).to \in Users /\ act[w].actor \in Actors
  BY <1>4, <1>5, MessageFields, RequestFields, ActivityFields
<1> DEFINE u == Current(w).to
<1>7. CASE AddFollower(w)
  <2> DEFINE a == act[w].actor
             i == inbox[w]
  <2>1. followers' = followers \cup {<<u, a, i, act[w].id>>}
    BY <1>7 DEF AddFollower
  <2>2. i \in InboxesOfActor[a] /\ i \in Inboxes
    <3>1. pc[w] = "insert"
      BY <1>7 DEF AddFollower, At
    <3>2. i \in InboxesOfActor[a]
      BY <3>1 DEF InboxKnown
    <3> QED BY <1>6, <3>2, InboxesOfActorAssumption
  <2> HIDE DEF u, a, i
  <2>3. Rows' = Rows \cup {<<u, a, i>>}
    BY <1>1, <2>1 DEF Rows
  <2>4. u \in Users /\ a \in Actors
    BY <1>6 DEF u, a
  <2> QED BY <2>2, <2>3, <2>4 DEF Table!Next, Table!Add, Rows
<1>8. CASE RemoveFollower(w)
  <2> DEFINE a == act[w].of
  <2>1. followers' = Without(followers, u, a)
    BY <1>8 DEF RemoveFollower
  <2>2. a \in Actors
    <3>1. pc[w] = "remove"
      BY <1>8 DEF RemoveFollower, At
    <3> QED BY <1>3, <1>6, <3>1 DEF Fits, Admissible, Undos, Authorised
  <2> HIDE DEF u, a
  <2>3. Rows' = {r \in Rows : ~(r[1] = u /\ r[2] = a)}
    BY <1>1, <2>1 DEF Rows, Without
  <2>4. u \in Users
    BY <1>6 DEF u
  <2> QED BY <2>2, <2>3, <2>4 DEF Table!Next, Table!Remove, Rows
<1> QED BY <1>2, <1>7, <1>8

\* Inbox changes the followers table only as FollowerTable allows, which is what
\* Delivery assumes of its environment.
THEOREM InboxKeepsTable == Spec => KeepsTable
<1>1. Init => InboxKnown /\ Table!Init
  BY DEF Init, InboxKnown, Table!Init
<1>2. IndInv /\ InboxKnown /\ [Next]_vars => InboxKnown'
  BY NextInboxKnown DEF IndInv
<1>3. IndInv /\ InboxKnown /\ [Next]_vars => [Table!Next]_Rows
  BY TableStep DEF IndInv
<1> QED BY <1>1, <1>2, <1>3, Invariance, PTL DEF Spec, KeepsTable, Table!Spec, Rows
=============================================================================
