------------------------ MODULE InMemoryServer_proofs ------------------------
(***************************************************************************)
(* Proofs about InMemoryServer: its types; pending_jobs counts every job   *)
(* that is still to be done, and at 0 everybody owed an announcement has   *)
(* had it; the pages and the vector of followers agree with the query and  *)
(* the table of the Workers deployment; and only a DELETE makes the        *)
(* unwraps of an activity about an article fail.                           *)
(***************************************************************************)
EXTENDS InMemoryServer, FiniteSetTheorems, SequenceTheorems, WellFoundedInduction, TLAPS

\* s is a sequence, of whatever elements.
ASequence(s) == s \in Seq({s[k] : k \in DOMAIN s})

\* The inductive invariant behind PendingCountsAll: the counter is exact, and
\* what it is compared with is a number.
CountInv ==
    /\ ASequence(channel)
    /\ handler \in [Handlers -> Jobs \cup {None}]
    /\ pc \in Consumer
    /\ PendingCountsAll

\* The inductive invariant behind DownOnlyIfRemoved: an activity that passed
\* the check of the author finds its article, or a DELETE came in between.
EffectInv ==
    /\ pc = "effect" => job.slug \in articles \cup removed
    /\ pc = "accept" => job.type \notin AboutArticle
    /\ DownOnlyIfRemoved

-------------------------------------------------------------------------------
(* Sequences and sets.                                                     *)

LEMMA SequenceOfItsElements ==
    ASSUME NEW T, NEW t \in Seq(T)
    PROVE  ASequence(t)
<1>1. t \in [1..Len(t) -> T] /\ Len(t) \in Nat
  OBVIOUS
<1>2. t \in [1..Len(t) -> {t[k] : k \in DOMAIN t}]
  BY <1>1
<1> QED BY <1>1, <1>2 DEF ASequence

\* Sending appends one job.
LEMMA AppendAddsOne ==
    ASSUME NEW s, NEW x, ASequence(s)
    PROVE  ASequence(Append(s, x)) /\ Len(Append(s, x)) = Len(s) + 1
<1> DEFINE S == {s[k] : k \in DOMAIN s}
           T == S \cup {x}
           t == Append(s, x)
<1>1. s \in Seq(T)
  <2>1. s \in Seq(S)
    BY DEF ASequence
  <2> QED BY <2>1
<1>2. x \in T
  OBVIOUS
<1>3. /\ t \in Seq(T) /\ Len(t) = Len(s) + 1 /\ Len(t) \in Nat
  BY <1>1, <1>2
<1> QED BY <1>3, SequenceOfItsElements

\* Receiving takes one job.
LEMMA TailTakesOne ==
    ASSUME NEW s, ASequence(s), s # <<>>
    PROVE  ASequence(Tail(s)) /\ Len(Tail(s)) = Len(s) - 1
<1> DEFINE S == {s[k] : k \in DOMAIN s}
           t == Tail(s)
<1>1. s \in Seq(S)
  BY DEF ASequence
<1>2. t \in Seq(S) /\ Len(t) = Len(s) - 1 /\ Len(t) \in Nat
  BY <1>1
<1> QED BY <1>2, SequenceOfItsElements

\* The length of a sequence is a number.
LEMMA LengthIsNumber ==
    ASSUME NEW s, ASequence(s)
    PROVE  Len(s) \in Nat
BY DEF ASequence

\* The handlers between count and send are finitely many.
LEMMA CountedFinite == IsFiniteSet(Counted) /\ Cardinality(Counted) \in Nat
<1>1. Counted \subseteq Handlers
  BY DEF Counted
<1> QED BY <1>1, HandlersAssumption, FS_Subset, FS_CardinalityType

-------------------------------------------------------------------------------
(* The counter.                                                            *)

LEMMA CountInit == Init => CountInv
<1> SUFFICES ASSUME Init PROVE CountInv
  OBVIOUS
<1>1. Counted = {}
  BY DEF Init, Counted
<1>2. Cardinality(Counted) = 0
  BY <1>1, FS_EmptySet
<1>3. ASequence(channel) /\ Len(channel) = 0
  BY DEF Init, ASequence
<1> QED BY <1>2, <1>3 DEF Init, CountInv, PendingCountsAll, InHand, Consumer

\* A request raises the counter before it adds its job.
LEMMA CountStepHandlers ==
    ASSUME CountInv, NEW h \in Handlers,
           (\E j \in Jobs : Count(h, j)) \/ Send(h)
    PROVE  CountInv'
<1>1. ASequence(channel) /\ handler \in [Handlers -> Jobs \cup {None}] /\ pc \in Consumer
  BY DEF CountInv
<1>2. pending = Len(channel) + Cardinality(Counted) + InHand
  BY DEF CountInv, PendingCountsAll
<1>3. Len(channel) \in Nat /\ Cardinality(Counted) \in Nat /\ IsFiniteSet(Counted)
  BY <1>1, LengthIsNumber, CountedFinite
<1>4. InHand \in Nat
  BY DEF InHand
<1>5. CASE \E j \in Jobs : Count(h, j)
  <2>1. PICK j \in Jobs : Count(h, j)
    BY <1>5
  <2>2. j # None
    BY JobsAssumption, NoneAssumption
  <2>3. handler' = [handler EXCEPT ![h] = j] /\ handler[h] = None
    BY <2>1 DEF Count
  <2>4. h \notin Counted /\ Counted' = Counted \cup {h}
    BY <2>2, <2>3, <1>1 DEF Counted
  <2>5. Cardinality(Counted') = Cardinality(Counted) + 1
    BY <2>4, <1>3, FS_AddElement
  <2>6. pending' = pending + 1 /\ channel' = channel /\ pc' = pc /\ InHand' = InHand
    BY <2>1 DEF Count, consumer, InHand
  <2>7. pending' = Len(channel') + Cardinality(Counted') + InHand'
    BY <2>5, <2>6, <1>2, <1>3, <1>4
  <2>8. handler' \in [Handlers -> Jobs \cup {None}]
    BY <2>3, <1>1
  <2> QED BY <2>6, <2>7, <2>8, <1>1 DEF CountInv, PendingCountsAll
<1>6. CASE Send(h)
  <2>1. handler' = [handler EXCEPT ![h] = None] /\ handler[h] # None
    BY <1>6 DEF Send
  <2>2. h \in Counted /\ Counted' = Counted \ {h}
    BY <2>1, <1>1 DEF Counted
  <2>3. Cardinality(Counted') = Cardinality(Counted) - 1
    BY <2>2, <1>3, FS_RemoveElement
  <2>4. ASequence(channel') /\ Len(channel') = Len(channel) + 1
    BY <1>6, <1>1, AppendAddsOne DEF Send
  <2>5. pending' = pending /\ pc' = pc /\ InHand' = InHand
    BY <1>6 DEF Send, consumer, InHand
  <2>6. Cardinality(Counted') \in Int
    BY <2>3, <1>3
  <2>7. pending' = Len(channel') + Cardinality(Counted') + InHand'
    BY <2>3, <2>4, <2>5, <2>6, <1>2, <1>3, <1>4
  <2>8. handler' \in [Handlers -> Jobs \cup {None}]
    BY <2>1, <1>1
  <2> QED BY <2>4, <2>5, <2>7, <2>8, <1>1 DEF CountInv, PendingCountsAll
<1> QED BY <1>5, <1>6

\* The consumer: InHand follows the counter and the channel.
LEMMA CountStepConsumer ==
    ASSUME CountInv, Consume
    PROVE  CountInv'
<1>1. ASequence(channel) /\ handler \in [Handlers -> Jobs \cup {None}] /\ pc \in Consumer
  BY DEF CountInv
<1>2. pending = Len(channel) + Cardinality(Counted) + InHand
  BY DEF CountInv, PendingCountsAll
<1>3. Len(channel) \in Nat /\ Cardinality(Counted) \in Nat
  BY <1>1, LengthIsNumber, CountedFinite
<1>4. handler' = handler /\ Counted' = Counted
  BY DEF Consume, Receive, CheckAuthor, Effect, Panic, Follow, PostAccept, UndoFollow, ToAll, Batch, Post,
         CountOwn, SendOwn, Finish, Counted
<1>5. CASE Receive
  <2>1. ASequence(channel') /\ Len(channel') = Len(channel) - 1
    BY <1>5, <1>1, TailTakesOne DEF Receive
  <2>2. pending' = pending /\ pc' = "start" /\ InHand = 0 /\ InHand' = 1
    BY <1>5 DEF Receive, InHand
  <2>3. pending' = Len(channel') + Cardinality(Counted') + InHand'
    BY <2>1, <2>2, <1>2, <1>3, <1>4
  <2> QED BY <2>1, <2>2, <2>3, <1>1, <1>4 DEF CountInv, PendingCountsAll, Consumer
<1>6. CASE CheckAuthor \/ Effect \/ Panic \/ Follow \/ PostAccept \/ UndoFollow \/ ToAll \/ Batch \/ Post
  <2>1. /\ pending' = pending /\ channel' = channel
        /\ pc \in {"start", "effect", "accept"}
        /\ pc' \in {"effect", "accept", "processed", "enqueue", "down"}
    BY <1>6 DEF CheckAuthor, Effect, Panic, Follow, PostAccept, UndoFollow, ToAll, Batch, Post, Starts
  <2>2. InHand = 1 /\ InHand' = 1
    BY <2>1 DEF InHand
  <2>3. pending' = Len(channel') + Cardinality(Counted') + InHand'
    BY <2>1, <2>2, <1>2, <1>4
  <2> QED BY <2>1, <2>3, <1>1, <1>4 DEF CountInv, PendingCountsAll, Consumer
<1>7. CASE CountOwn
  <2>1. pending' = pending + 1 /\ channel' = channel /\ pc' = "send" /\ InHand = 1 /\ InHand' = 2
    BY <1>7 DEF CountOwn, InHand
  <2>2. pending' = Len(channel') + Cardinality(Counted') + InHand'
    BY <2>1, <1>2, <1>3, <1>4
  <2> QED BY <2>1, <2>2, <1>1, <1>4 DEF CountInv, PendingCountsAll, Consumer
<1>8. CASE SendOwn
  <2>1. ASequence(channel') /\ Len(channel') = Len(channel) + 1
    BY <1>8, <1>1, AppendAddsOne DEF SendOwn
  <2>2. pending' = pending /\ pc' = "enqueue" /\ InHand = 2 /\ InHand' = 1
    BY <1>8 DEF SendOwn, InHand
  <2>3. pending' = Len(channel') + Cardinality(Counted') + InHand'
    BY <2>1, <2>2, <1>2, <1>3, <1>4
  <2> QED BY <2>1, <2>2, <2>3, <1>1, <1>4 DEF CountInv, PendingCountsAll, Consumer
<1>9. CASE Finish
  <2>1. pending' = pending - 1 /\ channel' = channel /\ pc' = "recv" /\ InHand = 1 /\ InHand' = 0
    BY <1>9 DEF Finish, Done, InHand
  <2>2. pending' = Len(channel') + Cardinality(Counted') + InHand'
    BY <2>1, <1>2, <1>3, <1>4
  <2> QED BY <2>1, <2>2, <1>1, <1>4 DEF CountInv, PendingCountsAll, Consumer
<1> QED BY <1>5, <1>6, <1>7, <1>8, <1>9 DEF Consume

LEMMA CountStep == CountInv /\ [Next]_vars => CountInv'
<1> SUFFICES ASSUME CountInv, [Next]_vars PROVE CountInv'
  OBVIOUS
<1>1. CASE Consume
  BY <1>1, CountStepConsumer
<1>2. ASSUME NEW h \in Handlers, Send(h) \/ \E j \in Jobs : Count(h, j) PROVE CountInv'
  BY <1>2, CountStepHandlers
<1>3. CASE \E s \in Slugs : DeleteArticle(s)
  BY <1>3 DEF DeleteArticle, CountInv, PendingCountsAll, Counted, InHand, consumer
<1>4. CASE UNCHANGED vars
  BY <1>4 DEF vars, CountInv, PendingCountsAll, Counted, InHand, consumer
<1> QED BY <1>1, <1>2, <1>3, <1>4 DEF Next, Request

\* pending_jobs is exact: at every moment it is the number of jobs a handler
\* has counted, the channel holds, or the consumer has in hand or is sending.
THEOREM PendingIsExact == Spec => []PendingCountsAll
<1>1. CountInv => PendingCountsAll
  BY DEF CountInv
<1> QED BY <1>1, CountInit, CountStep, PTL DEF Spec

\* /job_queue_len shows 0 only when no job is left anywhere: none in the
\* channel, none between count and send, and the consumer waits.
NothingLeft ==
    pending = 0 => channel = <<>> /\ pc = "recv" /\ \A h \in Handlers : handler[h] = None

THEOREM ZeroMeansNothingLeft == Spec => []NothingLeft
<1>1. CountInv => NothingLeft
  <2> SUFFICES ASSUME CountInv, pending = 0
               PROVE  channel = <<>> /\ pc = "recv" /\ \A h \in Handlers : handler[h] = None
    BY DEF NothingLeft
  <2>1. Len(channel) \in Nat /\ Cardinality(Counted) \in Nat /\ IsFiniteSet(Counted)
    BY LengthIsNumber, CountedFinite DEF CountInv
  <2>2. InHand \in Nat /\ (InHand = 0 => pc = "recv")
    BY DEF InHand
  <2>3. 0 = Len(channel) + Cardinality(Counted) + InHand
    BY DEF CountInv, PendingCountsAll
  <2>4. Len(channel) = 0 /\ Cardinality(Counted) = 0 /\ InHand = 0
    BY <2>1, <2>2, <2>3
  <2>5. Counted = {}
    BY <2>1, <2>4, FS_EmptySet
  <2>6. channel = <<>>
    BY <2>4 DEF CountInv, ASequence
  <2> QED BY <2>2, <2>4, <2>5, <2>6 DEF Counted
<1> QED BY <1>1, CountInit, CountStep, PTL DEF Spec

-------------------------------------------------------------------------------
(* The unwraps.                                                            *)

LEMMA EffectStep == EffectInv /\ [Next]_vars => EffectInv'
<1> SUFFICES ASSUME EffectInv, [Next]_vars PROVE EffectInv'
  OBVIOUS
<1>1. CASE CheckAuthor
  BY <1>1 DEF CheckAuthor, EffectInv, DownOnlyIfRemoved, maps, history
<1>2. CASE Panic
  BY <1>2 DEF Panic, EffectInv, DownOnlyIfRemoved, Starts, AboutArticle, maps, history
<1>3. CASE Follow
  BY <1>3 DEF Follow, EffectInv, DownOnlyIfRemoved, Starts, AboutArticle
<1>4. CASE PostAccept
  BY <1>4 DEF PostAccept, EffectInv, DownOnlyIfRemoved, maps, history
<1>5. CASE Receive \/ Effect \/ UndoFollow \/ ToAll \/ Batch \/ Post \/ CountOwn \/ SendOwn \/ Finish
  <2>1. pc' \notin {"effect", "accept", "down"}
    BY <1>5 DEF Receive, Effect, UndoFollow, ToAll, Batch, Post, CountOwn, SendOwn, Finish
  <2> QED BY <2>1 DEF EffectInv, DownOnlyIfRemoved
<1>6. ASSUME NEW h \in Handlers, Send(h) \/ \E j \in Jobs : Count(h, j) PROVE EffectInv'
  <2>1. pc' = pc /\ job' = job /\ articles' = articles /\ removed' = removed
    BY <1>6 DEF Send, Count, maps, consumer, history
  <2> QED BY <2>1 DEF EffectInv, DownOnlyIfRemoved
<1>7. ASSUME NEW s \in Slugs, DeleteArticle(s) PROVE EffectInv'
  BY <1>7 DEF DeleteArticle, EffectInv, DownOnlyIfRemoved, consumer
<1>8. CASE UNCHANGED vars
  BY <1>8 DEF vars, EffectInv, DownOnlyIfRemoved, maps, consumer, history
<1> QED BY <1>1, <1>2, <1>3, <1>4, <1>5, <1>6, <1>7, <1>8 DEF Next, Consume, Request

\* Only a DELETE between the check of the author and the effect makes an
\* activity about an article end the server.
THEOREM OnlyRemovalEndsServer == Spec => []DownOnlyIfRemoved
<1>1. Init => EffectInv
  BY DEF Init, EffectInv, DownOnlyIfRemoved
<1>2. EffectInv => DownOnlyIfRemoved
  BY DEF EffectInv
<1> QED BY <1>1, <1>2, EffectStep, PTL DEF Spec

-------------------------------------------------------------------------------
(* Pages.                                                                  *)

\* s lists the elements of S in ascending order.
Lists(s, S) ==
    /\ s \in [1..Cardinality(S) -> S]
    /\ \A j, k \in DOMAIN s : j < k => s[j] < s[k]

\* A finite set of numbers can be sorted: each is where its rank says.
LEMMA SortedExists ==
    ASSUME NEW S \in SUBSET Nat, IsFiniteSet(S)
    PROVE  \E s : Lists(s, S)
<1> DEFINE n == Cardinality(S)
           Below(x) == {y \in S : y < x}
           rank == [x \in S |-> Cardinality(Below(x)) + 1]
           s == [k \in 1..n |-> CHOOSE x \in S : rank[x] = k]
<1>1. n \in Nat
  BY FS_CardinalityType
<1>2. ASSUME NEW x \in S
      PROVE  IsFiniteSet(Below(x)) /\ Cardinality(Below(x)) \in Nat /\ Cardinality(Below(x)) < n
  <2>1. IsFiniteSet(Below(x)) /\ Cardinality(Below(x)) \in Nat
    BY FS_Subset, FS_CardinalityType
  <2>2. Below(x) \subseteq S \ {x}
    OBVIOUS
  <2>3. IsFiniteSet(S \ {x}) /\ Cardinality(S \ {x}) = n - 1
    BY FS_RemoveElement
  <2>4. Cardinality(Below(x)) <= n - 1
    BY <2>2, <2>3, FS_Subset
  <2> QED BY <1>1, <2>1, <2>4
<1>3. ASSUME NEW x \in S, NEW y \in S, x < y
      PROVE  Cardinality(Below(x)) < Cardinality(Below(y))
  <2>1. Below(x) \cup {x} \subseteq Below(y) /\ x \notin Below(x)
    <3>1. \A z \in S : z \in Nat
      OBVIOUS
    <3>2. \A z \in S : z < x => z < y
      BY <1>3, <3>1
    <3>3. ~(x < x)
      BY <3>1
    <3> QED BY <1>3, <3>2, <3>3
  <2>2. /\ IsFiniteSet(Below(x) \cup {x})
        /\ Cardinality(Below(x) \cup {x}) = Cardinality(Below(x)) + 1
    BY <1>2, <2>1, FS_AddElement
  <2>3. Cardinality(Below(x) \cup {x}) <= Cardinality(Below(y))
    BY <1>2, <2>1, FS_Subset
  <2> QED BY <1>2, <2>2, <2>3
<1> HIDE DEF Below, n
<1>4. rank \in [S -> 1..n]
  BY <1>1, <1>2
<1>5. \A x, y \in S : rank[x] = rank[y] => x = y
  <2> SUFFICES ASSUME NEW x \in S, NEW y \in S, rank[x] = rank[y], x < y
               PROVE  FALSE
    <3>1. \A x, y \in S : x = y \/ x < y \/ y < x
      OBVIOUS
    <3> QED BY <3>1
  <2>1. Cardinality(Below(x)) < Cardinality(Below(y))
    BY <1>3
  <2> QED BY <1>2, <2>1
<1>6. \A x, y \in S : rank[x] < rank[y] => x < y
  <2> SUFFICES ASSUME NEW x \in S, NEW y \in S, rank[x] < rank[y], ~(x < y)
               PROVE  FALSE
    OBVIOUS
  <2>1. x = y \/ y < x
    OBVIOUS
  <2>2. y < x => Cardinality(Below(y)) < Cardinality(Below(x))
    BY <1>3
  <2> QED BY <1>2, <2>1, <2>2
<1>7. rank \in Surjection(S, 1..n)
  <2>1. IsFiniteSet(1..n) /\ Cardinality(1..n) = n
    BY <1>1, FS_Interval
  <2>2. rank \in Injection(S, 1..n)
    BY <1>4, <1>5 DEF Injection, IsInjective
  <2> QED BY <2>1, <2>2, FS_Injection DEF n
<1> HIDE DEF rank
<1>8. \A k \in 1..n : \E x \in S : rank[x] = k
  BY <1>7 DEF Surjection
<1>9. \A k \in 1..n : s[k] \in S /\ rank[s[k]] = k
  BY <1>8
<1> HIDE DEF s
<1>10. s \in [1..n -> S]
  <2>1. DOMAIN s = 1..n /\ s = [k \in 1..n |-> s[k]]
    BY DEF s
  <2> QED BY <1>9, <2>1
<1>11. \A j, k \in 1..n : j < k => s[j] < s[k]
  <2> SUFFICES ASSUME NEW j \in 1..n, NEW k \in 1..n, j < k PROVE s[j] < s[k]
    OBVIOUS
  <2>1. s[j] \in S /\ s[k] \in S /\ rank[s[j]] = j /\ rank[s[k]] = k
    BY <1>9
  <2> QED BY <1>6, <2>1
<1> QED BY <1>10, <1>11 DEF Lists, n

LEMMA AscendingLists ==
    ASSUME NEW S \in SUBSET Nat, IsFiniteSet(S)
    PROVE  Lists(Ascending(S), S)
<1> DEFINE n == Cardinality(S)
<1>1. \E t \in [1..n -> S] : \A j, k \in DOMAIN t : j < k => t[j] < t[k]
  BY SortedExists DEF Lists
<1>2. Ascending(S) = CHOOSE t \in [1..n -> S] : \A j, k \in DOMAIN t : j < k => t[j] < t[k]
  BY DEF Ascending
<1> DEFINE s == Ascending(S)
<1> HIDE DEF s, n
<1>3. s \in [1..n -> S] /\ \A j, k \in DOMAIN s : j < k => s[j] < s[k]
  BY <1>1, <1>2 DEF s
<1> QED BY <1>3 DEF Lists, n, s

LEMMA InboxesFinite ==
    ASSUME NEW vec \in Seq(Follower)
    PROVE  InboxesIn(vec) \in SUBSET Inboxes /\ IsFiniteSet(InboxesIn(vec))
<1>1. DOMAIN vec = 1..Len(vec) /\ Len(vec) \in Nat
  OBVIOUS
<1>2. IsFiniteSet(DOMAIN vec)
  BY <1>1, FS_Interval
<1>3. PICK f \in [DOMAIN vec -> InboxesIn(vec)] : \A k \in DOMAIN vec : f[k] = vec[k].inbox
  <2> DEFINE g == [k \in DOMAIN vec |-> vec[k].inbox]
  <2>1. g \in [DOMAIN vec -> InboxesIn(vec)]
    BY DEF InboxesIn
  <2> QED BY <2>1
<1>4. \A k \in DOMAIN vec : vec[k].inbox \in Inboxes
  <2>1. \A k \in DOMAIN vec : vec[k] \in Follower
    BY <1>1
  <2> QED BY <2>1 DEF Follower
<1>5. InboxesIn(vec) \subseteq Inboxes
  BY <1>4 DEF InboxesIn
<1>6. f \in Surjection(DOMAIN vec, InboxesIn(vec))
  BY <1>3 DEF Surjection, InboxesIn
<1>7. IsFiniteSet(InboxesIn(vec))
  BY <1>2, <1>6, FS_Surjection
<1> QED BY <1>5, <1>7

\* sort and dedup list every inbox once, in ascending order.
LEMMA UniqueLists ==
    ASSUME NEW vec \in Seq(Follower)
    PROVE  /\ Lists(Unique(vec), InboxesIn(vec))
           /\ \A i \in InboxesIn(vec) : \E k \in DOMAIN Unique(vec) : Unique(vec)[k] = i
<1> DEFINE S == InboxesIn(vec)
           n == Cardinality(S)
           s == Unique(vec)
<1>1. S \in SUBSET Nat /\ IsFiniteSet(S) /\ n \in Nat
  BY InboxesFinite, InboxesAssumption, FS_CardinalityType
<1>2. Lists(s, S)
  BY <1>1, AscendingLists DEF Unique
<1> HIDE DEF s, S
<1>3. s \in [1..n -> S] /\ \A j, k \in 1..n : j < k => s[j] < s[k]
  BY <1>2 DEF Lists
<1>4. \A j, k \in 1..n : s[j] = s[k] => j = k
  <2> SUFFICES ASSUME NEW j \in 1..n, NEW k \in 1..n, s[j] = s[k], j < k
               PROVE  FALSE
    <3>1. \A j, k \in 1..n : j = k \/ j < k \/ k < j
      BY <1>1
    <3> QED BY <3>1
  <2>1. s[j] < s[k] /\ s[j] \in Nat /\ s[k] \in Nat
    BY <1>1, <1>3
  <2> QED BY <2>1
<1>5. s \in Injection(1..n, S)
  BY <1>3, <1>4 DEF Injection, IsInjective
<1>6. Cardinality(1..n) = n
  BY <1>1, FS_Interval
<1>7. s \in Surjection(1..n, S)
  BY <1>1, <1>5, <1>6, FS_Injection
<1>8. \A i \in S : \E k \in DOMAIN s : s[k] = i
  BY <1>3, <1>7 DEF Surjection
<1> QED BY <1>2, <1>8 DEF s, S

\* The binary search skips what is not above the cursor, and nothing else.
LEMMA SkipSkips ==
    ASSUME NEW n \in Nat, NEW s \in [1..n -> Nat], NEW last \in Nat,
           \A j, k \in 1..n : j < k => s[j] < s[k]
    PROVE  Skip(s, last) \in 0..n /\ \A k \in 1..n : s[k] <= last <=> k <= Skip(s, last)
<1> DEFINE B == {k \in DOMAIN s : s[k] < last}
           b == Cardinality(B)
<1>1. IsFiniteSet(1..n) /\ Cardinality(1..n) = n /\ B \subseteq 1..n
  BY FS_Interval
<1>2. IsFiniteSet(B) /\ b \in Nat /\ b <= n
  BY <1>1, FS_Subset, FS_CardinalityType
<1>3. ASSUME NEW k \in 1..n
      PROVE  k \in B <=> k <= b
  <2>1. ASSUME k \in B
        PROVE  k <= b
    <3>1. \A j \in 1..k : j \in B
      <4> SUFFICES ASSUME NEW j \in 1..k PROVE s[j] < last
        OBVIOUS
      <4>1. s[k] < last /\ s[k] \in Nat /\ s[j] \in Nat
        BY <2>1
      <4>2. j = k \/ s[j] < s[k]
        OBVIOUS
      <4> QED BY <4>1, <4>2
    <3>2. IsFiniteSet(1..k) /\ Cardinality(1..k) = k
      BY FS_Interval
    <3>3. 1..k \in SUBSET B
      BY <3>1
    <3> HIDE DEF B
    <3> QED BY <1>2, <3>2, <3>3, FS_Subset
  <2>2. ASSUME k \notin B
        PROVE  b < k
    <3>1. \A j \in B : j \in 1..(k - 1)
      <4> SUFFICES ASSUME NEW j \in B PROVE j < k
        OBVIOUS
      <4>1. s[j] < last /\ s[j] \in Nat /\ s[k] \in Nat /\ ~(s[k] < last) /\ j \in 1..n
        BY <2>2
      <4>2. j = k \/ j < k \/ s[k] < s[j]
        BY <4>1
      <4> QED BY <4>1, <4>2
    <3>2. IsFiniteSet(1..(k - 1)) /\ Cardinality(1..(k - 1)) = k - 1
      BY FS_Interval
    <3>3. B \in SUBSET (1..(k - 1))
      BY <3>1
    <3> HIDE DEF B
    <3>4. Cardinality(B) <= Cardinality(1..(k - 1))
      BY <3>2, <3>3, FS_Subset
    <3> QED BY <1>2, <3>2, <3>4
  <2> QED BY <1>2, <2>1, <2>2
<1>4. DOMAIN s = 1..n
  OBVIOUS
<1>5. \A k \in 1..n : s[k] < last <=> k <= b
  <2> SUFFICES ASSUME NEW k \in 1..n PROVE s[k] < last <=> k <= b
    OBVIOUS
  <2>1. k \in B <=> s[k] < last
    OBVIOUS
  <2> HIDE DEF B
  <2> QED BY <1>3, <2>1
<1>6. Skip(s, last) = IF \E k \in 1..n : s[k] = last THEN b + 1 ELSE b
  BY <1>4 DEF Skip
<1> HIDE DEF b
<1>7. CASE \E k \in 1..n : s[k] = last
  <2>1. PICK j \in 1..n : s[j] = last
    BY <1>7
  <2>2. ~(j <= b)
    BY <1>5, <2>1
  <2>3. ASSUME b + 1 < j
        PROVE  FALSE
    <3>1. b + 1 \in 1..n
      BY <1>2, <2>3
    <3>2. s[b + 1] < s[j]
      BY <2>3, <3>1
    <3>3. b + 1 <= b
      BY <1>5, <2>1, <3>1, <3>2
    <3> QED BY <1>2, <3>3
  <2>4. j = b + 1
    BY <1>2, <2>2, <2>3
  <2>5. \A k \in 1..n : s[k] <= last <=> k <= j
    <3> SUFFICES ASSUME NEW k \in 1..n PROVE s[k] <= last <=> k <= j
      OBVIOUS
    <3>1. /\ k < j => s[k] < last
          /\ j < k => last < s[k]
          /\ k = j => s[k] = last
      BY <2>1
    <3>2. s[k] \in Nat
      OBVIOUS
    <3> QED BY <3>1, <3>2
  <2>6. Skip(s, last) = j
    BY <1>6, <1>7, <2>4
  <2> QED BY <2>5, <2>6
<1>8. CASE ~\E k \in 1..n : s[k] = last
  <2>1. Skip(s, last) = b
    BY <1>6, <1>8
  <2>2. \A k \in 1..n : s[k] <= last <=> s[k] < last
    <3> SUFFICES ASSUME NEW k \in 1..n PROVE s[k] <= last <=> s[k] < last
      OBVIOUS
    <3>1. s[k] # last /\ s[k] \in Nat
      BY <1>8
    <3> QED BY <3>1
  <2> QED BY <1>2, <1>5, <2>1, <2>2
<1> QED BY <1>7, <1>8

\* A page is what comes after the skipped part of the list, as much as fits.
LEMMA MemoryPageIsPage ==
    ASSUME NEW vec \in Seq(Follower), NEW last \in Cursors
    PROVE  /\ IsPage(MemoryPage(vec, last), InboxesIn(vec), last)
           /\ MemoryPage(vec, last) \in Seq(Inboxes)
<1> DEFINE S == InboxesIn(vec)
           n == Cardinality(S)
           unique == Unique(vec)
           start == Skip(unique, last)
           room == n - start
           size == IF room < BatchSize THEN room ELSE BatchSize
           page == MemoryPage(vec, last)
<1>1. S \in SUBSET Inboxes /\ S \in SUBSET Nat /\ n \in Nat
  BY InboxesFinite, InboxesAssumption, FS_CardinalityType
<1>2. /\ unique \in [1..n -> S]
      /\ \A j, k \in 1..n : j < k => unique[j] < unique[k]
      /\ \A i \in S : \E k \in 1..n : unique[k] = i
  BY UniqueLists DEF Lists
<1>3. last \in Nat /\ BatchSize \in Nat \ {0}
  BY InboxesAssumption, BatchSizeAssumption DEF Cursors, EmptyString
<1> HIDE DEF S, n, unique
<1>4. start \in 0..n /\ \A k \in 1..n : unique[k] <= last <=> k <= start
  <2>1. unique \in [1..n -> Nat]
    BY <1>1, <1>2
  <2> QED BY <1>1, <1>2, <1>3, <2>1, SkipSkips
<1>5. page = SubSeq(unique, start + 1, start + size)
  <2>1. Len(unique) = n
    BY <1>1, <1>2
  <2> QED BY <2>1 DEF MemoryPage, unique
<1> HIDE DEF start, page
<1>6. size \in Nat /\ size <= BatchSize /\ start + size <= n /\ start \in Nat
  BY <1>1, <1>3, <1>4
<1>7. /\ size < BatchSize => start + size = n
      /\ size = BatchSize => size # 0
  BY <1>1, <1>3, <1>4
<1> HIDE DEF size
<1>8. /\ page \in Seq(S) /\ Len(page) = size
      /\ \A i \in 1..size : page[i] = unique[start + i]
  <2> DEFINE from == start + 1
             to == start + size
  <2>1. from \in Int /\ to \in Int /\ \A i \in from..to : unique[i] \in S
    BY <1>1, <1>2, <1>6
  <2>2. /\ IF from <= to THEN to - from + 1 = size ELSE 0 = size
        /\ to - from + 1 = size
        /\ \A i \in 1..size : from + i - 1 = start + i
    BY <1>6
  <2>3. page = SubSeq(unique, from, to)
    BY <1>5
  <2> HIDE DEF from, to
  <2>4. /\ SubSeq(unique, from, to) \in Seq(S)
        /\ Len(SubSeq(unique, from, to)) = IF from <= to THEN to - from + 1 ELSE 0
        /\ \A i \in 1..(to - from + 1) : SubSeq(unique, from, to)[i] = unique[from + i - 1]
    BY <2>1, SubSeqProperties
  <2> QED BY <2>2, <2>3, <2>4
<1>9. \A i \in 1..size : start + i \in 1..n
  BY <1>1, <1>6
<1>10. \A k \in 1..size : page[k] \in S /\ page[k] > last
  <2> SUFFICES ASSUME NEW k \in 1..size PROVE page[k] \in S /\ page[k] > last
    OBVIOUS
  <2>1. page[k] = unique[start + k] /\ start + k \in 1..n /\ ~(start + k <= start)
    <3>1. page[k] = unique[start + k]
      BY <1>8
    <3>2. start + k \in 1..n
      BY <1>9
    <3>3. k \in Nat /\ k >= 1 /\ start \in Nat
      BY <1>6
    <3> QED BY <3>1, <3>2, <3>3
  <2>2. ~(unique[start + k] <= last) /\ unique[start + k] \in S /\ unique[start + k] \in Nat
    BY <1>1, <1>2, <1>4, <2>1
  <2> QED BY <1>3, <2>1, <2>2
<1>11. \A j, k \in 1..size : j < k => page[j] < page[k]
  <2> SUFFICES ASSUME NEW j \in 1..size, NEW k \in 1..size, j < k PROVE page[j] < page[k]
    OBVIOUS
  <2>1. page[j] = unique[start + j] /\ page[k] = unique[start + k] /\ start + j < start + k
    <3>1. page[j] = unique[start + j] /\ page[k] = unique[start + k]
      BY <1>8
    <3>2. j \in Nat /\ k \in Nat /\ start \in Nat
      BY <1>6
    <3> QED BY <3>1, <3>2
  <2>2. start + j \in 1..n /\ start + k \in 1..n
    BY <1>9
  <2> QED BY <1>2, <2>1, <2>2
<1>12. ASSUME NEW i \in S, i > last, Len(page) = BatchSize => i <= NextLast(page)
       PROVE  \E k \in 1..size : page[k] = i
  <2>1. PICK m \in 1..n : unique[m] = i
    BY <1>2
  <2>2. ~(m <= start)
    BY <1>1, <1>3, <1>4, <1>12, <2>1
  <2>3. m <= start + size
    <3>1. CASE size < BatchSize
      BY <1>7, <2>1, <3>1
    <3>2. CASE size = BatchSize
      <4>1. size \in 1..size
        BY <1>6, <1>7, <3>2
      <4>2. page # <<>>
        BY <1>7, <1>8, <3>2
      <4>3. NextLast(page) = page[size]
        BY <1>8, <4>2 DEF NextLast
      <4>4. i <= unique[start + size]
        BY <1>8, <1>12, <3>2, <4>1, <4>3
      <4>5. ~(unique[start + size] < unique[m])
        <5>1. unique[start + size] \in Nat /\ unique[m] \in Nat
          BY <1>1, <1>2, <1>9, <4>1
        <5> QED BY <2>1, <4>4, <5>1
      <4>6. ~(start + size < m)
        BY <1>2, <1>9, <4>1, <4>5
      <4> QED BY <1>6, <4>6
    <3> QED BY <1>3, <1>6, <3>1, <3>2
  <2>4. m - start \in 1..size /\ start + (m - start) = m
    BY <1>6, <2>2, <2>3
  <2> QED BY <1>8, <2>1, <2>4
<1>13. IsPage(page, S, last)
  BY <1>8, <1>10, <1>11, <1>12 DEF IsPage, IsFull
<1>14. page \in Seq(Inboxes)
  BY <1>1, <1>8
<1> QED BY <1>13, <1>14 DEF page, S

-------------------------------------------------------------------------------
(* Rows.                                                                   *)

\* A set of numbers has a least one.
LEMMA LeastNumber ==
    ASSUME NEW S \in SUBSET Nat, S # {}
    PROVE  \E m \in S : \A k \in S : m <= k
<1> DEFINE R == OpToRel(<, Nat)
<1>1. IsWellFoundedOn(R, Nat)
  BY NatLessThanWellFounded
<1>2. \A x, y \in Nat : x < y => <<x, y>> \in R
  BY DEF OpToRel
<1> HIDE DEF R
<1>3. PICK m \in S : \A k \in S : ~(<<k, m>> \in R)
  BY <1>1, WFMin
<1>4. ASSUME NEW k \in S
      PROVE  m <= k
  <2>1. m \in Nat /\ k \in Nat /\ ~(k < m)
    BY <1>2, <1>3
  <2> QED BY <2>1
<1> QED BY <1>4

\* remove takes out the row it found, and those behind it move up.
LEMMA WithoutAtRemoves ==
    ASSUME NEW T, NEW vec \in Seq(T), NEW gone \in SUBSET (DOMAIN vec), gone # {}
    PROVE  /\ WithoutAt(vec, gone) \in Seq(T)
           /\ \E f \in gone :
                 /\ Len(WithoutAt(vec, gone)) = Len(vec) - 1
                 /\ \A k \in 1..(Len(vec) - 1) :
                       WithoutAt(vec, gone)[k] = IF k < f THEN vec[k] ELSE vec[k + 1]
<1>1. DOMAIN vec = 1..Len(vec) /\ Len(vec) \in Nat
  OBVIOUS
<1>2. \E m \in gone : \A k \in gone : m <= k
  BY <1>1, LeastNumber
<1> DEFINE f == CHOOSE k \in gone : \A j \in gone : k <= j
           n == Len(vec)
           front == SubSeq(vec, 1, f - 1)
           back == SubSeq(vec, f + 1, n)
<1>3. f \in gone
  BY <1>2
<1>4. WithoutAt(vec, gone) = front \o back
  BY DEF WithoutAt
<1> HIDE DEF f
<1>5. f \in 1..n /\ n \in Nat /\ f - 1 \in Int /\ f + 1 \in Int
  BY <1>1, <1>3
<1>6. front \in Seq(T) /\ Len(front) = f - 1 /\ \A k \in 1..(f - 1) : front[k] = vec[k]
  <2>1. \A k \in 1..(f - 1) : vec[k] \in T
    BY <1>1, <1>5
  <2>2. /\ front \in Seq(T)
        /\ Len(front) = IF 1 <= f - 1 THEN f - 1 - 1 + 1 ELSE 0
        /\ \A i \in 1..(f - 1 - 1 + 1) : front[i] = vec[1 + i - 1]
    BY <1>5, <2>1, SubSeqProperties
  <2> HIDE DEF front
  <2> QED BY <1>5, <2>2
<1>7. back \in Seq(T) /\ Len(back) = n - f /\ \A k \in 1..(n - f) : back[k] = vec[f + k]
  <2>1. \A k \in (f + 1)..n : vec[k] \in T
    BY <1>1, <1>5
  <2> DEFINE from == f + 1
  <2>2. from \in Int /\ n \in Int
    BY <1>5
  <2>3. from = f + 1
    OBVIOUS
  <2>4. back = SubSeq(vec, from, n)
    OBVIOUS
  <2> HIDE DEF from, back
  <2>5. /\ SubSeq(vec, from, n) \in Seq(T)
        /\ Len(SubSeq(vec, from, n)) = IF from <= n THEN n - from + 1 ELSE 0
        /\ \A i \in 1..(n - from + 1) : SubSeq(vec, from, n)[i] = vec[from + i - 1]
    BY <2>1, <2>2, <2>3, SubSeqProperties
  <2>6. /\ (IF from <= n THEN n - from + 1 ELSE 0) = n - f
        /\ n - from + 1 = n - f
        /\ \A k \in 1..(n - f) : from + k - 1 = f + k
    BY <1>5, <2>3
  <2> QED BY <2>4, <2>5, <2>6
<1> HIDE DEF front, back, n
<1>8. /\ front \o back \in Seq(T)
      /\ Len(front \o back) = Len(front) + Len(back)
      /\ \A i \in 1..(Len(front) + Len(back)) :
            (front \o back)[i] = IF i <= Len(front) THEN front[i] ELSE back[i - Len(front)]
  BY <1>6, <1>7, ConcatProperties
<1>9. Len(front) + Len(back) = n - 1
  BY <1>5, <1>6, <1>7
<1>10. ASSUME NEW k \in 1..(n - 1)
       PROVE  (front \o back)[k] = IF k < f THEN vec[k] ELSE vec[k + 1]
  <2>1. (front \o back)[k] = IF k <= f - 1 THEN front[k] ELSE back[k - (f - 1)]
    BY <1>6, <1>8, <1>9
  <2>2. CASE k < f
    BY <1>5, <1>6, <2>1, <2>2
  <2>3. CASE ~(k < f)
    <3>1. k - (f - 1) \in 1..(n - f) /\ ~(k <= f - 1) /\ f + (k - (f - 1)) = k + 1
      BY <1>5, <2>3
    <3> QED BY <1>7, <2>1, <2>3, <3>1
  <2> QED BY <2>2, <2>3
<1> QED BY <1>3, <1>4, <1>8, <1>9, <1>10 DEF n

\* A row an actor has left is another one than the row removed; and every row
\* but that one is still there.
LEMMA WithoutActorRows ==
    ASSUME NEW vec \in Seq(Follower), NEW a \in Actors
    PROVE  LET w == WithoutActor(vec, a)
               rows == {k \in DOMAIN vec : vec[k].id = a}
           IN  /\ w \in Seq(Follower)
               /\ ActorsIn(w) \subseteq ActorsIn(vec)
               /\ \A b \in ActorsIn(vec) : b # a => b \in ActorsIn(w)
               /\ (\A j, k \in rows : j = k) => a \notin ActorsIn(w)
               /\ \A b \in Actors :
                     (\A j, k \in DOMAIN vec : vec[j].id = b /\ vec[k].id = b => j = k)
                        => \A j, k \in DOMAIN w : w[j].id = b /\ w[k].id = b => j = k
<1> DEFINE w == WithoutActor(vec, a)
           rows == {k \in DOMAIN vec : vec[k].id = a}
           n == Len(vec)
<1>1. DOMAIN vec = 1..n /\ n \in Nat
  OBVIOUS
<1>2. w = WithoutAt(vec, rows)
  BY DEF WithoutActor
<1>3. CASE rows = {}
  <2>1. w = vec
    BY <1>2, <1>3 DEF WithoutAt
  <2>2. a \notin ActorsIn(vec)
    BY <1>3 DEF ActorsIn
  <2> QED BY <2>1, <2>2
<1>4. CASE rows # {}
  <2>1. /\ w \in Seq(Follower)
        /\ \E f \in rows :
              /\ Len(w) = n - 1
              /\ \A k \in 1..(n - 1) : w[k] = IF k < f THEN vec[k] ELSE vec[k + 1]
    <3>1. rows \in SUBSET (DOMAIN vec)
      OBVIOUS
    <3> HIDE DEF rows, w, n
    <3>2. /\ WithoutAt(vec, rows) \in Seq(Follower)
          /\ \E f \in rows :
                /\ Len(WithoutAt(vec, rows)) = Len(vec) - 1
                /\ \A k \in 1..(Len(vec) - 1) :
                      WithoutAt(vec, rows)[k] = IF k < f THEN vec[k] ELSE vec[k + 1]
      BY <1>4, <3>1, WithoutAtRemoves
    <3> QED BY <1>2, <3>2 DEF n
  <2>2. PICK f \in rows :
              /\ Len(w) = n - 1
              /\ \A k \in 1..(n - 1) : w[k] = IF k < f THEN vec[k] ELSE vec[k + 1]
    BY <2>1
  <2>3. DOMAIN w = 1..(n - 1) /\ f \in 1..n /\ vec[f].id = a
    BY <1>1, <2>1, <2>2
  <2> DEFINE old(k) == IF k < f THEN k ELSE k + 1
  <2>4. \A k \in 1..(n - 1) : old(k) \in 1..n /\ old(k) # f /\ w[k] = vec[old(k)]
    BY <1>1, <2>2, <2>3
  <2>5. \A j, k \in 1..(n - 1) : old(j) = old(k) => j = k
    BY <1>1, <2>3
  <2>6. \A m \in 1..n : m # f => \E k \in 1..(n - 1) : old(k) = m
    <3> SUFFICES ASSUME NEW m \in 1..n, m # f PROVE \E k \in 1..(n - 1) : old(k) = m
      OBVIOUS
    <3>1. CASE m < f
      BY <1>1, <2>3, <3>1
    <3>2. CASE f < m
      <4>1. m - 1 \in 1..(n - 1) /\ old(m - 1) = m
        BY <1>1, <2>3, <3>2
      <4> QED BY <4>1
    <3> QED BY <2>3, <3>1, <3>2
  <2> HIDE DEF w, old, n
  <2>7. ActorsIn(w) \subseteq ActorsIn(vec)
    BY <1>1, <2>3, <2>4 DEF ActorsIn
  <2>8. \A b \in ActorsIn(vec) : b # a => b \in ActorsIn(w)
    <3> SUFFICES ASSUME NEW m \in 1..n, vec[m].id # a PROVE vec[m].id \in ActorsIn(w)
      BY <1>1 DEF ActorsIn
    <3>1. PICK k \in 1..(n - 1) : old(k) = m
      BY <2>3, <2>6
    <3> QED BY <2>3, <2>4, <3>1 DEF ActorsIn
  <2>9. ASSUME \A j, k \in rows : j = k
        PROVE  a \notin ActorsIn(w)
    <3> SUFFICES ASSUME NEW k \in 1..(n - 1), w[k].id = a PROVE FALSE
      BY <2>3 DEF ActorsIn
    <3>1. old(k) \in rows /\ old(k) # f
      BY <1>1, <2>4
    <3> QED BY <2>9, <3>1
  <2>10. ASSUME NEW b \in Actors,
                \A j, k \in DOMAIN vec : vec[j].id = b /\ vec[k].id = b => j = k
         PROVE  \A j, k \in DOMAIN w : w[j].id = b /\ w[k].id = b => j = k
    <3> SUFFICES ASSUME NEW j \in 1..(n - 1), NEW k \in 1..(n - 1), w[j].id = b, w[k].id = b
                 PROVE  j = k
      BY <2>3
    <3>1. old(j) = old(k)
      BY <1>1, <2>4, <2>10
    <3> QED BY <2>5, <3>1
  <2> QED BY <2>1, <2>7, <2>8, <2>9, <2>10 DEF w
<1> QED BY <1>3, <1>4

\* What retain leaves is a vector of the same kind.
LEMMA RetainedIsSequence ==
    ASSUME NEW T, NEW vec \in Seq(T), NEW a
    PROVE  RetainOthers(vec, a) \in Seq(T)
<1> DEFINE K == {k \in DOMAIN vec : vec[k] # a}
           n == Cardinality(K)
           kept == Ascending(K)
<1>1. DOMAIN vec = 1..Len(vec) /\ Len(vec) \in Nat /\ \A k \in DOMAIN vec : vec[k] \in T
  OBVIOUS
<1>2. K \in SUBSET Nat /\ K \subseteq 1..Len(vec)
  BY <1>1
<1>3. IsFiniteSet(K) /\ n \in Nat
  <2>1. IsFiniteSet(1..Len(vec))
    BY <1>1, FS_Interval
  <2> HIDE DEF K
  <2>2. IsFiniteSet(K)
    BY <1>2, <2>1, FS_Subset
  <2> QED BY <2>2, FS_CardinalityType
<1>4. kept \in [1..n -> K]
  BY <1>2, <1>3, AscendingLists DEF Lists
<1>5. RetainOthers(vec, a) = [m \in DOMAIN kept |-> vec[kept[m]]]
  BY DEF RetainOthers
<1>6. \A m \in 1..n : vec[kept[m]] \in T
  BY <1>1, <1>2, <1>4
<1> HIDE DEF kept, n
<1>7. [m \in 1..n |-> vec[kept[m]]] \in Seq(T)
  BY <1>3, <1>6
<1> QED BY <1>4, <1>5, <1>7

-------------------------------------------------------------------------------
(* Jobs are of use to the steps they lead to.                              *)

\* What process_queue takes for granted of a job, by its type.
GoodJob ==
    {j \in Job : /\ j.type \in AboutArticle \cup {"ToAll", "Batch", "Post"} => j.slug \in Slugs
                 /\ j.type # "ToAll" => j.user \in Users
                 /\ j.type \notin {"ToAll", "Batch", "Post"} => j.actor \in Actors}

\* The inductive invariant the others need: where the jobs are, and whose
\* followers the vectors hold.
JobsInv ==
    /\ channel \in Seq(GoodJob)
    /\ handler \in [Handlers -> GoodJob \cup {None}]
    /\ pc \in Consumer
    /\ pc # "recv" => job \in GoodJob
    /\ pc = "effect" => job.type \in AboutArticle
    /\ todo \in Seq(GoodJob)
    /\ pc = "send" => todo # <<>>
    /\ followers \in [Users -> Seq(Follower)]

LEMMA JobsAreGood == Jobs \subseteq GoodJob
<1> SUFFICES ASSUME NEW j \in Jobs PROVE j \in GoodJob
  OBVIOUS
<1>1. j \in Job /\ j.type \notin {"Batch", "Post"}
  BY JobsAssumption
<1>2. j.type \in AboutArticle \cup {"ToAll"} => j.slug \in Slugs
  BY JobsAssumption
<1>3. j.type # "ToAll" => j.user \in Users /\ j.actor \in Actors
  BY JobsAssumption
<1> QED BY <1>1, <1>2, <1>3 DEF GoodJob

LEMMA GoodFanned ==
    ASSUME NEW type \in {"Batch", "Post"}, NEW s \in Slugs, NEW u \in Users, NEW c \in Cursors
    PROVE  Fanned(type, s, u, c) \in GoodJob
<1>1. Fanned(type, s, u, c) \in Job
  BY DEF Fanned, Job, JobTypes
<1> QED BY <1>1 DEF GoodJob, Fanned, AboutArticle

\* A sequence of one element.
LEMMA OneJob ==
    ASSUME NEW T, NEW x \in T
    PROVE  <<x>> \in Seq(T) /\ Len(<<x>>) = 1 /\ <<x>>[1] = x
OBVIOUS

\* The next cursor is one.
LEMMA NextLastIsCursor ==
    ASSUME NEW page \in Seq(Inboxes)
    PROVE  NextLast(page) \in Cursors
<1>1. CASE page = <<>>
  BY <1>1 DEF NextLast, Cursors
<1>2. CASE page # <<>>
  <2>1. Len(page) \in 1..Len(page)
    BY <1>2
  <2> QED BY <1>2, <2>1 DEF NextLast, Cursors
<1> QED BY <1>1, <1>2

\* What a Batch leads to: the jobs after the first, if that is the next Batch,
\* are one Post for each inbox of the page.
LEMMA BatchJobs ==
    ASSUME JobsInv, Batch
    PROVE  /\ job.user \in Users /\ job.slug \in Slugs /\ job.at \in Cursors
           /\ todo' \in Seq(GoodJob)
           /\ LET page == MemoryPage(followers[job.user], job.at)
              IN  /\ page \in Seq(Inboxes)
                  /\ \A k \in DOMAIN page :
                        \E m \in DOMAIN todo' : todo'[m] = Fanned("Post", job.slug, job.user, page[k])
                  /\ IsFull(page) =>
                        \E m \in DOMAIN todo' :
                            todo'[m] = Fanned("Batch", job.slug, job.user, NextLast(page))
<1> DEFINE page == MemoryPage(followers[job.user], job.at)
           posts == [k \in DOMAIN page |-> Fanned("Post", job.slug, job.user, page[k])]
           next == Fanned("Batch", job.slug, job.user, NextLast(page))
           more == IF IsFull(page) THEN <<next>> ELSE <<>>
<1>1. job \in GoodJob /\ job.type = "Batch"
  BY DEF JobsInv, Batch, Starts
<1>2. job.user \in Users /\ job.slug \in Slugs /\ job.at \in Cursors
  BY <1>1 DEF GoodJob, Job
<1>3. page \in Seq(Inboxes)
  BY <1>2, MemoryPageIsPage DEF JobsInv
<1>4. todo' = more \o posts
  BY DEF Batch
<1> HIDE DEF page
<1>5. posts \in Seq(GoodJob) /\ Len(posts) = Len(page)
  <2>1. DOMAIN page = 1..Len(page) /\ Len(page) \in Nat /\ \A k \in DOMAIN page : page[k] \in Cursors
    BY <1>3 DEF Cursors
  <2>2. ASSUME NEW k \in DOMAIN page
        PROVE  Fanned("Post", job.slug, job.user, page[k]) \in GoodJob
    <3>1. page[k] \in Cursors
      BY <2>1
    <3> QED BY <1>2, <3>1, GoodFanned
  <2> QED BY <2>1, <2>2
<1>6. \A k \in DOMAIN page : posts[k] = Fanned("Post", job.slug, job.user, page[k])
  OBVIOUS
<1>7. next \in GoodJob
  BY <1>2, <1>3, NextLastIsCursor, GoodFanned
<1> HIDE DEF posts, next
<1>8. more \in Seq(GoodJob) /\ (IsFull(page) => Len(more) = 1 /\ more[1] = next)
  BY <1>7, OneJob
<1> HIDE DEF more
<1>9. /\ more \o posts \in Seq(GoodJob)
      /\ Len(more \o posts) = Len(more) + Len(posts)
      /\ \A i \in 1..(Len(more) + Len(posts)) :
            (more \o posts)[i] = IF i <= Len(more) THEN more[i] ELSE posts[i - Len(more)]
  BY <1>5, <1>8, ConcatProperties
<1>10. DOMAIN todo' = 1..(Len(more) + Len(posts)) /\ Len(more) \in Nat /\ Len(posts) \in Nat
  BY <1>4, <1>5, <1>8, <1>9
<1>11. ASSUME NEW k \in DOMAIN page
       PROVE  \E m \in DOMAIN todo' : todo'[m] = Fanned("Post", job.slug, job.user, page[k])
  <2>1. k \in 1..Len(posts)
    BY <1>3, <1>5
  <2>2. /\ Len(more) + k \in 1..(Len(more) + Len(posts))
        /\ ~(Len(more) + k <= Len(more))
        /\ Len(more) + k - Len(more) = k
    BY <1>10, <2>1
  <2> DEFINE i == Len(more) + k
  <2>3. (more \o posts)[i] = IF i <= Len(more) THEN more[i] ELSE posts[i - Len(more)]
    BY <1>9, <2>2
  <2>4. todo'[i] = posts[k]
    BY <1>4, <2>2, <2>3
  <2> QED BY <1>6, <1>10, <2>2, <2>4
<1>12. ASSUME IsFull(page)
       PROVE  \E m \in DOMAIN todo' : todo'[m] = next
  <2>1. 1 \in 1..(Len(more) + Len(posts)) /\ 1 <= Len(more)
    BY <1>8, <1>10, <1>12
  <2>2. todo'[1] = next
    BY <1>4, <1>8, <1>9, <1>12, <2>1
  <2> QED BY <1>10, <2>1, <2>2
<1> QED BY <1>2, <1>3, <1>4, <1>9, <1>11, <1>12 DEF page, next

LEMMA JobsInit == Init => JobsInv
<1> SUFFICES ASSUME Init PROVE JobsInv
  OBVIOUS
<1>1. <<>> \in Seq(GoodJob) /\ <<>> \in Seq(Follower)
  OBVIOUS
<1> QED BY <1>1 DEF Init, JobsInv, Consumer

LEMMA JobsStepConsumer ==
    ASSUME JobsInv, Consume
    PROVE  JobsInv'
<1>1. /\ channel \in Seq(GoodJob) /\ todo \in Seq(GoodJob)
      /\ handler \in [Handlers -> GoodJob \cup {None}] /\ pc \in Consumer
      /\ followers \in [Users -> Seq(Follower)]
      /\ pc # "recv" => job \in GoodJob
      /\ pc = "effect" => job.type \in AboutArticle
      /\ pc = "send" => todo # <<>>
  BY DEF JobsInv
<1>2. handler' = handler
  BY DEF Consume, Receive, CheckAuthor, Effect, Panic, Follow, PostAccept, UndoFollow, ToAll, Batch, Post,
         CountOwn, SendOwn, Finish
<1>3. CASE Receive
  <2>1. channel' \in Seq(GoodJob) /\ job' \in GoodJob
    BY <1>1, <1>3, HeadTailProperties DEF Receive
  <2>2. pc' = "start" /\ UNCHANGED <<todo, followers>>
    BY <1>3 DEF Receive, maps
  <2> QED BY <1>1, <1>2, <2>1, <2>2 DEF JobsInv, Consumer
<1>4. CASE CheckAuthor \/ Effect \/ Panic \/ PostAccept \/ Post
  <2>1. /\ UNCHANGED <<channel, todo, job, followers>>
        /\ pc \in {"start", "effect", "accept"} /\ pc' \in {"effect", "processed", "down"}
        /\ pc' = "effect" => job.type \in AboutArticle
    BY <1>4 DEF CheckAuthor, Effect, Panic, PostAccept, Post, Starts, maps
  <2> QED BY <1>1, <1>2, <2>1 DEF JobsInv, Consumer
<1>5. CASE Follow
  <2>1. job \in GoodJob /\ job.type = "Follow"
    BY <1>1, <1>5 DEF Follow, Starts
  <2>2. job.user \in Users /\ job.actor \in Actors
    BY <2>1 DEF GoodJob, AboutArticle
  <2>3. [id |-> job.actor, inbox |-> InboxOf[job.actor]] \in Follower
    BY <2>2, InboxOfAssumption DEF Follower
  <2>4. UNCHANGED <<channel, todo, job>> /\ pc' \in {"accept", "processed"}
    BY <1>5 DEF Follow
  <2>5. followers' \in [Users -> Seq(Follower)]
    <3>1. followers' = followers
          \/ followers' = [followers EXCEPT ![job.user] =
                              Append(@, [id |-> job.actor, inbox |-> InboxOf[job.actor]])]
      BY <1>5 DEF Follow
    <3> DEFINE row == [id |-> job.actor, inbox |-> InboxOf[job.actor]]
    <3>2. Append(followers[job.user], row) \in Seq(Follower)
      <4> HIDE DEF row
      <4>1. row \in Follower
        BY <2>3 DEF row
      <4> QED BY <1>1, <2>2, <4>1
    <3> QED BY <1>1, <2>2, <3>1, <3>2
  <2> QED BY <1>1, <1>2, <2>1, <2>4, <2>5 DEF JobsInv, Consumer
<1>6. CASE UndoFollow
  <2>1. job \in GoodJob /\ job.type = "UndoFollow"
    BY <1>1, <1>6 DEF UndoFollow, Starts
  <2>2. job.user \in Users /\ job.actor \in Actors
    BY <2>1 DEF GoodJob, AboutArticle
  <2>3. UNCHANGED <<channel, todo, job>> /\ pc' = "processed"
    BY <1>6 DEF UndoFollow
  <2>4. WithoutActor(followers[job.user], job.actor) \in Seq(Follower)
    BY <1>1, <2>2, WithoutActorRows
  <2>5. followers' \in [Users -> Seq(Follower)]
    BY <1>1, <1>6, <2>4 DEF UndoFollow
  <2> QED BY <1>1, <1>2, <2>1, <2>3, <2>5 DEF JobsInv, Consumer
<1>7. CASE ToAll
  <2>1. job \in GoodJob /\ job.type = "ToAll"
    BY <1>1, <1>7 DEF ToAll, Starts
  <2>2. job.slug \in Slugs /\ job.user \in Users \cup {None} /\ AuthorOf[job.slug] \in Users
    BY <2>1, AuthorOfAssumption DEF GoodJob, Job
  <2>3. UNCHANGED <<channel, job, followers>> /\ pc' = "enqueue"
    BY <1>7 DEF ToAll, maps
  <2>4. todo' \in Seq(GoodJob)
    <3>1. \E u \in Users : todo' \in {<<>>, <<Fanned("Batch", job.slug, u, EmptyString)>>}
      <4>1. CASE job.user # None
        BY <1>7, <2>2, <4>1 DEF ToAll
      <4>2. CASE job.user = None /\ job.slug \in articles
        BY <1>7, <2>2, <4>2 DEF ToAll
      <4>3. CASE job.user = None /\ job.slug \notin articles
        BY <1>7, <2>2, <4>3 DEF ToAll
      <4> QED BY <4>1, <4>2, <4>3
    <3>2. PICK u \in Users : todo' \in {<<>>, <<Fanned("Batch", job.slug, u, EmptyString)>>}
      BY <3>1
    <3>3. Fanned("Batch", job.slug, u, EmptyString) \in GoodJob
      BY <2>2, GoodFanned DEF Cursors
    <3>4. <<Fanned("Batch", job.slug, u, EmptyString)>> \in Seq(GoodJob) /\ <<>> \in Seq(GoodJob)
      BY <3>3, OneJob
    <3> QED BY <3>2, <3>4
  <2> QED BY <1>1, <1>2, <2>1, <2>3, <2>4 DEF JobsInv, Consumer
<1>8. CASE Batch
  <2>1. job \in GoodJob /\ UNCHANGED <<channel, job, followers>> /\ pc' = "enqueue"
    BY <1>1, <1>8 DEF Batch, Starts, maps
  <2>2. todo' \in Seq(GoodJob)
    BY <1>8, BatchJobs
  <2> QED BY <1>1, <1>2, <2>1, <2>2 DEF JobsInv, Consumer
<1>9. CASE CountOwn
  <2>1. /\ job \in GoodJob /\ UNCHANGED <<channel, job, todo, followers>>
        /\ pc' = "send" /\ todo # <<>>
    BY <1>1, <1>9 DEF CountOwn, maps
  <2> QED BY <1>1, <1>2, <2>1 DEF JobsInv, Consumer
<1>10. CASE SendOwn
  <2>1. job \in GoodJob /\ UNCHANGED <<job, followers>> /\ pc' = "enqueue" /\ todo # <<>>
    BY <1>1, <1>10 DEF SendOwn, maps
  <2>2. Head(todo) \in GoodJob /\ todo' \in Seq(GoodJob)
    BY <1>1, <1>10, <2>1, HeadTailProperties DEF SendOwn
  <2>3. channel' \in Seq(GoodJob)
    BY <1>1, <1>10, <2>2 DEF SendOwn
  <2> QED BY <1>1, <1>2, <2>1, <2>2, <2>3 DEF JobsInv, Consumer
<1>11. CASE Finish
  <2>1. UNCHANGED <<channel, todo, followers>> /\ pc' = "recv"
    BY <1>11 DEF Finish, maps
  <2> QED BY <1>1, <1>2, <2>1 DEF JobsInv, Consumer
<1> QED BY <1>3, <1>4, <1>5, <1>6, <1>7, <1>8, <1>9, <1>10, <1>11 DEF Consume

LEMMA JobsStep == JobsInv /\ [Next]_vars => JobsInv'
<1> SUFFICES ASSUME JobsInv, [Next]_vars PROVE JobsInv'
  OBVIOUS
<1>1. CASE Consume
  BY <1>1, JobsStepConsumer
<1>2. ASSUME NEW h \in Handlers, NEW j \in Jobs, Count(h, j)
      PROVE  JobsInv'
  <2>1. j \in GoodJob
    BY JobsAreGood
  <2>2. handler' \in [Handlers -> GoodJob \cup {None}]
    BY <1>2, <2>1 DEF Count, JobsInv
  <2> QED BY <1>2, <2>2 DEF Count, JobsInv, maps, consumer
<1>3. ASSUME NEW h \in Handlers, Send(h)
      PROVE  JobsInv'
  <2>1. handler[h] \in GoodJob
    BY <1>3 DEF Send, JobsInv
  <2>2. channel' \in Seq(GoodJob)
    BY <1>3, <2>1 DEF Send, JobsInv
  <2>3. handler' \in [Handlers -> GoodJob \cup {None}]
    BY <1>3 DEF Send, JobsInv
  <2> QED BY <1>3, <2>2, <2>3 DEF Send, JobsInv, maps, consumer
<1>4. CASE \E s \in Slugs : DeleteArticle(s)
  BY <1>4 DEF DeleteArticle, JobsInv, consumer
<1>5. CASE UNCHANGED vars
  BY <1>5 DEF vars, JobsInv, maps, consumer
<1> QED BY <1>1, <1>2, <1>3, <1>4, <1>5 DEF Next, Request

\* get_followers_inbox_batch answers at every cursor what the query of the
\* Workers deployment would: sort, dedup, binary_search and the ArrayVec make
\* the page IsPage asks for, whatever rows the vector holds.
THEOREM MemoryPagesAgree == Spec => []PagesAgree
<1>1. JobsInv => PagesAgree
  BY MemoryPageIsPage DEF JobsInv, PagesAgree
<1> QED BY <1>1, JobsInit, JobsStep, PTL DEF Spec

-------------------------------------------------------------------------------
(* The vector and the table.                                               *)

\* The inductive invariant behind AgreesWithTable: an actor that has not
\* followed while following has at most one row, so that removing the first is
\* removing all.
AgreesInv ==
    \A u \in Users, a \in Actors :
        <<u, a>> \notin again =>
            /\ \A j, k \in DOMAIN followers[u] :
                  followers[u][j].id = a /\ followers[u][k].id = a => j = k
            /\ a \in ActorsIn(followers[u]) <=> \E r \in table : r[1] = u /\ r[2] = a

\* Appending a row.
LEMMA AppendRow ==
    ASSUME NEW vec \in Seq(Follower), NEW x \in Follower
    PROVE  /\ ActorsIn(Append(vec, x)) = ActorsIn(vec) \cup {x.id}
           /\ \A j \in DOMAIN Append(vec, x) :
                 \/ j \in DOMAIN vec /\ Append(vec, x)[j] = vec[j]
                 \/ j = Len(vec) + 1 /\ Append(vec, x)[j] = x
           /\ InboxesIn(vec) \subseteq InboxesIn(Append(vec, x))
<1> DEFINE w == Append(vec, x)
           n == Len(vec)
<1>1. DOMAIN vec = 1..n /\ n \in Nat /\ DOMAIN w = 1..(n + 1)
  OBVIOUS
<1>2. w[n + 1] = x /\ \A k \in 1..n : w[k] = vec[k]
  OBVIOUS
<1>3. \A k \in 1..(n + 1) : k \in 1..n \/ k = n + 1
  BY <1>1
<1>4. n + 1 \in 1..(n + 1) /\ 1..n \subseteq 1..(n + 1)
  BY <1>1
<1> HIDE DEF w, n
<1>5. \A b : b \in ActorsIn(w) <=> b \in ActorsIn(vec) \/ b = x.id
  BY <1>1, <1>2, <1>3, <1>4 DEF ActorsIn
<1>6. InboxesIn(vec) \subseteq InboxesIn(w)
  BY <1>1, <1>2, <1>4 DEF InboxesIn
<1> QED BY <1>1, <1>2, <1>3, <1>5, <1>6 DEF w, n

\* A Follow adds a row; who had one already is in again.
LEMMA AgreesStepFollow ==
    ASSUME JobsInv, AgreesInv, Follow
    PROVE  AgreesInv'
<1>1. job \in GoodJob /\ job.type = "Follow"
  BY DEF JobsInv, Follow, Starts
<1> DEFINE v == job.user
           b == job.actor
           row == [id |-> b, inbox |-> InboxOf[b]]
<1>2. v \in Users /\ b \in Actors /\ row \in Follower /\ row.id = b
  BY <1>1, InboxOfAssumption DEF GoodJob, AboutArticle, Follower
<1>3. CASE UNCHANGED <<followers, table, again>>
  BY <1>3 DEF AgreesInv
<1>4. CASE /\ followers' = [followers EXCEPT ![v] = Append(@, row)]
           /\ table' = table \cup {<<v, b, InboxOf[b]>>}
           /\ again' = again \cup IF b \in ActorsIn(followers[v]) THEN {<<v, b>>} ELSE {}
  <2> HIDE DEF v, b, row
  <2>1. /\ followers \in [Users -> Seq(Follower)]
        /\ followers'[v] = Append(followers[v], row)
        /\ \A u \in Users : u # v => followers'[u] = followers[u]
    BY <1>2, <1>4 DEF JobsInv
  <2>2. /\ ActorsIn(followers'[v]) = ActorsIn(followers[v]) \cup {b}
        /\ \A j \in DOMAIN followers'[v] :
              \/ j \in DOMAIN followers[v] /\ followers'[v][j] = followers[v][j]
              \/ j = Len(followers[v]) + 1 /\ followers'[v][j] = row
    BY <1>2, <2>1, AppendRow
  <2>3. ASSUME NEW u \in Users, NEW a \in Actors, <<u, a>> \notin again'
        PROVE  /\ \A j, k \in DOMAIN followers'[u] :
                     followers'[u][j].id = a /\ followers'[u][k].id = a => j = k
               /\ a \in ActorsIn(followers'[u]) <=> \E r \in table' : r[1] = u /\ r[2] = a
    <3>1. <<u, a>> \notin again
      BY <1>4, <2>3
    <3>2. /\ \A j, k \in DOMAIN followers[u] :
                followers[u][j].id = a /\ followers[u][k].id = a => j = k
          /\ a \in ActorsIn(followers[u]) <=> \E r \in table : r[1] = u /\ r[2] = a
      BY <3>1 DEF AgreesInv
    <3>3. CASE u # v
      <4>1. (\E r \in table' : r[1] = u /\ r[2] = a) <=> (\E r \in table : r[1] = u /\ r[2] = a)
        BY <1>4, <3>3
      <4> QED BY <2>1, <3>2, <3>3, <4>1
    <3>4. CASE u = v /\ a # b
      <4>1. (\E r \in table' : r[1] = u /\ r[2] = a) <=> (\E r \in table : r[1] = u /\ r[2] = a)
        BY <1>4, <3>4
      <4>2. a \in ActorsIn(followers'[u]) <=> a \in ActorsIn(followers[u])
        BY <2>2, <3>4
      <4>3. \A j \in DOMAIN followers'[u] :
               followers'[u][j].id = a =>
                  j \in DOMAIN followers[u] /\ followers'[u][j] = followers[u][j]
        BY <1>2, <2>2, <3>4
      <4> QED BY <3>2, <4>1, <4>2, <4>3
    <3>5. CASE u = v /\ a = b
      <4>1. b \notin ActorsIn(followers[v])
        BY <1>4, <2>3, <3>5
      <4>2. \A j \in DOMAIN followers[v] : followers[v][j].id # b
        BY <4>1 DEF ActorsIn
      <4>3. <<v, b, InboxOf[b]>> \in table' /\ <<v, b, InboxOf[b]>>[1] = v
            /\ <<v, b, InboxOf[b]>>[2] = b
        BY <1>4
      <4>4. \A j \in DOMAIN followers'[v] : followers'[v][j].id = b => j = Len(followers[v]) + 1
        BY <2>2, <4>2
      <4> QED BY <2>2, <3>5, <4>3, <4>4
    <3> QED BY <3>3, <3>4, <3>5
  <2> QED BY <2>3 DEF AgreesInv
<1> QED BY <1>3, <1>4 DEF Follow

\* An Undo takes one row: the only one, unless the actor stays in again.
LEMMA AgreesStepUndo ==
    ASSUME JobsInv, AgreesInv, UndoFollow
    PROVE  AgreesInv'
<1>1. job \in GoodJob /\ job.type = "UndoFollow"
  BY DEF JobsInv, UndoFollow, Starts
<1> DEFINE v == job.user
           b == job.actor
           vec == followers[v]
           w == WithoutActor(vec, b)
<1>2. v \in Users /\ b \in Actors
  BY <1>1 DEF GoodJob, AboutArticle
<1>3. /\ followers'[v] = w
      /\ \A u \in Users : u # v => followers'[u] = followers[u]
      /\ vec \in Seq(Follower)
  BY <1>2 DEF UndoFollow, JobsInv
<1>4. /\ table' = {r \in table : ~(r[1] = v /\ r[2] = b)}
      /\ again' = IF b \in ActorsIn(followers'[v]) THEN again ELSE again \ {<<v, b>>}
  BY DEF UndoFollow
<1>5. /\ ActorsIn(w) \subseteq ActorsIn(vec)
      /\ \A a \in ActorsIn(vec) : a # b => a \in ActorsIn(w)
      /\ (\A j, k \in DOMAIN vec : vec[j].id = b /\ vec[k].id = b => j = k) => b \notin ActorsIn(w)
      /\ \A a \in Actors :
            (\A j, k \in DOMAIN vec : vec[j].id = a /\ vec[k].id = a => j = k)
               => \A j, k \in DOMAIN w : w[j].id = a /\ w[k].id = a => j = k
  BY <1>2, <1>3, WithoutActorRows
<1> HIDE DEF w, v, b
<1>6. ASSUME NEW u \in Users, NEW a \in Actors, <<u, a>> \notin again'
      PROVE  /\ \A j, k \in DOMAIN followers'[u] :
                   followers'[u][j].id = a /\ followers'[u][k].id = a => j = k
             /\ a \in ActorsIn(followers'[u]) <=> \E r \in table' : r[1] = u /\ r[2] = a
  <2>1. CASE u = v /\ a = b
    <3>1. b \notin ActorsIn(w)
      <4>1. CASE <<v, b>> \in again
        BY <1>3, <1>4, <1>6, <2>1, <4>1
      <4>2. CASE <<v, b>> \notin again
        BY <1>2, <1>5, <4>2 DEF AgreesInv
      <4> QED BY <4>1, <4>2
    <3>2. \A j \in DOMAIN w : w[j].id # b
      BY <3>1 DEF ActorsIn
    <3> QED BY <1>3, <1>4, <2>1, <3>1, <3>2
  <2>2. CASE u # v \/ a # b
    <3>1. <<u, a>> \notin again
      BY <1>4, <1>6, <2>2
    <3>2. /\ \A j, k \in DOMAIN followers[u] :
                followers[u][j].id = a /\ followers[u][k].id = a => j = k
          /\ a \in ActorsIn(followers[u]) <=> \E r \in table : r[1] = u /\ r[2] = a
      BY <3>1 DEF AgreesInv
    <3>3. (\E r \in table' : r[1] = u /\ r[2] = a) <=> (\E r \in table : r[1] = u /\ r[2] = a)
      BY <1>4, <2>2
    <3>4. CASE u # v
      BY <1>3, <3>2, <3>3, <3>4
    <3>5. CASE u = v
      BY <1>3, <1>5, <2>2, <3>2, <3>3, <3>5
    <3> QED BY <3>4, <3>5
  <2> QED BY <2>1, <2>2
<1> QED BY <1>6 DEF AgreesInv

LEMMA AgreesStep == JobsInv /\ AgreesInv /\ [Next]_vars => AgreesInv'
<1> SUFFICES ASSUME JobsInv, AgreesInv, [Next]_vars PROVE AgreesInv'
  OBVIOUS
<1>1. CASE Follow
  BY <1>1, AgreesStepFollow
<1>2. CASE UndoFollow
  BY <1>2, AgreesStepUndo
<1>3. CASE UNCHANGED <<followers, table, again>>
  BY <1>3 DEF AgreesInv
<1>4. Follow \/ UndoFollow \/ UNCHANGED <<followers, table, again>>
  BY DEF Next, Consume, Request, Receive, CheckAuthor, Effect, Panic, PostAccept, ToAll, Batch, Post,
         CountOwn, SendOwn, Finish, Count, Send, DeleteArticle, vars, maps, history
<1> QED BY <1>1, <1>2, <1>3, <1>4

\* The vector agrees with the table of the Workers deployment about who
\* follows, except for an actor that followed while it was following.
THEOREM VectorAgreesWithTable == Spec => []AgreesWithTable
<1>1. Init => AgreesInv
  BY DEF Init, AgreesInv, ActorsIn
<1>2. AgreesInv => AgreesWithTable
  BY DEF AgreesInv, AgreesWithTable
<1> QED BY <1>1, <1>2, JobsInit, JobsStep, AgreesStep, PTL DEF Spec

-------------------------------------------------------------------------------
(* What the end-to-end tests wait for.                                     *)

\* j still leads to a POST to inbox i about s: it is that Post, or a Batch of
\* the walk that has not passed i.
Covers(j, u, s, i) ==
    /\ j.user = u
    /\ j.slug = s
    /\ \/ j.type = "Post" /\ j.at = i
       \/ j.type = "Batch" /\ j.at < i

StillCovered(u, s, i) ==
    \/ \E k \in DOMAIN channel : Covers(channel[k], u, s, i)
    \/ \E k \in DOMAIN todo : Covers(todo[k], u, s, i)
    \/ pc \in {"start", "down"} /\ Covers(job, u, s, i)

\* The inductive invariant behind SettledMeansDone: whoever is owed a POST
\* follows, and has had it or is still covered by a job.
OwedInv ==
    /\ pc \notin {"enqueue", "send"} => todo = <<>>
    /\ owed \subseteq Users \X Slugs \X Inboxes
    /\ \A p \in owed :
          /\ p[3] \in InboxesIn(followers[p[1]])
          /\ p \in posted \/ StillCovered(p[1], p[2], p[3])

LEMMA AppendKeeps ==
    ASSUME NEW T, NEW s \in Seq(T), NEW x \in T, NEW w, w = Append(s, x)
    PROVE  /\ \A k \in DOMAIN s : \E m \in DOMAIN w : w[m] = s[k]
           /\ \E m \in DOMAIN w : w[m] = x
<1> DEFINE n == Len(s)
<1>1. n \in Nat /\ DOMAIN s = 1..n /\ DOMAIN w = 1..(n + 1)
  OBVIOUS
<1>2. w[n + 1] = x /\ \A k \in 1..n : w[k] = s[k]
  OBVIOUS
<1>3. n + 1 \in 1..(n + 1) /\ 1..n \subseteq 1..(n + 1)
  BY <1>1
<1> HIDE DEF n
<1>4. \A k \in DOMAIN s : \E m \in DOMAIN w : w[m] = s[k]
  BY <1>1, <1>2, <1>3
<1>5. \E m \in DOMAIN w : w[m] = x
  BY <1>1, <1>2, <1>3
<1> QED BY <1>4, <1>5

LEMMA TailKeeps ==
    ASSUME NEW T, NEW s \in Seq(T), s # <<>>
    PROVE  /\ Head(s) \in T /\ Tail(s) \in Seq(T)
           /\ \A k \in DOMAIN s : s[k] = Head(s) \/ \E m \in DOMAIN Tail(s) : Tail(s)[m] = s[k]
<1>1. /\ Head(s) \in T /\ Tail(s) \in Seq(T) /\ Len(Tail(s)) = Len(s) - 1
      /\ \A i \in 1..Len(Tail(s)) : Tail(s)[i] = s[i + 1]
  BY HeadTailProperties
<1>2. Head(s) = s[1] /\ DOMAIN s = 1..Len(s) /\ Len(s) \in Nat /\ DOMAIN Tail(s) = 1..(Len(s) - 1)
  BY <1>1
<1>3. ASSUME NEW k \in 1..Len(s), k # 1
      PROVE  \E m \in DOMAIN Tail(s) : Tail(s)[m] = s[k]
  <2>1. k - 1 \in 1..(Len(s) - 1) /\ k - 1 + 1 = k
    BY <1>2, <1>3
  <2>2. Tail(s)[k - 1] = s[k]
    BY <1>1, <2>1
  <2> QED BY <1>2, <2>1, <2>2
<1> QED BY <1>1, <1>2, <1>3

\* What a page leaves out is for the Batches to come.
LEMMA OwedStepBatch ==
    ASSUME JobsInv, OwedInv, Batch
    PROVE  OwedInv'
<1> DEFINE page == MemoryPage(followers[job.user], job.at)
<1>1. /\ job.user \in Users /\ job.slug \in Slugs /\ job.at \in Cursors
      /\ page \in Seq(Inboxes)
      /\ \A k \in DOMAIN page :
            \E m \in DOMAIN todo' : todo'[m] = Fanned("Post", job.slug, job.user, page[k])
      /\ IsFull(page) =>
            \E m \in DOMAIN todo' : todo'[m] = Fanned("Batch", job.slug, job.user, NextLast(page))
  BY BatchJobs
<1>2. IsPage(page, InboxesIn(followers[job.user]), job.at)
  BY <1>1, MemoryPageIsPage DEF JobsInv
<1>3. /\ pc = "start" /\ pc' = "enqueue" /\ job.type = "Batch" /\ todo = <<>>
      /\ UNCHANGED <<followers, owed, posted, channel>>
  BY DEF Batch, Starts, OwedInv, maps, history
<1> HIDE DEF page
<1>4. ASSUME NEW p \in owed, p \notin posted
      PROVE  StillCovered(p[1], p[2], p[3])'
  <2>1. StillCovered(p[1], p[2], p[3]) /\ p[3] \in InboxesIn(followers[p[1]])
        /\ p[1] \in Users /\ p[2] \in Slugs /\ p[3] \in Inboxes
    BY <1>4 DEF OwedInv
  <2>2. CASE \E k \in DOMAIN channel : Covers(channel[k], p[1], p[2], p[3])
    BY <1>3, <2>2 DEF StillCovered, Covers
  <2>3. CASE Covers(job, p[1], p[2], p[3])
    <3>1. p[1] = job.user /\ p[2] = job.slug /\ job.at < p[3]
      BY <1>3, <2>3 DEF Covers
    <3>2. p[3] \in Nat /\ job.at \in Nat /\ NextLast(page) \in Nat
      <4>1. NextLast(page) \in Cursors
        BY <1>1, NextLastIsCursor
      <4>2. Cursors \subseteq Nat
        BY InboxesAssumption DEF Cursors, EmptyString
      <4> QED BY <1>1, <2>1, <4>1, <4>2 DEF Cursors
    <3>3. CASE \E k \in 1..Len(page) : page[k] = p[3]
      <4>1. PICK k \in DOMAIN page : page[k] = p[3]
        BY <1>1, <3>3
      <4>2. PICK m \in DOMAIN todo' : todo'[m] = Fanned("Post", job.slug, job.user, p[3])
        BY <1>1, <4>1
      <4>3. Covers(todo'[m], p[1], p[2], p[3])
        BY <3>1, <4>2 DEF Covers, Fanned
      <4> QED BY <4>3 DEF StillCovered, Covers
    <3>4. CASE ~\E k \in 1..Len(page) : page[k] = p[3]
      <4>1. IsFull(page) /\ ~(p[3] <= NextLast(page))
        BY <1>2, <2>1, <3>1, <3>2, <3>4 DEF IsPage
      <4>2. PICK m \in DOMAIN todo' : todo'[m] = Fanned("Batch", job.slug, job.user, NextLast(page))
        BY <1>1, <4>1
      <4>3. NextLast(page) < p[3]
        BY <3>2, <4>1
      <4>4. Covers(todo'[m], p[1], p[2], p[3])
        BY <3>1, <4>2, <4>3 DEF Covers, Fanned
      <4> QED BY <4>4 DEF StillCovered, Covers
    <3> QED BY <3>3, <3>4
  <2> QED BY <1>3, <2>1, <2>2, <2>3 DEF StillCovered
<1> QED BY <1>3, <1>4 DEF OwedInv

\* A walk starts below every inbox.
LEMMA OwedStepToAll ==
    ASSUME JobsInv, OwedInv, ToAll
    PROVE  OwedInv'
<1>1. /\ pc = "start" /\ pc' = "enqueue" /\ job.type = "ToAll" /\ todo = <<>>
      /\ UNCHANGED <<followers, posted, channel, job>>
  BY DEF ToAll, Starts, OwedInv, maps
<1>2. job.slug \in Slugs /\ job.user \in Users \cup {None} /\ AuthorOf[job.slug] \in Users
  BY <1>1, AuthorOfAssumption DEF JobsInv, GoodJob, Job
<1>3. None \notin Users
  BY NoneAssumption
<1>4. ASSUME NEW p \in owed
      PROVE  p[3] \in InboxesIn(followers'[p[1]]) /\ (p \in posted' \/ StillCovered(p[1], p[2], p[3])')
  <2>1. p[3] \in InboxesIn(followers[p[1]]) /\ (p \in posted \/ StillCovered(p[1], p[2], p[3]))
    BY <1>4 DEF OwedInv
  <2>2. StillCovered(p[1], p[2], p[3]) => \E k \in DOMAIN channel : Covers(channel[k], p[1], p[2], p[3])
    BY <1>1 DEF StillCovered, Covers
  <2> QED BY <1>1, <2>1, <2>2 DEF StillCovered, Covers
<1>5. ASSUME NEW u \in Users,
             todo' = <<Fanned("Batch", job.slug, u, EmptyString)>>,
             owed' = owed \cup ({u} \X {job.slug} \X InboxesIn(followers[u]))
      PROVE  OwedInv'
  <2>1. followers[u] \in Seq(Follower)
    BY DEF JobsInv
  <2>2. InboxesIn(followers[u]) \in SUBSET Inboxes
    BY <2>1, InboxesFinite
  <2>3. ASSUME NEW i \in InboxesIn(followers[u])
        PROVE  StillCovered(u, job.slug, i)'
    <3>1. 1 \in DOMAIN todo' /\ todo'[1] = Fanned("Batch", job.slug, u, EmptyString)
      BY <1>5
    <3>2. i \in Nat \ {0}
      BY <2>2, InboxesAssumption
    <3>3. EmptyString < i
      BY <3>2 DEF EmptyString
    <3>4. Covers(todo'[1], u, job.slug, i)
      BY <3>1, <3>3 DEF Covers, Fanned
    <3> QED BY <1>1, <3>1, <3>4 DEF StillCovered, Covers
  <2>4. ASSUME NEW p \in owed', p \notin owed
        PROVE  p[3] \in InboxesIn(followers'[p[1]]) /\ StillCovered(p[1], p[2], p[3])'
    <3>1. p \in {u} \X {job.slug} \X InboxesIn(followers[u])
      BY <1>5, <2>4
    <3>2. p[1] = u /\ p[2] = job.slug /\ p[3] \in InboxesIn(followers[u])
      BY <3>1
    <3> QED BY <1>1, <2>3, <3>2
  <2>5. owed' \subseteq Users \X Slugs \X Inboxes
    BY <1>2, <1>5, <2>2 DEF OwedInv
  <2> QED BY <1>1, <1>4, <2>4, <2>5 DEF OwedInv
<1>6. ASSUME todo' = <<>>, owed' = owed
      PROVE  OwedInv'
  BY <1>1, <1>4, <1>6 DEF OwedInv
<1>7. CASE job.user # None
  BY <1>2, <1>5, <1>7 DEF ToAll
<1>8. CASE job.user = None /\ job.slug \in articles
  <2>1. AuthorOf[job.slug] # None
    BY <1>2, <1>3
  <2> QED BY <1>2, <1>5, <1>8, <2>1 DEF ToAll
<1>9. CASE job.user = None /\ job.slug \notin articles
  BY <1>6, <1>9 DEF ToAll
<1> QED BY <1>7, <1>8, <1>9

\* A step that takes no follower away and lets no job that covers vanish.
LEMMA OwedFrame ==
    ASSUME OwedInv, owed' = owed, posted' = posted,
           \A u \in Users : InboxesIn(followers[u]) \subseteq InboxesIn(followers'[u]),
           pc' \notin {"enqueue", "send"} => todo' = <<>>,
           \A u, s, i : StillCovered(u, s, i) => StillCovered(u, s, i)'
    PROVE  OwedInv'
<1> SUFFICES ASSUME NEW p \in owed
             PROVE  /\ p[3] \in InboxesIn(followers'[p[1]])
                    /\ p \in posted \/ StillCovered(p[1], p[2], p[3])'
  BY DEF OwedInv
<1>1. p[1] \in Users
  BY DEF OwedInv
<1> QED BY <1>1 DEF OwedInv

LEMMA OwedStepConsumer ==
    ASSUME JobsInv, OwedInv, Consume
    PROVE  OwedInv'
<1>1. /\ channel \in Seq(GoodJob) /\ todo \in Seq(GoodJob)
      /\ followers \in [Users -> Seq(Follower)]
      /\ pc \notin {"enqueue", "send"} => todo = <<>>
  BY DEF JobsInv, OwedInv
<1>2. CASE Receive
  <2>1. channel # <<>> /\ channel' = Tail(channel) /\ job' = Head(channel) /\ pc = "recv" /\ pc' = "start"
        /\ UNCHANGED <<followers, owed, posted, todo>>
    BY <1>2 DEF Receive, maps
  <2>2. \A k \in DOMAIN channel :
           channel[k] = job' \/ \E m \in DOMAIN channel' : channel'[m] = channel[k]
    BY <1>1, <2>1, TailKeeps
  <2>3. \A u, s, i : StillCovered(u, s, i) => StillCovered(u, s, i)'
    BY <2>1, <2>2 DEF StillCovered, Covers
  <2> QED BY <1>1, <2>1, <2>3, OwedFrame
<1>3. CASE CheckAuthor \/ Effect \/ Panic \/ PostAccept
  <2>1. /\ UNCHANGED <<followers, owed, posted, todo, channel, job>>
        /\ pc \in {"start", "effect", "accept"} /\ pc' \in {"effect", "processed", "down"}
        /\ pc' = "down" \/ pc \in {"effect", "accept"} \/ job.type \in AboutArticle
    BY <1>3 DEF CheckAuthor, Effect, Panic, PostAccept, Starts, maps, history
  <2>2. \A u, s, i : StillCovered(u, s, i) => StillCovered(u, s, i)'
    BY <2>1 DEF StillCovered, Covers, AboutArticle
  <2> QED BY <1>1, <2>1, <2>2, OwedFrame
<1>4. CASE Follow
  <2>1. /\ UNCHANGED <<owed, posted, todo, channel, job>> /\ job \in GoodJob /\ job.type = "Follow"
        /\ pc = "start" /\ pc' \in {"accept", "processed"}
    BY <1>4 DEF Follow, Starts, JobsInv
  <2>2. job.user \in Users /\ job.actor \in Actors
    BY <2>1 DEF GoodJob, AboutArticle
  <2> DEFINE row == [id |-> job.actor, inbox |-> InboxOf[job.actor]]
  <2>3. row \in Follower
    BY <2>2, InboxOfAssumption DEF Follower
  <2>4. followers' = followers \/ followers' = [followers EXCEPT ![job.user] = Append(@, row)]
    BY <1>4 DEF Follow
  <2> HIDE DEF row
  <2>5. InboxesIn(followers[job.user]) \subseteq InboxesIn(Append(followers[job.user], row))
    BY <1>1, <2>2, <2>3, AppendRow
  <2>6. \A u \in Users : InboxesIn(followers[u]) \subseteq InboxesIn(followers'[u])
    BY <1>1, <2>2, <2>4, <2>5
  <2>7. \A u, s, i : StillCovered(u, s, i) => StillCovered(u, s, i)'
    BY <2>1 DEF StillCovered, Covers
  <2> QED BY <1>1, <2>1, <2>6, <2>7, OwedFrame
<1>5. CASE UndoFollow
  <2>1. /\ UNCHANGED <<posted, todo, channel, job>> /\ job \in GoodJob /\ job.type = "UndoFollow"
        /\ pc = "start" /\ pc' = "processed"
        /\ owed' = {p \in owed : p[1] # job.user \/ p[3] \in InboxesIn(followers'[job.user])}
        /\ followers' = [followers EXCEPT ![job.user] = WithoutActor(@, job.actor)]
    BY <1>5 DEF UndoFollow, Starts, JobsInv
  <2>2. \A u \in Users : u # job.user => followers'[u] = followers[u]
    BY <1>1, <2>1
  <2>3. \A u, s, i : StillCovered(u, s, i) => StillCovered(u, s, i)'
    BY <2>1 DEF StillCovered, Covers
  <2>4. ASSUME NEW p \in owed'
        PROVE  /\ p[3] \in InboxesIn(followers'[p[1]])
               /\ p \in posted' \/ StillCovered(p[1], p[2], p[3])'
    <3>1. p \in owed /\ p[1] \in Users
      BY <2>1, <2>4 DEF OwedInv
    <3>2. p[3] \in InboxesIn(followers'[p[1]])
      BY <2>1, <2>2, <2>4, <3>1 DEF OwedInv
    <3> QED BY <2>1, <2>3, <3>1, <3>2 DEF OwedInv
  <2> QED BY <1>1, <2>1, <2>4 DEF OwedInv
<1>6. CASE ToAll
  BY <1>6, OwedStepToAll
<1>7. CASE Batch
  BY <1>7, OwedStepBatch
<1>8. CASE Post
  <2>1. /\ UNCHANGED <<followers, owed, todo, channel, job>> /\ job.type = "Post"
        /\ pc = "start" /\ pc' = "processed"
        /\ posted' = posted \cup {<<job.user, job.slug, job.at>>}
    BY <1>8 DEF Post, Starts, maps
  <2>2. ASSUME NEW p \in owed
        PROVE  p \in posted' \/ StillCovered(p[1], p[2], p[3])'
    <3>1. p \in Users \X Slugs \X Inboxes /\ (p \in posted \/ StillCovered(p[1], p[2], p[3]))
      BY DEF OwedInv
    <3>2. CASE Covers(job, p[1], p[2], p[3])
      <4>1. p = <<p[1], p[2], p[3]>>
        BY <3>1
      <4>2. p = <<job.user, job.slug, job.at>>
        BY <2>1, <3>2, <4>1 DEF Covers
      <4> QED BY <2>1, <4>2
    <3>3. CASE ~Covers(job, p[1], p[2], p[3])
      BY <2>1, <3>1, <3>3 DEF StillCovered, Covers
    <3> QED BY <3>2, <3>3
  <2> QED BY <1>1, <2>1, <2>2 DEF OwedInv
<1>9. CASE CountOwn \/ Finish
  <2>1. /\ UNCHANGED <<followers, owed, posted, todo, channel>>
        /\ pc \in {"enqueue", "processed"}
        /\ pc' \notin {"enqueue", "send"} => todo' = <<>>
    BY <1>1, <1>9 DEF CountOwn, Finish, Done, maps, history
  <2>2. \A u, s, i : StillCovered(u, s, i) => StillCovered(u, s, i)'
    BY <2>1 DEF StillCovered, Covers
  <2> QED BY <2>1, <2>2, OwedFrame
<1>10. CASE SendOwn
  <2>1. PICK sent : sent = Head(todo)
    OBVIOUS
  <2>2. /\ UNCHANGED <<followers, owed, posted>> /\ todo # <<>> /\ pc = "send" /\ pc' = "enqueue"
        /\ channel' = Append(channel, sent) /\ todo' = Tail(todo)
    BY <1>10, <2>1 DEF SendOwn, JobsInv, maps, history
  <2>3. /\ sent \in GoodJob
        /\ \A k \in DOMAIN todo : todo[k] = sent \/ \E m \in DOMAIN todo' : todo'[m] = todo[k]
    BY <1>1, <2>1, <2>2, TailKeeps
  <2>4. /\ \A k \in DOMAIN channel : \E m \in DOMAIN channel' : channel'[m] = channel[k]
        /\ \E m \in DOMAIN channel' : channel'[m] = sent
    <3>1. channel \in Seq(GoodJob) /\ sent \in GoodJob /\ channel' = Append(channel, sent)
      BY <1>1, <2>2, <2>3
    <3> QED BY <3>1, AppendKeeps
  <2>5. ASSUME NEW u, NEW s, NEW i, StillCovered(u, s, i)
        PROVE  StillCovered(u, s, i)'
    <3>1. \/ \E k \in DOMAIN channel : Covers(channel[k], u, s, i)
          \/ \E k \in DOMAIN todo : Covers(todo[k], u, s, i)
      BY <2>2, <2>5 DEF StillCovered
    <3>2. \/ \E k \in DOMAIN channel' : Covers(channel'[k], u, s, i)
          \/ \E k \in DOMAIN todo' : Covers(todo'[k], u, s, i)
      BY <2>3, <2>4, <3>1
    <3> QED BY <3>2 DEF StillCovered, Covers
  <2> QED BY <2>2, <2>5, OwedFrame
<1> QED BY <1>2, <1>3, <1>4, <1>5, <1>6, <1>7, <1>8, <1>9, <1>10 DEF Consume

LEMMA OwedStep == JobsInv /\ OwedInv /\ [Next]_vars => OwedInv'
<1> SUFFICES ASSUME JobsInv, OwedInv, [Next]_vars PROVE OwedInv'
  OBVIOUS
<1>1. CASE Consume
  BY <1>1, OwedStepConsumer
<1>2. ASSUME NEW h \in Handlers, Send(h)
      PROVE  OwedInv'
  <2>1. /\ UNCHANGED <<followers, owed, posted, todo, pc, job>>
        /\ channel' = Append(channel, handler[h])
        /\ channel \in Seq(GoodJob) /\ handler[h] \in GoodJob
    BY <1>2 DEF Send, JobsInv, maps, consumer, history
  <2>2. \A k \in DOMAIN channel : \E m \in DOMAIN channel' : channel'[m] = channel[k]
    BY <2>1, AppendKeeps
  <2>3. \A u, s, i : StillCovered(u, s, i) => StillCovered(u, s, i)'
    BY <2>1, <2>2 DEF StillCovered, Covers
  <2> QED BY <2>1, <2>3, OwedFrame DEF OwedInv
<1>3. ASSUME UNCHANGED <<followers, owed, posted, todo, pc, job, channel>>
      PROVE  OwedInv'
  <2>1. \A u, s, i : StillCovered(u, s, i) => StillCovered(u, s, i)'
    BY <1>3 DEF StillCovered, Covers
  <2> QED BY <1>3, <2>1, OwedFrame DEF OwedInv
<1>4. ASSUME NEW h \in Handlers, NEW j \in Jobs, Count(h, j)
      PROVE  OwedInv'
  BY <1>3, <1>4 DEF Count, maps, consumer
<1>5. CASE \E s \in Slugs : DeleteArticle(s)
  BY <1>3, <1>5 DEF DeleteArticle, consumer
<1>6. CASE UNCHANGED vars
  BY <1>3, <1>6 DEF vars, maps, consumer, history
<1> QED BY <1>1, <1>2, <1>4, <1>5, <1>6 DEF Next, Request

\* When /job_queue_len shows 0, whoever followed as an announcement began and
\* still does has had its POST: a job that still leads to a POST is in the
\* channel, among those to enqueue or in hand, and the counter counts it.
THEOREM SettledIsDone == Spec => []SettledMeansDone
<1>1. Init => OwedInv
  BY DEF Init, OwedInv
<1>2. NothingLeft /\ OwedInv => SettledMeansDone
  <2> SUFFICES ASSUME NothingLeft, OwedInv, pending = 0, NEW p \in owed PROVE p \in posted
    BY DEF SettledMeansDone
  <2>1. channel = <<>> /\ pc = "recv" /\ todo = <<>>
    BY DEF NothingLeft, OwedInv
  <2>2. ~StillCovered(p[1], p[2], p[3])
    BY <2>1 DEF StillCovered
  <2> QED BY <2>2 DEF OwedInv
<1> QED BY <1>1, <1>2, JobsInit, JobsStep, OwedStep, ZeroMeansNothingLeft, PTL DEF Spec

-------------------------------------------------------------------------------
(* Types.                                                                  *)

\* What TypeOK says beyond JobsInv and CountInv.
MapsInv ==
    /\ articles \in SUBSET Slugs
    /\ comments \in [Slugs -> Nat]
    /\ reactions \in [Slugs -> Seq(Actors)]
    /\ pc = "recv" => job = None

LEMMA MapsStep == JobsInv /\ MapsInv /\ [Next]_vars => MapsInv'
<1> SUFFICES ASSUME JobsInv, MapsInv, [Next]_vars PROVE MapsInv'
  OBVIOUS
<1>0. pc' = "recv" => job' = None
  <2>1. Consume => (pc' = "recv" => job' = None)
    BY DEF Consume, Receive, CheckAuthor, Effect, Panic, Follow, PostAccept, UndoFollow, ToAll, Batch, Post,
           CountOwn, SendOwn, Finish
  <2>2. ~Consume => UNCHANGED <<pc, job>>
    BY DEF Next, Request, Send, Count, DeleteArticle, vars, consumer
  <2> QED BY <2>1, <2>2 DEF MapsInv
<1>1. CASE Effect
  <2>1. job \in GoodJob /\ job.type \in AboutArticle
    BY <1>1 DEF Effect, JobsInv
  <2>2. job.slug \in Slugs /\ job.actor \in Actors
    BY <2>1 DEF GoodJob, AboutArticle
  <2>3. /\ Append(reactions[job.slug], job.actor) \in Seq(Actors)
        /\ RetainOthers(reactions[job.slug], job.actor) \in Seq(Actors)
    BY <2>2, RetainedIsSequence DEF MapsInv
  <2>4. /\ articles' = articles
        /\ comments' = IF job.type = "Create" THEN [comments EXCEPT ![job.slug] = @ + 1]
                       ELSE comments
    BY <1>1 DEF Effect
  <2>5. comments' \in [Slugs -> Nat]
    <3>1. comments[job.slug] + 1 \in Nat
      BY <2>2 DEF MapsInv
    <3> QED BY <2>2, <2>4, <3>1 DEF MapsInv
  <2>6. reactions' \in [Slugs -> Seq(Actors)]
    <3>1. \/ reactions' = [reactions EXCEPT ![job.slug] = Append(@, job.actor)]
          \/ reactions' = [reactions EXCEPT ![job.slug] = RetainOthers(@, job.actor)]
          \/ reactions' = reactions
      <4>1. CASE job.type = "Create"
        BY <1>1, <4>1 DEF Effect
      <4>2. CASE job.type = "Like"
        BY <1>1, <4>2 DEF Effect
      <4>3. CASE job.type = "UndoLike"
        BY <1>1, <4>3 DEF Effect
      <4> QED BY <2>1, <4>1, <4>2, <4>3 DEF AboutArticle
    <3> QED BY <2>2, <2>3, <3>1 DEF MapsInv
  <2> QED BY <1>0, <2>4, <2>5, <2>6 DEF MapsInv
<1>2. CASE \E s \in Slugs : DeleteArticle(s)
  BY <1>0, <1>2 DEF DeleteArticle, MapsInv
<1>3. CASE UNCHANGED <<articles, comments, reactions>>
  BY <1>0, <1>3 DEF MapsInv
<1>4. ASSUME NEW h \in Handlers, Send(h) \/ \E j \in Jobs : Count(h, j)
      PROVE  UNCHANGED <<articles, comments, reactions>>
  BY <1>4 DEF Send, Count, maps
<1>5. Consume /\ ~Effect => UNCHANGED <<articles, comments, reactions>>
  BY DEF Consume, Receive, CheckAuthor, Panic, Follow, PostAccept, UndoFollow, ToAll, Batch, Post,
         CountOwn, SendOwn, Finish, maps
<1>6. UNCHANGED vars => UNCHANGED <<articles, comments, reactions>>
  BY DEF vars, maps
<1> QED BY <1>1, <1>2, <1>3, <1>4, <1>5, <1>6 DEF Next, Request

\* pending_jobs never goes below zero, and what the maps, the channel and the
\* consumer hold is of the kind the code takes it for.
THEOREM TypesKept == Spec => []TypeOK
<1>1. Init => MapsInv
  <2>1. <<>> \in Seq(Actors)
    OBVIOUS
  <2> QED BY <2>1 DEF Init, MapsInv
<1>2. JobsInv /\ CountInv /\ MapsInv => TypeOK
  <2> SUFFICES ASSUME JobsInv, CountInv, MapsInv PROVE TypeOK
    OBVIOUS
  <2>1. GoodJob \subseteq Job /\ None \notin Job
    BY NoneAssumption DEF GoodJob
  <2>2. channel \in Seq(Job) /\ todo \in Seq(Job)
    BY <2>1, SeqMonotonic DEF JobsInv
  <2>3. handler \in [Handlers -> Job \cup {None}]
    BY <2>1 DEF JobsInv
  <2>4. pending \in Nat
    <3>1. Len(channel) \in Nat /\ Cardinality(Counted) \in Nat /\ InHand \in Nat
      BY LengthIsNumber, CountedFinite DEF CountInv, InHand
    <3> QED BY <3>1 DEF CountInv, PendingCountsAll
  <2>5. /\ pc # "recv" => job \in Job /\ job # None
        /\ pc \in Consumer /\ followers \in [Users -> Seq(Follower)]
    BY <2>1 DEF JobsInv
  <2>6. pc = "recv" => job = None
    BY DEF MapsInv
  <2> QED BY <2>2, <2>3, <2>4, <2>5, <2>6 DEF TypeOK, MapsInv
<1> QED BY <1>1, <1>2, MapsStep, JobsInit, JobsStep, CountInit, CountStep, PTL DEF Spec
===============================================================================
