--------------------------- MODULE Broadcast_proofs ---------------------------
(***************************************************************************)
(* Delivery implements Broadcast, for every choice of its constants: each  *)
(* step of the queue, its consumers and their environment is one step of   *)
(* Broadcast, or none.  An announcement is open as long as a message of it *)
(* is in flight, so most of the argument is about which steps leave none.  *)
(***************************************************************************)
EXTENDS Delivery_proofs

\* The announcements that are open, and what else Broadcast sees.
Open == {e \in announced : Active(e)}
Seen == <<Following, announced, Open, eligible, due, settled, damaged>>

-------------------------------------------------------------------------------
(* Which announcements stay open.                                          *)

\* A consumer opens none.
LEMMA OpensNone ==
    ASSUME TypeOK, TypeOK', WorkersAligned, NEW w \in Workers, WorkerStep(w) \/ Failure(w)
    PROVE  Open' \subseteq Open
<1>1. announced' = announced
  BY OtherWorkers
<1>2. ASSUME NEW m \in InFlight'
      PROVE  \E x \in InFlight : x.ev = m.ev
  BY WorkerStems DEF Stems
<1> QED BY <1>1, <1>2 DEF Open, Active

\* An announcement stays open if every message of it, or one that takes its
\* place, is still in flight.
LEMMA StaysOpen ==
    ASSUME announced' = announced, NEW E,
           \A m \in InFlight : (\E x \in InFlight' : x.ev = m.ev) \/ m.ev \in E
    PROVE  Open \ E \subseteq Open'
BY DEF Open, Active

\* Messages held by other consumers are still in flight after a step.
LEMMA OthersInFlight ==
    ASSUME TypeOK, TypeOK', NEW w \in Workers, WorkerStep(w) \/ Failure(w), NEW m \in InFlight
    PROVE  \/ m \in InFlight'
           \/ m \in Message /\ queue[m] > 0 /\ ~(queue'[m] > 0)
           \/ \E k \in DOMAIN batch[w] : m = batch[w][k]
           \/ \E k \in DOMAIN todo[w] : m = todo[w][k]
<1>1. \A v \in Workers \ {w} : batch'[v] = batch[v] /\ todo'[v] = todo[v]
  BY OtherWorkers
<1>2. \/ m \in Message /\ queue[m] > 0
      \/ \E v \in Workers : \E k \in DOMAIN batch[v] : m = batch[v][k]
      \/ \E v \in Workers : \E k \in DOMAIN todo[v] : m = todo[v][k]
  BY InFlightParts
<1>3. \/ m \in Message /\ queue'[m] > 0
      \/ \E v \in Workers : \E k \in DOMAIN batch'[v] : m = batch'[v][k]
      \/ \E v \in Workers : \E k \in DOMAIN todo'[v] : m = todo'[v][k]
      => m \in InFlight'
  BY DEF InFlight, Queued, Held, Pending
<1> QED BY <1>1, <1>2, <1>3

\* What a consumer holds is in flight, and of an open announcement.
LEMMA HeldIsOpen ==
    ASSUME TypeOK, AnnouncedOnly, NEW w \in Workers, NEW k \in DOMAIN batch[w]
    PROVE  batch[w][k] \in Message /\ batch[w][k].ev \in Open
<1>1. batch[w][k] \in InFlight
  BY InFlightParts
<1> QED BY <1>1, InFlightMessages DEF AnnouncedOnly, Open, Active

LEMMA CurrentIsOpen ==
    ASSUME TypeOK, AnnouncedOnly, NEW w \in Workers, batch[w] # <<>>
    PROVE  Current(w) \in Message /\ Current(w).ev \in Open /\ Current(w).ev \in Events
BY CurrentMessage, HeldIsOpen, MessageFields

\* A consumer that only sets out to enqueue, or begins or ends to post, closes none.
LEMMA SameBatchOpen ==
    ASSUME TypeOK, TypeOK', WorkersAligned, NEW w \in Workers, WorkerStep(w) \/ Failure(w),
           batch' = batch, queue' = queue, todo'[w] = todo[w] \/ todo[w] = <<>>
    PROVE  Open' = Open
<1>1. ASSUME NEW m \in InFlight
      PROVE  m \in InFlight'
  <2>1. ASSUME NEW k \in DOMAIN batch[w], m = batch[w][k]
        PROVE  m \in InFlight'
    BY <2>1 DEF InFlight, Held
  <2>2. ASSUME NEW k \in DOMAIN todo[w], m = todo[w][k]
        PROVE  m \in InFlight'
    <3>1. todo'[w] = todo[w]
      BY <2>2
    <3> QED BY <2>2, <3>1 DEF InFlight, Pending
  <2> QED BY <2>1, <2>2, OthersInFlight
<1>2. announced' = announced
  BY OtherWorkers
<1>3. Open \ {} \subseteq Open'
  BY <1>1, <1>2, StaysOpen
<1> QED BY <1>3, OpensNone

-------------------------------------------------------------------------------
(* The steps of Broadcast, in terms of what it sees of Delivery.           *)

LEMMA IsFollow ==
    ASSUME NEW p \in Users \X Inboxes,
           Following' = Following \cup {p},
           eligible' = [e \in Events |->
                          IF e \in announced THEN eligible[e] \cup {p} ELSE eligible[e]],
           UNCHANGED <<announced, Open, due, settled, damaged>>
    PROVE  Promise!Next
BY DEF Promise!Next, Promise!Follow, Promise!Pairs, Open

LEMMA IsUnfollow ==
    ASSUME NEW P \in SUBSET Following,
           Following' = Following \ P,
           due' = [e \in Events |-> due[e] \ P],
           UNCHANGED <<announced, Open, eligible, settled, damaged>>
    PROVE  Promise!Next
BY DEF Promise!Next, Promise!Unfollow, Open

LEMMA IsAnnounce ==
    ASSUME NEW e \in Events, e \notin announced,
           announced' = announced \cup {e}, Open' = Open \cup {e},
           eligible' = [eligible EXCEPT ![e] = Following],
           UNCHANGED <<Following, due, settled, damaged>>
    PROVE  Promise!Next
BY DEF Promise!Next, Promise!Announce, Open

LEMMA IsOwe ==
    ASSUME NEW e \in Events, NEW u \in Users, e \in Open,
           due' = [due EXCEPT ![e] = @ \cup {p \in Following : p[1] = u}],
           UNCHANGED <<Following, announced, Open, eligible, settled, damaged>>
    PROVE  Promise!Next
BY DEF Promise!Next, Promise!Owe, Open

LEMMA IsTell ==
    ASSUME NEW e \in Events, NEW p \in Users \X Inboxes, e \in Open, p \in eligible[e],
           settled' = [settled EXCEPT ![e] = @ \cup {p}],
           UNCHANGED <<Following, announced, Open, eligible, due, damaged>>
    PROVE  Promise!Next
BY DEF Promise!Next, Promise!Tell, Promise!Pairs, Open

LEMMA IsClose ==
    ASSUME NEW e \in Events, e \in Open, e \in damaged \/ due[e] \subseteq settled[e],
           Open' = Open \ {e},
           UNCHANGED <<Following, announced, eligible, due, settled, damaged>>
    PROVE  Promise!Next
BY DEF Promise!Next, Promise!Close, Open

LEMMA IsFail ==
    ASSUME NEW E \in SUBSET Open, NEW C \in SUBSET E,
           damaged' = damaged \cup E, Open' = Open \ C,
           UNCHANGED <<Following, announced, eligible, due, settled>>
    PROVE  Promise!Next
BY DEF Promise!Next, Promise!Fail, Open

-------------------------------------------------------------------------------
(* The environment.                                                        *)

\* Where the messages stay as they are, the same announcements are open.
LEMMA SameMessagesOpen ==
    ASSUME UNCHANGED <<announced, queue, batch, todo>>
    PROVE  Open' = Open
BY DEF Open, Active, InFlight, Queued, Held, Pending

LEMMA EnvironmentPromise ==
    ASSUME IndInv, TypeOK', Environment
    PROVE  [Promise!Next]_Seen
<1>1. TypeOK /\ DueFollow
  BY DEF IndInv
<1>2. UNCHANGED <<batch, todo, settled, damaged>>
  BY EnvironmentFrame
<1>3. ASSUME NEW e \in Events, Announce(e)
      PROVE  Promise!Next
  <2>1. /\ e \notin announced /\ announced' = announced \cup {e}
        /\ queue' = [queue EXCEPT ![ToAll(e)] = @ + 1]
        /\ eligible' = [eligible EXCEPT ![e] = Following] /\ due' = due
        /\ Following' = Following
    BY <1>3 DEF Announce, store, Following, PairsIn
  <2>2. ToAll(e) \in Message /\ ToAll(e).ev = e
    BY MaxRetriesAssumption DEF ToAll, Message, Tries
  <2>3. \A m \in Message : queue'[m] > 0 <=> queue[m] > 0 \/ m = ToAll(e)
    BY <1>1, <2>1, <2>2 DEF TypeOK
  <2>4. InFlight' = InFlight \cup {ToAll(e)}
    BY <1>2, <2>2, <2>3 DEF InFlight, Queued, Held, Pending
  <2>5. Open' = Open \cup {e}
    <3>1. \A x : Active(x)' <=> Active(x) \/ x = e
      BY <2>2, <2>4 DEF Active
    <3>2. Active(e) => e \in announced
      BY DEF IndInv, AnnouncedOnly, Active
    <3> QED BY <2>1, <3>1, <3>2 DEF Open
  <2> QED BY <1>2, <2>1, <2>5, IsAnnounce
<1>4. ASSUME NEW site, Redeploy(site)
      PROVE  UNCHANGED Seen
  <2>1. UNCHANGED <<followers, queue, announced, eligible, due, settled, damaged>>
    BY <1>4 DEF Redeploy, history
  <2> QED BY <1>2, <2>1, SameMessagesOpen DEF Seen, Following, PairsIn
<1>5. ASSUME NEW u \in Users, NEW a \in Actors, NEW i \in Inboxes, AddFollower(u, a, i)
      PROVE  Promise!Next
  <2>1. /\ Open' = Open
        /\ followers' = followers \cup {<<u, a, i>>}
        /\ eligible' = [e \in Events |->
                          IF e \in announced THEN eligible[e] \cup {<<u, i>>} ELSE eligible[e]]
        /\ UNCHANGED <<announced, due>>
    BY <1>2, <1>5, SameMessagesOpen DEF AddFollower
  <2>2. Following' = Following \cup {<<u, i>>}
    <3>1. ASSUME NEW r \in followers'
          PROVE  <<r[1], r[3]>> \in Following \cup {<<u, i>>}
      BY <2>1 DEF Following, PairsIn
    <3>2. Following \subseteq Following'
      BY <2>1 DEF Following, PairsIn
    <3>3. <<u, a, i>> \in followers'
      BY <2>1
    <3>4. <<u, i>> \in Following'
      BY <3>3 DEF Following, PairsIn
    <3>5. Following' \subseteq Following \cup {<<u, i>>}
      BY <3>1 DEF Following, PairsIn
    <3> QED BY <3>2, <3>4, <3>5
  <2>3. <<u, i>> \in Users \X Inboxes
    OBVIOUS
  <2> QED BY <1>2, <2>1, <2>2, <2>3, IsFollow
<1>6. ASSUME NEW u \in Users, NEW a \in Actors, RemoveFollower(u, a)
      PROVE  Promise!Next
  <2>1. /\ Open' = Open
        /\ followers' = {r \in followers : ~(r[1] = u /\ r[2] = a)}
        /\ due' = [e \in Events |-> due[e] \cap Following']
        /\ UNCHANGED <<announced, eligible>>
    BY <1>2, <1>6, SameMessagesOpen DEF RemoveFollower, Following
  <2>2. Following' \subseteq Following
    BY <2>1 DEF Following, PairsIn
  <2>3. PICK P \in SUBSET Following : P = Following \ Following'
    OBVIOUS
  <2>4. Following' = Following \ P
    BY <2>2, <2>3
  <2>5. \A e \in Events : due[e] \cap Following' = due[e] \ P
    BY <1>1, <2>3, <2>4 DEF DueFollow
  <2>6. due' = [e \in Events |-> due[e] \ P]
    BY <2>1, <2>5
  <2> QED BY <1>2, <2>1, <2>4, <2>6, IsUnfollow
<1> QED BY <1>3, <1>4, <1>5, <1>6 DEF Environment

-------------------------------------------------------------------------------
(* The consumer.                                                           *)

LEMMA SetsOutPromise ==
    ASSUME IndInv, TypeOK', NEW w \in Workers,
           ResolveAuthor(w) \/ ForwardDelete(w) \/ ReadPage(w)
    PROVE  UNCHANGED Seen
<1>1. TypeOK /\ WorkersAligned /\ WorkerStep(w)
  BY DEF IndInv, WorkerStep
<1>2. batch' = batch /\ queue' = queue /\ UNCHANGED <<followers, history>> /\ pc[w] = "next"
  BY DEF ResolveAuthor, ForwardDelete, ReadPage, Enqueues, Begins, store
<1>3. todo[w] = <<>>
  BY <1>1, <1>2 DEF WorkersAligned
<1>4. Open' = Open
  BY <1>1, <1>2, <1>3, SameBatchOpen
<1> QED BY <1>2, <1>4 DEF Seen, history, Following, PairsIn

LEMMA ReadFailsPromise ==
    ASSUME IndInv, TypeOK', NEW w \in Workers, QueryFails(w) \/ AssetFails(w)
    PROVE  Promise!Next
<1>1. TypeOK /\ WorkersAligned /\ AnnouncedOnly /\ Failure(w)
  BY DEF IndInv, Failure
<1>2. /\ batch' = batch /\ queue' = queue /\ pc[w] = "next" /\ batch[w] # <<>>
      /\ damaged' = damaged \cup {Current(w).ev}
      /\ UNCHANGED <<followers, announced, eligible, due, settled>>
  BY DEF QueryFails, AssetFails, Enqueues, Begins, store
<1>3. todo[w] = <<>>
  BY <1>1, <1>2 DEF WorkersAligned
<1>4. Open' = Open \ {}
  BY <1>1, <1>2, <1>3, SameBatchOpen
<1>5. Current(w).ev \in Open
  BY <1>1, <1>2, CurrentIsOpen
<1>6. Following' = Following
  BY <1>2 DEF Following, PairsIn
<1>7. {Current(w).ev} \in SUBSET Open
  BY <1>5
<1> QED BY <1>2, <1>4, <1>6, <1>7, IsFail

\* What is yet to be enqueued is of the announcement at hand.
LEMMA PendingIsCurrent ==
    ASSUME IndInv, NEW w \in Workers, NEW k \in DOMAIN todo[w]
    PROVE  batch[w] # <<>> /\ todo[w][k].ev = Current(w).ev
BY DEF IndInv, ExpansionAdvances, Pending

\* One enqueue call, or a failing one, leaves the same announcements open.
LEMMA EnqueueOpen ==
    ASSUME IndInv, TypeOK', NEW w \in Workers, EnqueueNext(w) \/ EnqueueFails(w)
    PROVE  Open' = Open
<1>1. TypeOK /\ WorkersAligned /\ (WorkerStep(w) \/ Failure(w)) /\ todo[w] # <<>>
  BY DEF IndInv, WorkerStep, Failure, EnqueueNext, EnqueueFails
<1>2. batch' = batch /\ Head(todo[w]) \in Message
  BY <1>1, TodoHead DEF EnqueueNext, EnqueueFails
<1>3. \A m \in Message : queue[m] > 0 => queue'[m] > 0
  <2>1. queue \in [Message -> Nat]
    BY <1>1 DEF TypeOK
  <2>2. queue' = queue \/ queue' = [queue EXCEPT ![Head(todo[w])] = @ + 1]
    BY DEF EnqueueNext, EnqueueFails
  <2> QED BY <1>2, <2>1, <2>2
<1>4. ASSUME NEW m \in InFlight
      PROVE  \E x \in InFlight' : x.ev = m.ev
  <2>1. ASSUME NEW k \in DOMAIN batch[w], m = batch[w][k]
        PROVE  m \in InFlight'
    BY <1>2, <2>1 DEF InFlight, Held
  <2>2. ASSUME NEW k \in DOMAIN todo[w], m = todo[w][k]
        PROVE  \E x \in InFlight' : x.ev = m.ev
    <3>1. batch[w] # <<>> /\ m.ev = Current(w).ev
      BY <2>2, PendingIsCurrent
    <3>2. 1 \in DOMAIN batch[w] /\ batch[w][1] = Current(w)
      BY <1>1, <3>1, CurrentMessage
    <3>3. Current(w) \in InFlight'
      BY <1>2, <3>2 DEF InFlight, Held
    <3> QED BY <3>1, <3>3
  <2> QED BY <1>1, <1>3, <2>1, <2>2, OthersInFlight
<1>5. announced' = announced
  BY <1>1, OtherWorkers
<1>6. Open \ {} \subseteq Open'
  BY <1>4, <1>5, StaysOpen
<1> QED BY <1>1, <1>6, OpensNone

LEMMA EnqueueFailsPromise ==
    ASSUME IndInv, TypeOK', NEW w \in Workers, EnqueueFails(w)
    PROVE  Promise!Next
<1>1. /\ TypeOK /\ AnnouncedOnly /\ todo[w] # <<>>
      /\ damaged' = damaged \cup {Head(todo[w]).ev}
      /\ UNCHANGED <<followers, announced, eligible, due, settled>>
  BY DEF IndInv, EnqueueFails, store
<1>2. 1 \in DOMAIN todo[w] /\ todo[w][1] = Head(todo[w])
  BY <1>1, TodoHead
<1>3. batch[w] # <<>> /\ Head(todo[w]).ev = Current(w).ev
  BY <1>2, PendingIsCurrent
<1>4. {Head(todo[w]).ev} \in SUBSET Open
  BY <1>1, <1>3, CurrentIsOpen
<1>5. Open' = Open \ {}
  BY EnqueueOpen
<1>6. Following' = Following
  BY <1>1 DEF Following, PairsIn
<1> QED BY <1>1, <1>4, <1>5, <1>6, IsFail

LEMMA EnqueueNextPromise ==
    ASSUME IndInv, TypeOK', NEW w \in Workers, EnqueueNext(w)
    PROVE  [Promise!Next]_Seen
<1> DEFINE m == Head(todo[w])
<1>1. /\ TypeOK /\ AnnouncedOnly /\ todo[w] # <<>>
      /\ due' = [due EXCEPT ![m.ev] =
                 IF m.type = "Batch" /\ m.at = EmptyString
                 THEN @ \cup ({m.author} \X InboxesIn(followers, m.author))
                 ELSE @]
      /\ UNCHANGED <<followers, announced, eligible, settled, damaged>>
  BY DEF IndInv, EnqueueNext, store
<1>2. 1 \in DOMAIN todo[w] /\ todo[w][1] = m /\ m \in Message
  BY <1>1, TodoHead
<1>3. batch[w] # <<>> /\ m.ev = Current(w).ev
  BY <1>2, PendingIsCurrent
<1>4. m.ev \in Open /\ m.ev \in Events
  BY <1>1, <1>3, CurrentIsOpen
<1>5. Open' = Open
  BY EnqueueOpen
<1>6. Following' = Following
  BY <1>1 DEF Following, PairsIn
<1>7. CASE m.type = "Batch" /\ m.at = EmptyString
  <2>1. m.author \in Users
    BY <1>2, <1>7, MessageFields
  <2>2. {m.author} \X InboxesIn(followers, m.author) = {p \in Following : p[1] = m.author}
    <3>1. followers \subseteq Users \X Actors \X Inboxes
      BY <1>1 DEF TypeOK
    <3>2. \A r \in followers : r = <<r[1], r[2], r[3]>>
      BY <3>1
    <3>3. \A i \in InboxesIn(followers, m.author) : <<m.author, i>> \in Following
      BY DEF Following, PairsIn, InboxesIn
    <3>4. \A p \in Following : p[1] = m.author =>
             p = <<m.author, p[2]>> /\ p[2] \in InboxesIn(followers, m.author)
      BY DEF Following, PairsIn, InboxesIn
    <3> QED BY <3>3, <3>4
  <2>3. due' = [due EXCEPT ![m.ev] = @ \cup {p \in Following : p[1] = m.author}]
    BY <1>1, <1>7, <2>2
  <2>4. PICK e \in Events, u \in Users : e = m.ev /\ u = m.author
    BY <1>4, <2>1
  <2>5. due' = [due EXCEPT ![e] = @ \cup {p \in Following : p[1] = u}]
    BY <2>3, <2>4
  <2> QED BY <1>1, <1>4, <1>5, <1>6, <2>4, <2>5, IsOwe
<1>8. CASE ~(m.type = "Batch" /\ m.at = EmptyString)
  <2>1. due' = due
    BY <1>1, <1>8 DEF TypeOK
  <2> QED BY <1>1, <1>5, <1>6, <2>1 DEF Seen
<1> QED BY <1>7, <1>8

LEMMA SendPostPromise ==
    ASSUME IndInv, TypeOK', NEW w \in Workers, SendPost(w)
    PROVE  [Promise!Next]_Seen
<1>1. /\ TypeOK /\ WorkersAligned /\ AnnouncedOnly /\ WorkerStep(w)
      /\ batch[w] # <<>> /\ Current(w).type = "Post"
      /\ UNCHANGED <<followers, queue, batch, todo, announced, eligible, due, damaged>>
      /\ \/ settled' = [settled EXCEPT ![Current(w).ev] = @ \cup {Recipient(Current(w))}]
         \/ settled' = settled
  BY DEF IndInv, SendPost, Begins, store, WorkerStep
<1>2. Open' = Open
  BY <1>1, SameBatchOpen
<1>3. Following' = Following
  BY <1>1 DEF Following, PairsIn
<1>4. Current(w) \in Message /\ Current(w).ev \in Events /\ Current(w).ev \in Open
  BY <1>1, CurrentIsOpen
<1>5. Recipient(Current(w)) \in Users \X Inboxes
  BY <1>1, <1>4, MessageFields DEF Recipient
<1>6. Current(w) \in InFlight
  BY <1>1, CurrentMessage, InFlightParts
<1>7. Recipient(Current(w)) \in eligible[Current(w).ev]
  BY <1>1, <1>4, <1>6 DEF IndInv, OnlyFollowersNotified
<1>8. PICK e \in Events, p \in Users \X Inboxes : e = Current(w).ev /\ p = Recipient(Current(w))
  BY <1>4, <1>5
<1>9. CASE settled' = [settled EXCEPT ![e] = @ \cup {p}]
  BY <1>1, <1>2, <1>3, <1>4, <1>7, <1>8, <1>9, IsTell
<1>10. CASE settled' = settled
  BY <1>1, <1>2, <1>3, <1>10 DEF Seen
<1> QED BY <1>1, <1>8, <1>9, <1>10

LEMMA ReceivePromise ==
    ASSUME IndInv, TypeOK', NEW w \in Workers, ReceiveBatch(w)
    PROVE  UNCHANGED Seen
<1>1. /\ TypeOK /\ WorkersAligned /\ WorkerStep(w) /\ batch[w] = <<>> /\ todo' = todo
      /\ UNCHANGED <<followers, announced, eligible, due, settled, damaged>>
  BY DEF IndInv, WorkerStep, ReceiveBatch, store, history
<1>2. PICK b \in Seq(Message) :
         /\ batch' = [batch EXCEPT ![w] = b]
         /\ \A m \in Message : queue[m] > 0 => queue'[m] > 0 \/ \E k \in DOMAIN b : b[k] = m
  BY <1>1, ReceiveTypes
<1>3. batch'[w] = b
  BY <1>1, <1>2 DEF TypeOK
<1>4. ASSUME NEW m \in InFlight
      PROVE  m \in InFlight'
  <2>1. ASSUME NEW k \in DOMAIN b, b[k] = m
        PROVE  m \in InFlight'
    BY <1>3, <2>1 DEF InFlight, Held
  <2>2. ASSUME NEW k \in DOMAIN todo[w], todo[w][k] = m
        PROVE  m \in InFlight'
    BY <1>1, <2>2 DEF InFlight, Pending
  <2>3. ~\E k \in DOMAIN batch[w] : m = batch[w][k]
    BY <1>1
  <2>4. m \in Message /\ queue[m] > 0 /\ ~(queue'[m] > 0) => m \in InFlight'
    BY <1>2, <2>1
  <2> QED BY <1>1, <2>2, <2>3, <2>4, OthersInFlight
<1>5. Open \ {} \subseteq Open'
  BY <1>1, <1>4, StaysOpen
<1>6. Open' = Open
  BY <1>1, <1>5, OpensNone
<1> QED BY <1>1, <1>6 DEF Seen, Following, PairsIn

\* When a consumer is done with a message, only its announcement may close.
LEMMA DropsCurrent ==
    ASSUME IndInv, TypeOK', NEW w \in Workers, Ack(w) \/ Retry(w)
    PROVE  /\ batch[w] # <<>> /\ Current(w).ev \in Open
           /\ Open \ {Current(w).ev} \subseteq Open' /\ Open' \subseteq Open
<1>1. /\ TypeOK /\ WorkersAligned /\ AnnouncedOnly /\ (WorkerStep(w) \/ Failure(w))
      /\ batch[w] # <<>> /\ todo[w] = <<>> /\ batch' = [batch EXCEPT ![w] = Tail(@)]
  BY DEF IndInv, WorkerStep, Ack, Retry, WorkersAligned
<1>2. \A m \in Message : queue[m] > 0 => queue'[m] > 0
  <2>1. CASE Ack(w)
    BY <2>1 DEF Ack
  <2>2. CASE Retry(w)
    <3>1. <<Current(w)>> \in Seq(Message)
      BY <1>1, CurrentMessage
    <3> QED BY <1>1, <2>2, <3>1, RequeuedQueue DEF Retry
  <2> QED BY <2>1, <2>2
<1>3. ASSUME NEW k \in DOMAIN batch[w], k # 1
      PROVE  batch[w][k] \in InFlight'
  <2>1. batch[w] \in Seq(Message) /\ batch'[w] = Tail(batch[w])
    BY <1>1 DEF TypeOK
  <2>2. k - 1 \in DOMAIN Tail(batch[w]) /\ Tail(batch[w])[k - 1] = batch[w][k]
    BY <1>3, <2>1
  <2>3. batch[w][k] \in {batch'[w][j] : j \in DOMAIN batch'[w]}
    BY <2>1, <2>2
  <2>4. batch[w][k] \in Held(w)'
    BY <2>3 DEF Held
  <2> QED BY <2>4 DEF InFlight
<1>4. batch[w][1] = Current(w)
  BY <1>1, CurrentMessage
<1>5. ASSUME NEW m \in InFlight
      PROVE  m \in InFlight' \/ m.ev \in {Current(w).ev}
  BY <1>1, <1>2, <1>3, <1>4, OthersInFlight
<1>6. announced' = announced
  BY <1>1, OtherWorkers
<1>7. Open \ {Current(w).ev} \subseteq Open'
  BY <1>5, <1>6, StaysOpen
<1> QED BY <1>1, <1>7, CurrentIsOpen, OpensNone

LEMMA AckPromise ==
    ASSUME IndInv, TypeOK', NoFollowerSkipped', NEW w \in Workers, Ack(w)
    PROVE  [Promise!Next]_Seen
<1>1. UNCHANGED <<followers, announced, eligible, due, settled, damaged>>
  BY DEF Ack, store, history
<1>2. Following' = Following
  BY <1>1 DEF Following, PairsIn
<1>3. PICK e : e = Current(w).ev
  OBVIOUS
<1>4. e \in Open /\ Open \ {e} \subseteq Open' /\ Open' \subseteq Open
  BY <1>3, DropsCurrent
<1>5. CASE e \in Open'
  BY <1>1, <1>2, <1>4, <1>5 DEF Seen
<1>6. CASE e \notin Open'
  <2>1. e \in announced /\ e \in Events
    BY <1>4 DEF Open, IndInv, TypeOK
  <2>2. ~Active(e)'
    BY <1>1, <1>6, <2>1 DEF Open
  <2>3. e \in damaged \/ due[e] \subseteq settled[e]
    BY <1>1, <2>1, <2>2 DEF NoFollowerSkipped
  <2>4. Open' = Open \ {e}
    BY <1>4, <1>6
  <2> QED BY <1>1, <1>2, <1>4, <2>1, <2>3, <2>4, IsClose
<1> QED BY <1>5, <1>6

LEMMA RetryPromise ==
    ASSUME IndInv, TypeOK', NEW w \in Workers, Retry(w)
    PROVE  [Promise!Next]_Seen
<1>1. /\ TypeOK /\ WorkersAligned /\ (WorkerStep(w) \/ Failure(w))
      /\ queue' = Requeued(<<Current(w)>>)
      /\ damaged' = damaged \cup LostIn(<<Current(w)>>)
      /\ UNCHANGED <<followers, announced, eligible, due, settled>>
  BY DEF IndInv, Retry, store, WorkerStep
<1>2. Following' = Following
  BY <1>1 DEF Following, PairsIn
<1>3. PICK e : e = Current(w).ev
  OBVIOUS
<1>4. batch[w] # <<>> /\ e \in Open /\ Open \ {e} \subseteq Open' /\ Open' \subseteq Open
  BY <1>3, DropsCurrent
<1>5. Current(w) \in Message /\ <<Current(w)>> \in Seq(Message)
  BY <1>1, <1>4, CurrentMessage
<1>6. CASE CanRedeliver(Current(w))
  <2>1. damaged' = damaged
    BY <1>1, <1>6 DEF LostIn
  <2>2. Redelivered(Current(w)) \in Message /\ Redelivered(Current(w)).ev = e
    BY <1>3, <1>5, <1>6, RedeliveredMessage
  <2>3. 1 \in DOMAIN <<Current(w)>> /\ <<Current(w)>>[1] = Current(w)
    OBVIOUS
  <2>4. queue'[Redelivered(Current(w))] > 0
    BY <1>1, <1>5, <1>6, <2>2, <2>3, RequeuedQueue
  <2>5. Active(e)'
    BY <2>2, <2>4 DEF Active, InFlight, Queued
  <2>6. e \in Open'
    BY <1>1, <1>4, <2>5 DEF Open
  <2> QED BY <1>1, <1>2, <1>4, <2>1, <2>6 DEF Seen
<1>7. CASE ~CanRedeliver(Current(w))
  <2>1. LostIn(<<Current(w)>>) = {e}
    BY <1>3, <1>7 DEF LostIn
  <2>2. PICK C \in SUBSET {e} : C = Open \ Open'
    BY <1>4
  <2>3. Open' = Open \ C
    BY <1>4, <2>2
  <2>4. {e} \in SUBSET Open
    BY <1>4
  <2> QED BY <1>1, <1>2, <2>1, <2>2, <2>3, <2>4, IsFail
<1> QED BY <1>6, <1>7

LEMMA CrashPromise ==
    ASSUME IndInv, TypeOK', NEW w \in Workers, Crash(w)
    PROVE  Promise!Next
<1>1. /\ TypeOK /\ WorkersAligned /\ AnnouncedOnly /\ (WorkerStep(w) \/ Failure(w))
      /\ queue' = Requeued(batch[w])
      /\ damaged' = damaged \cup LostIn(batch[w])
      /\ UNCHANGED <<followers, announced, eligible, due, settled>>
  BY DEF IndInv, Failure, Crash, store
<1>2. Following' = Following
  BY <1>1 DEF Following, PairsIn
<1>3. batch[w] \in Seq(Message)
  BY <1>1 DEF TypeOK
<1>4. ASSUME NEW k \in DOMAIN batch[w]
      PROVE  \/ \E x \in InFlight' : x.ev = batch[w][k].ev
             \/ batch[w][k].ev \in LostIn(batch[w])
  <2>1. CASE CanRedeliver(batch[w][k])
    <3>1. batch[w][k] \in Message
      BY <1>3
    <3>2. Redelivered(batch[w][k]) \in Message /\ Redelivered(batch[w][k]).ev = batch[w][k].ev
      BY <2>1, <3>1, RedeliveredMessage
    <3>3. queue'[Redelivered(batch[w][k])] > 0
      BY <1>1, <1>3, <2>1, <3>2, RequeuedQueue
    <3> QED BY <3>2, <3>3 DEF InFlight, Queued
  <2>2. CASE ~CanRedeliver(batch[w][k])
    BY <2>2 DEF LostIn
  <2> QED BY <2>1, <2>2
<1>5. ASSUME NEW m \in InFlight
      PROVE  (\E x \in InFlight' : x.ev = m.ev) \/ m.ev \in LostIn(batch[w])
  <2>1. ASSUME NEW k \in DOMAIN todo[w], m = todo[w][k]
        PROVE  (\E x \in InFlight' : x.ev = m.ev) \/ m.ev \in LostIn(batch[w])
    <3>1. batch[w] # <<>> /\ m.ev = Current(w).ev
      BY <2>1, PendingIsCurrent
    <3>2. 1 \in DOMAIN batch[w] /\ batch[w][1] = Current(w)
      BY <1>1, <3>1, CurrentMessage
    <3> QED BY <1>4, <3>1, <3>2
  <2>2. m \in Message /\ queue[m] > 0 => queue'[m] > 0
    BY <1>1, <1>3, RequeuedQueue
  <2> QED BY <1>1, <1>4, <2>1, <2>2, OthersInFlight
<1>6. PICK E \in SUBSET Open : E = LostIn(batch[w])
  <2>1. LostIn(batch[w]) \subseteq Open
    BY <1>1, HeldIsOpen DEF LostIn
  <2> QED BY <2>1
<1>7. Open \ E \subseteq Open' /\ Open' \subseteq Open
  BY <1>1, <1>5, <1>6, StaysOpen, OpensNone
<1>8. PICK C \in SUBSET E : C = Open \ Open'
  BY <1>7
<1>9. Open' = Open \ C
  BY <1>7, <1>8
<1> QED BY <1>1, <1>2, <1>6, <1>9, IsFail

-------------------------------------------------------------------------------
LEMMA NextPromise == IndInv /\ IndInv' /\ [Next]_vars => [Promise!Next]_Seen
<1> SUFFICES ASSUME IndInv, IndInv', [Next]_vars PROVE [Promise!Next]_Seen
  OBVIOUS
<1>1. TypeOK' /\ NoFollowerSkipped'
  <2>1. IndInv' => NoFollowerSkipped'
    BY EndedIsTold, PTL
  <2> QED BY <2>1 DEF IndInv
<1>2. CASE UNCHANGED vars
  BY <1>2, SameMessagesOpen DEF vars, store, consumer, history, Seen, Following, PairsIn
<1>3. CASE Environment
  BY <1>1, <1>3, EnvironmentPromise
<1>4. ASSUME NEW w \in Workers, WorkerStep(w)
      PROVE  [Promise!Next]_Seen
  BY <1>1, <1>4, ReceivePromise, SetsOutPromise, EnqueueNextPromise, SendPostPromise, AckPromise,
     RetryPromise DEF WorkerStep
<1>5. ASSUME NEW w \in Workers, Failure(w)
      PROVE  [Promise!Next]_Seen
  BY <1>1, <1>5, ReadFailsPromise, EnqueueFailsPromise, CrashPromise DEF Failure
<1> QED BY <1>2, <1>3, <1>4, <1>5 DEF Next

\* Delivery keeps the promise of Broadcast: an announcement closes only when
\* everybody it is owed to was told, unless a failure interfered with it, and
\* nobody is told who did not follow since it was made.
THEOREM DeliveryKeepsPromise == Spec => KeepsPromise
<1>1. Init => Promise!Init
  <2> SUFFICES ASSUME Init PROVE Promise!Init
    OBVIOUS
  <2>1. Following \in SUBSET Promise!Pairs
    BY DEF Init, Following, PairsIn, Promise!Pairs
  <2> QED BY <2>1 DEF Init, Promise!Init
<1>2. IndInv /\ IndInv' /\ [Next]_vars => [Promise!Next]_(Promise!vars)
  BY NextPromise DEF Seen, Open, Promise!vars
<1> QED BY <1>1, <1>2, Invariance, PTL DEF Spec, KeepsPromise, Promise!Spec

===============================================================================
