-------------------------- MODULE InboxCounts_proofs --------------------------
(***************************************************************************)
(* Theorems about what Inbox counts and keeps, for any users, actors,      *)
(* activities, requests, finitely many consumers and any failures: the     *)
(* reaction count is the number of the actors kept, an actor that took its *)
(* follow back is not a follower, and comments in R2 are counted.          *)
(***************************************************************************)
EXTENDS Inbox_proofs

\* A consumer's step is its own.
LEMMA OthersUntouched ==
    ASSUME Types, NEW v \in Workers, WorkerStep(v) \/ Failure(v), NEW w \in Workers, w # v
    PROVE  pc'[w] = pc[w] /\ act'[w] = act[w] /\ batch'[w] = batch[w]
<1>1. CASE WorkerStep(v)
  BY <1>1 DEF Types, WorkerStep, ReceiveBatch, Dispatch, FetchFails, CheckAuthor, PutObject,
     CountComment, CountReaction, PutActor, Decrement, DropActor, FetchActor, AddFollower,
     SendAccept, RemoveFollower, Ack, Goes, Proceeds
<1>2. CASE Failure(v)
  BY <1>2 DEF Types, Failure, AssetFails, PutFails, StatementFails, Crash, Goes, Proceeds
<1> QED BY <1>1, <1>2

\* What worker w's activity is known to be in the middle of a message.
LEMMA ActivityOf ==
    ASSUME Core, NEW w \in Workers, pc[w] \notin {"next", "finished"}
    PROVE  /\ act[w] \in Activities /\ act[w] # None
           /\ batch[w] # <<>> /\ Current(w) \in Message
           /\ act[w] \in Bodies(Current(w)) /\ Admissible(Current(w), act[w])
           /\ Fits(pc[w], act[w], Current(w))
<1>1. /\ act[w] \in Bodies(Current(w)) /\ Admissible(Current(w), act[w])
      /\ Fits(pc[w], act[w], Current(w)) /\ batch[w] # <<>>
  BY DEF Core, InStep, Checked
<1>2. Current(w) \in Message
  BY <1>1, CurrentMessage DEF Core
<1> QED BY <1>1, <1>2, BodiesAreActivities, ActivityFields

-------------------------------------------------------------------------------
(* Likes and undos.                                                        *)

\* Worker w is between the two D1 statements of a like or undo for article s.
AtReaction(w, s) == pc[w] \in {"putActor", "dropActor"} /\ act[w].target = s
RowsOf(s) == {r \in reactionActors : r[1] = s}

\* No two workers are there for the same actor, and each finds the row of its
\* actor as its statement expects it.
OneAtATime(s) ==
    \A v, w \in Workers : v # w /\ AtReaction(v, s) /\ AtReaction(w, s) => ActorRow(v) # ActorRow(w)
RowsExpected(s) ==
    \A w \in Workers : AtReaction(w, s) => (pc[w] = "putActor" <=> ActorRow(w) \notin reactionActors)
CountIs(s) ==
    reactionCount[s] = Cardinality(RowsOf(s)) + Cardinality(Between("putActor", s))
                         - Cardinality(Between("dropActor", s))
CountsFor(s) == OneAtATime(s) /\ RowsExpected(s) /\ CountIs(s)

ReactionTypes == reactionCount \in [Slugs -> Nat] /\ IsFiniteSet(reactionActors)
ReactionsInv == ReactionTypes /\ \A s \in Slugs \ irregular : CountsFor(s)

\* Counting after one has gone.
LEMMA OneLess ==
    ASSUME NEW S, IsFiniteSet(S), NEW x \in S, NEW T, T = S \ {x}
    PROVE  Cardinality(T) = Cardinality(S) - 1
BY FS_RemoveElement

LEMMA ReactionSetsFinite ==
    ASSUME ReactionTypes, NEW s
    PROVE  /\ IsFiniteSet(RowsOf(s)) /\ Cardinality(RowsOf(s)) \in Nat
           /\ \A step : IsFiniteSet(Between(step, s)) /\ Cardinality(Between(step, s)) \in Nat
<1>1. IsFiniteSet(RowsOf(s))
  <2>1. RowsOf(s) \subseteq reactionActors
    BY DEF RowsOf
  <2> QED BY <2>1, FS_Subset DEF ReactionTypes
<1>2. ASSUME NEW step
      PROVE  IsFiniteSet(Between(step, s))
  <2>1. Between(step, s) \subseteq Workers
    BY DEF Between
  <2> QED BY <2>1, WorkersAssumption, FS_Subset
<1> QED BY <1>1, <1>2, FS_CardinalityType

\* A step that concerns nobody's reactions to s leaves them in order.
LEMMA ElsewhereKeepsCounts ==
    ASSUME NEW s \in Slugs, CountsFor(s), reactionCount'[s] = reactionCount[s],
           \A r : r[1] = s => (r \in reactionActors' <=> r \in reactionActors),
           \A w \in Workers : AtReaction(w, s) \/ AtReaction(w, s)' =>
                                  pc'[w] = pc[w] /\ act'[w] = act[w]
    PROVE  CountsFor(s)'
<1>1. \A w \in Workers : AtReaction(w, s)' <=> AtReaction(w, s)
  BY DEF AtReaction
<1>2. \A w \in Workers : AtReaction(w, s)' => ActorRow(w)' = ActorRow(w) /\ ActorRow(w)[1] = s
  BY <1>1 DEF AtReaction, ActorRow
<1>3. OneAtATime(s)'
  BY <1>1, <1>2 DEF CountsFor, OneAtATime
<1>4. RowsExpected(s)'
  <2> SUFFICES ASSUME NEW w \in Workers, AtReaction(w, s)'
               PROVE  pc'[w] = "putActor" <=> ActorRow(w)' \notin reactionActors'
    BY DEF RowsExpected
  <2>1. AtReaction(w, s) /\ pc'[w] = pc[w] /\ ActorRow(w)' = ActorRow(w) /\ ActorRow(w)[1] = s
    BY <1>1, <1>2
  <2>2. pc[w] = "putActor" <=> ActorRow(w) \notin reactionActors
    BY <2>1 DEF CountsFor, RowsExpected
  <2> QED BY <2>1, <2>2
<1>5. RowsOf(s)' = RowsOf(s)
  BY DEF RowsOf
<1>6. Between("putActor", s)' = Between("putActor", s)
  BY DEF Between, AtReaction
<1>7. Between("dropActor", s)' = Between("dropActor", s)
  BY DEF Between, AtReaction
<1> QED BY <1>3, <1>4, <1>5, <1>6, <1>7 DEF CountsFor, CountIs

\* The first statement of a like or an undo comes with the history that allows it.
LEMMA FirstStatement ==
    ASSUME Core, ReactionTypes, NEW w \in Workers, CountReaction(w) \/ Decrement(w),
           NEW s \in Slugs, act[w].target = s, CountsFor(s), ~Racing(w),
           CountReaction(w) => ActorRow(w) \notin reactionActors,
           Decrement(w) => ActorRow(w) \in reactionActors
    PROVE  OneAtATime(s)' /\ RowsExpected(s)'
<1>1. /\ pc[w] \in {"countReaction", "decrement"} /\ act' = act /\ reactionActors' = reactionActors
      /\ pc' = [pc EXCEPT ![w] = IF CountReaction(w) THEN "putActor" ELSE "dropActor"]
  <2>1. CASE CountReaction(w)
    BY <2>1, AfterIs DEF CountReaction, At, Proceeds, Goes
  <2>2. CASE Decrement(w)
    <3>1. pc[w] = "decrement" /\ ~CountReaction(w)
      BY <2>2 DEF Decrement, At, CountReaction
    <3> QED BY <2>2, <3>1, AfterIs DEF Decrement, At, Proceeds, Goes
  <2> QED BY <2>1, <2>2
<1> DEFINE step == IF CountReaction(w) THEN "putActor" ELSE "dropActor"
<1>2. pc'[w] = step /\ \A v \in Workers \ {w} : pc'[v] = pc[v]
  BY <1>1 DEF Core, Types
<1>3. \A v \in Workers : ActorRow(v)' = ActorRow(v)
  BY <1>1 DEF ActorRow
<1>4. \A v \in Workers \ {w} : AtReaction(v, s)' <=> AtReaction(v, s)
  BY <1>1, <1>2 DEF AtReaction
<1>5. \A v \in Workers \ {w} : AtReaction(v, s) => ActorRow(v) # ActorRow(w)
  BY DEF Racing, AtReaction
<1>6. OneAtATime(s)'
  BY <1>3, <1>4, <1>5 DEF CountsFor, OneAtATime
<1>7. ASSUME NEW v \in Workers, AtReaction(v, s)'
      PROVE  pc'[v] = "putActor" <=> ActorRow(v)' \notin reactionActors'
  <2>1. CASE v = w
    <3>1. step = "putActor" <=> ActorRow(w) \notin reactionActors
      OBVIOUS
    <3> QED BY <1>1, <1>2, <1>3, <2>1, <3>1
  <2>2. CASE v # w
    BY <1>1, <1>2, <1>3, <1>4, <1>7, <2>2 DEF CountsFor, RowsExpected
  <2> QED BY <2>1, <2>2
<1>8. RowsExpected(s)'
  BY <1>7 DEF RowsExpected
<1> QED BY <1>6, <1>8

\* An actor's like makes the count one more than the rows that are to come.
LEMMA CountReactionKeepsCounts ==
    ASSUME Core, ReactionTypes, NEW w \in Workers, CountReaction(w), NEW s \in Slugs,
           act[w].target = s, s \notin irregular', CountsFor(s)
    PROVE  CountsFor(s)'
<1>1. /\ pc[w] = "countReaction" /\ act' = act /\ reactionActors' = reactionActors
      /\ pc' = [pc EXCEPT ![w] = "putActor"]
      /\ reactionCount' = [reactionCount EXCEPT ![s] = @ + 1]
      /\ ActorRow(w) \notin reactionActors /\ ~Racing(w)
  BY AfterIs DEF CountReaction, At, Proceeds, Goes, Notes
<1>2. OneAtATime(s)' /\ RowsExpected(s)'
  <2>1. ~Decrement(w)
    BY <1>1 DEF Decrement, At
  <2> QED BY <1>1, <2>1, FirstStatement
<1>3. pc'[w] = "putActor" /\ \A v \in Workers \ {w} : pc'[v] = pc[v]
  BY <1>1 DEF Core, Types
<1>4. Between("putActor", s)' = Between("putActor", s) \cup {w} /\ w \notin Between("putActor", s)
  BY <1>1, <1>3 DEF Between
<1>5. Between("dropActor", s)' = Between("dropActor", s)
  BY <1>1, <1>3 DEF Between
<1>6. RowsOf(s)' = RowsOf(s)
  BY <1>1 DEF RowsOf
<1>7. Cardinality(Between("putActor", s))' = Cardinality(Between("putActor", s)) + 1
  BY <1>4, ReactionSetsFinite, FS_AddElement
<1>8. reactionCount'[s] = reactionCount[s] + 1
  BY <1>1 DEF ReactionTypes
<1>9. CountIs(s)'
  BY <1>5, <1>6, <1>7, <1>8, ReactionSetsFinite DEF CountsFor, CountIs
<1> QED BY <1>2, <1>9 DEF CountsFor

LEMMA PutActorKeepsCounts ==
    ASSUME Core, ReactionTypes, NEW w \in Workers, PutActor(w), NEW s \in Slugs,
           act[w].target = s, CountsFor(s)
    PROVE  CountsFor(s)'
<1>1. /\ pc[w] = "putActor" /\ act' = act /\ reactionCount' = reactionCount
      /\ pc' = [pc EXCEPT ![w] = "finished"]
      /\ reactionActors' = reactionActors \cup {ActorRow(w)}
  BY AfterIs DEF PutActor, At, Proceeds, Goes
<1>2. pc'[w] = "finished" /\ \A v \in Workers \ {w} : pc'[v] = pc[v]
  BY <1>1 DEF Core, Types
<1>3. AtReaction(w, s) /\ ActorRow(w) \notin reactionActors /\ ActorRow(w)[1] = s
  BY <1>1 DEF AtReaction, CountsFor, RowsExpected, ActorRow
<1>4. \A v \in Workers : AtReaction(v, s)' => v # w /\ AtReaction(v, s) /\ ActorRow(v)' = ActorRow(v)
  BY <1>1, <1>2 DEF AtReaction, ActorRow
<1>5. OneAtATime(s)'
  BY <1>4 DEF CountsFor, OneAtATime
<1>6. RowsExpected(s)'
  <2> SUFFICES ASSUME NEW v \in Workers, AtReaction(v, s)'
               PROVE  pc'[v] = "putActor" <=> ActorRow(v)' \notin reactionActors'
    BY DEF RowsExpected
  <2>1. v # w /\ AtReaction(v, s) /\ ActorRow(v)' = ActorRow(v)
    BY <1>4
  <2>2. ActorRow(v) # ActorRow(w)
    BY <1>3, <2>1 DEF CountsFor, OneAtATime
  <2> QED BY <1>1, <1>2, <2>1, <2>2 DEF CountsFor, RowsExpected
<1>7. Between("putActor", s)' = Between("putActor", s) \ {w} /\ w \in Between("putActor", s)
  BY <1>1, <1>2 DEF Between
<1>8. Between("dropActor", s)' = Between("dropActor", s)
  BY <1>1, <1>2 DEF Between
<1>9. RowsOf(s)' = RowsOf(s) \cup {ActorRow(w)} /\ ActorRow(w) \notin RowsOf(s)
  BY <1>1, <1>3 DEF RowsOf
<1>10. Cardinality(Between("putActor", s))' = Cardinality(Between("putActor", s)) - 1
  BY <1>7, ReactionSetsFinite, OneLess
<1>11. Cardinality(RowsOf(s))' = Cardinality(RowsOf(s)) + 1
  BY <1>9, ReactionSetsFinite, FS_AddElement
<1>12. CountIs(s)'
  BY <1>1, <1>8, <1>10, <1>11, ReactionSetsFinite DEF CountsFor, CountIs
<1> QED BY <1>5, <1>6, <1>12 DEF CountsFor

\* Undos in progress are of different actors that have a row: there is one to
\* count for each, and for one that has not begun.
LEMMA CountCoversUndos ==
    ASSUME ReactionTypes, NEW s \in Slugs, CountsFor(s), NEW row \in RowsOf(s),
           \A v \in Between("dropActor", s) : ActorRow(v) # row
    PROVE  reactionCount[s] > 0
<1> DEFINE D == Between("dropActor", s)
           R == RowsOf(s) \ {row}
           f == [v \in D |-> ActorRow(v)]
<1>1. IsFiniteSet(D) /\ IsFiniteSet(RowsOf(s))
  BY ReactionSetsFinite
<1>2. IsFiniteSet(R) /\ Cardinality(R) = Cardinality(RowsOf(s)) - 1
  BY <1>1, FS_RemoveElement
<1>3. f \in Injection(D, R)
  <2>1. \A v \in D : v \in Workers /\ AtReaction(v, s) /\ pc[v] = "dropActor"
    BY DEF Between, AtReaction
  <2>2. \A v \in D : ActorRow(v) \in R
    BY <2>1 DEF CountsFor, RowsExpected, RowsOf, ActorRow, AtReaction
  <2>3. \A v, w \in D : v # w => ActorRow(v) # ActorRow(w)
    BY <2>1 DEF CountsFor, OneAtATime
  <2> HIDE DEF D, R
  <2>4. f \in [D -> R]
    BY <2>2
  <2>5. \A v, w \in D : f[v] = f[w] => v = w
    BY <2>3
  <2>6. IsInjective(f)
    BY <2>5 DEF IsInjective
  <2> QED BY <2>4, <2>6 DEF Injection
<1>4. Cardinality(D) <= Cardinality(R)
  BY <1>1, <1>2, <1>3, FS_Injection DEF ExistsInjection
<1>5. Cardinality(Between("putActor", s)) \in Nat /\ Cardinality(D) \in Nat
        /\ Cardinality(RowsOf(s)) \in Nat /\ reactionCount[s] \in Nat
  BY ReactionSetsFinite DEF ReactionTypes
<1> QED BY <1>2, <1>4, <1>5 DEF CountsFor, CountIs

LEMMA DecrementKeepsCounts ==
    ASSUME Core, ReactionTypes, NEW w \in Workers, Decrement(w), NEW s \in Slugs,
           act[w].target = s, s \notin irregular', CountsFor(s)
    PROVE  CountsFor(s)'
<1>1. /\ pc[w] = "decrement" /\ act' = act /\ reactionActors' = reactionActors
      /\ pc' = [pc EXCEPT ![w] = "dropActor"]
      /\ reactionCount' = [reactionCount EXCEPT ![s] = LessOne(@)]
      /\ ActorRow(w) \in reactionActors /\ ~Racing(w)
  BY AfterIs DEF Decrement, At, Proceeds, Goes, Notes
<1>2. OneAtATime(s)' /\ RowsExpected(s)'
  <2>1. ~CountReaction(w)
    BY <1>1 DEF CountReaction, At
  <2> QED BY <1>1, <2>1, FirstStatement
<1>3. pc'[w] = "dropActor" /\ \A v \in Workers \ {w} : pc'[v] = pc[v]
  BY <1>1 DEF Core, Types
<1>4. Between("dropActor", s)' = Between("dropActor", s) \cup {w} /\ w \notin Between("dropActor", s)
  BY <1>1, <1>3 DEF Between
<1>5. Between("putActor", s)' = Between("putActor", s)
  BY <1>1, <1>3 DEF Between
<1>6. RowsOf(s)' = RowsOf(s)
  BY <1>1 DEF RowsOf
<1>7. Cardinality(Between("dropActor", s))' = Cardinality(Between("dropActor", s)) + 1
  BY <1>4, ReactionSetsFinite, FS_AddElement
<1>8. reactionCount[s] > 0
  <2>1. ActorRow(w) \in RowsOf(s)
    BY <1>1 DEF RowsOf, ActorRow
  <2>2. \A v \in Between("dropActor", s) : ActorRow(v) # ActorRow(w)
    BY <1>1 DEF Between, Racing
  <2> QED BY <2>1, <2>2, CountCoversUndos
<1>9. reactionCount'[s] = reactionCount[s] - 1
  BY <1>1, <1>8 DEF ReactionTypes, LessOne
<1>10. CountIs(s)'
  BY <1>5, <1>6, <1>7, <1>9, ReactionSetsFinite DEF CountsFor, CountIs
<1> QED BY <1>2, <1>10 DEF CountsFor

LEMMA DropActorKeepsCounts ==
    ASSUME Core, ReactionTypes, NEW w \in Workers, DropActor(w), NEW s \in Slugs,
           act[w].target = s, CountsFor(s)
    PROVE  CountsFor(s)'
<1>1. /\ pc[w] = "dropActor" /\ act' = act /\ reactionCount' = reactionCount
      /\ pc' = [pc EXCEPT ![w] = "finished"]
      /\ reactionActors' = reactionActors \ {ActorRow(w)}
  BY AfterIs DEF DropActor, At, Proceeds, Goes
<1>2. pc'[w] = "finished" /\ \A v \in Workers \ {w} : pc'[v] = pc[v]
  BY <1>1 DEF Core, Types
<1>3. AtReaction(w, s) /\ ActorRow(w) \in reactionActors /\ ActorRow(w)[1] = s
  BY <1>1 DEF AtReaction, CountsFor, RowsExpected, ActorRow
<1>4. \A v \in Workers : AtReaction(v, s)' => v # w /\ AtReaction(v, s) /\ ActorRow(v)' = ActorRow(v)
  BY <1>1, <1>2 DEF AtReaction, ActorRow
<1>5. OneAtATime(s)'
  BY <1>4 DEF CountsFor, OneAtATime
<1>6. RowsExpected(s)'
  <2> SUFFICES ASSUME NEW v \in Workers, AtReaction(v, s)'
               PROVE  pc'[v] = "putActor" <=> ActorRow(v)' \notin reactionActors'
    BY DEF RowsExpected
  <2>1. v # w /\ AtReaction(v, s) /\ ActorRow(v)' = ActorRow(v)
    BY <1>4
  <2>2. ActorRow(v) # ActorRow(w)
    BY <1>3, <2>1 DEF CountsFor, OneAtATime
  <2> QED BY <1>1, <1>2, <2>1, <2>2 DEF CountsFor, RowsExpected
<1>7. Between("dropActor", s)' = Between("dropActor", s) \ {w} /\ w \in Between("dropActor", s)
  BY <1>1, <1>2 DEF Between
<1>8. Between("putActor", s)' = Between("putActor", s)
  BY <1>1, <1>2 DEF Between
<1>9. RowsOf(s)' = RowsOf(s) \ {ActorRow(w)} /\ ActorRow(w) \in RowsOf(s)
  BY <1>1, <1>3 DEF RowsOf
<1>10. Cardinality(Between("dropActor", s))' = Cardinality(Between("dropActor", s)) - 1
  BY <1>7, ReactionSetsFinite, OneLess
<1>11. Cardinality(RowsOf(s))' = Cardinality(RowsOf(s)) - 1
  BY <1>9, ReactionSetsFinite, FS_RemoveElement
<1>12. CountIs(s)'
  BY <1>1, <1>8, <1>10, <1>11, ReactionSetsFinite DEF CountsFor, CountIs
<1> QED BY <1>5, <1>6, <1>12 DEF CountsFor

\* Worker w is at a reaction step from one moment to the next, or a D1 statement of
\* the reaction, or a failure there, came between.
LEMMA ReactionSteps ==
    ASSUME Core, [Next]_vars
    PROVE  \/ \E w \in Workers : CountReaction(w) \/ PutActor(w) \/ Decrement(w) \/ DropActor(w)
           \/ /\ UNCHANGED reactions /\ irregular \subseteq irregular'
              /\ \A w \in Workers, s \in Slugs \ irregular' :
                    AtReaction(w, s) \/ AtReaction(w, s)' => pc'[w] = pc[w] /\ act'[w] = act[w]
<1>1. Types /\ InStep
  BY DEF Core
<1>2. CASE UNCHANGED vars
  BY <1>2 DEF vars, consumer, stores, reactions, history
<1>3. CASE Request
  BY <1>3 DEF Request, Receive, EnqueueFails, consumer, stores, reactions
<1>4. ASSUME NEW v \in Workers, WorkerStep(v) \/ Failure(v), UNCHANGED reactions,
             irregular \subseteq irregular',
             \A s \in Slugs \ irregular' : ~AtReaction(v, s) /\ ~AtReaction(v, s)'
      PROVE  \A w \in Workers, s \in Slugs \ irregular' :
                 AtReaction(w, s) \/ AtReaction(w, s)' => pc'[w] = pc[w] /\ act'[w] = act[w]
  <2>1. \A w \in Workers \ {v} : pc'[w] = pc[w] /\ act'[w] = act[w]
    BY <1>1, <1>4, OthersUntouched
  <2> QED BY <1>4, <2>1
<1>5. ASSUME NEW v \in Workers, WorkerStep(v),
             ~(CountReaction(v) \/ PutActor(v) \/ Decrement(v) \/ DropActor(v))
      PROVE  /\ UNCHANGED reactions /\ irregular \subseteq irregular'
             /\ pc[v] \notin {"putActor", "dropActor"} /\ pc'[v] \notin {"putActor", "dropActor"}
  <2>1. CASE ReceiveBatch(v) \/ Ack(v) \/ FetchFails(v)
    BY <1>1, <2>1, StepsAre
       DEF ReceiveBatch, Ack, FetchFails, At, Goes, Types, InStep, stores, history, reactions
  <2>2. CASE Dispatch(v)
    BY <1>1, <2>2 DEF Dispatch, At, Goes, Types, Entry, stores, reactions
  <2>3. CASE CheckAuthor(v)
    <3>1. act[v].type \in AboutArticle
      BY <2>3 DEF CheckAuthor, At, Core, InStep, Checked, Fits
    <3>2. FirstEffect[act[v].type] \in {"putComment", "putReaction", "decrement"}
      BY <3>1 DEF FirstEffect, AboutArticle
    <3> QED BY <1>1, <2>3, <3>2 DEF CheckAuthor, At, Goes, Types, stores, history, reactions
  <2>4. CASE PutObject(v) \/ CountComment(v) \/ AddFollower(v) \/ SendAccept(v) \/ RemoveFollower(v)
    BY <1>1, <2>4, AfterIs DEF PutObject, CountComment, AddFollower, SendAccept, RemoveFollower, At,
       Proceeds, Goes, Types, reactions, history, stores
  <2>5. CASE FetchActor(v)
    BY <1>1, <2>5, AfterIs DEF FetchActor, At, Proceeds, Goes, Types, reactions, history, stores
  <2> QED BY <1>5, <2>1, <2>2, <2>3, <2>4, <2>5 DEF WorkerStep
<1>6. ASSUME NEW v \in Workers, Failure(v)
      PROVE  /\ UNCHANGED reactions /\ irregular \subseteq irregular'
             /\ \A s \in Slugs \ irregular' : ~AtReaction(v, s) /\ ~AtReaction(v, s)'
  <2>1. CASE AssetFails(v) \/ PutFails(v)
    BY <1>1, <2>1 DEF AssetFails, PutFails, At, Goes, Types, AtReaction, stores, reactions
  <2>2. CASE StatementFails(v)
    <3>1. /\ UNCHANGED reactions /\ irregular \subseteq irregular' /\ act' = act
          /\ pc[v] \in D1Steps /\ pc' = [pc EXCEPT ![v] = After(pc[v])]
          /\ act[v].type \in {"Like", "UndoLike"} => act[v].target \in irregular'
      BY <2>2 DEF StatementFails, Notes, Proceeds, Goes, stores
    <3>2. pc[v] \in {"countReaction", "putActor", "decrement", "dropActor"} =>
             act[v].target \in irregular'
      BY <3>1, ActivityOf DEF Fits
    <3>3. pc[v] \notin {"countReaction", "putActor", "decrement", "dropActor"} =>
             pc'[v] \notin {"putActor", "dropActor"}
      BY <1>1, <3>1, AfterIs DEF D1Steps, Types
    <3> QED BY <3>1, <3>2, <3>3 DEF AtReaction
  <2>3. CASE Crash(v)
    <3>1. UNCHANGED reactions /\ pc' = [pc EXCEPT ![v] = "next"]
      BY <2>3 DEF Crash, Goes, stores
    <3>2. irregular \subseteq irregular'
      BY <2>3 DEF Crash, Notes
    <3>3. ASSUME pc[v] \in {"putActor", "dropActor"}
          PROVE  act[v].target \in irregular'
      <4>1. act[v] # None
        BY <3>3, ActivityOf
      <4> QED BY <2>3, <3>3, <4>1 DEF Crash, Notes
    <3>4. pc'[v] = "next"
      BY <1>1, <3>1 DEF Types
    <3> QED BY <3>1, <3>2, <3>3, <3>4 DEF AtReaction
  <2> QED BY <1>6, <2>1, <2>2, <2>3 DEF Failure
<1>7. ASSUME NEW v \in Workers, WorkerStep(v),
             ~(CountReaction(v) \/ PutActor(v) \/ Decrement(v) \/ DropActor(v))
      PROVE  /\ UNCHANGED reactions /\ irregular \subseteq irregular'
             /\ \A w \in Workers, s \in Slugs \ irregular' :
                   AtReaction(w, s) \/ AtReaction(w, s)' => pc'[w] = pc[w] /\ act'[w] = act[w]
  <2>1. \A s \in Slugs \ irregular' : ~AtReaction(v, s) /\ ~AtReaction(v, s)'
    BY <1>5, <1>7 DEF AtReaction
  <2> QED BY <1>4, <1>5, <1>7, <2>1
<1> QED BY <1>2, <1>3, <1>4, <1>6, <1>7 DEF Next

LEMMA NextReactionTypes == Core /\ ReactionTypes /\ [Next]_vars => ReactionTypes'
<1> SUFFICES ASSUME Core, ReactionTypes, [Next]_vars PROVE ReactionTypes'
  OBVIOUS
<1>1. CASE UNCHANGED reactions
  BY <1>1 DEF reactions, ReactionTypes
<1>2. ASSUME NEW w \in Workers, CountReaction(w) \/ Decrement(w)
      PROVE  ReactionTypes'
  <2>1. reactionActors' = reactionActors
    BY <1>2 DEF CountReaction, Decrement
  <2>2. reactionCount \in [Slugs -> Nat]
    BY DEF ReactionTypes
  <2>3. \A n \in Nat : n + 1 \in Nat /\ LessOne(n) \in Nat
    BY DEF LessOne
  <2>4. \/ reactionCount' = [reactionCount EXCEPT ![act[w].target] = @ + 1]
        \/ reactionCount' = [reactionCount EXCEPT ![act[w].target] = LessOne(@)]
    BY <1>2 DEF CountReaction, Decrement
  <2>5. reactionCount' \in [Slugs -> Nat]
    BY <2>2, <2>3, <2>4
  <2> QED BY <2>1, <2>5 DEF ReactionTypes
<1>3. ASSUME NEW w \in Workers, PutActor(w)
      PROVE  ReactionTypes'
  <2>1. reactionCount' = reactionCount /\ reactionActors' = reactionActors \cup {ActorRow(w)}
    BY <1>3 DEF PutActor
  <2> QED BY <2>1, FS_AddElement DEF ReactionTypes
<1>4. ASSUME NEW w \in Workers, DropActor(w)
      PROVE  ReactionTypes'
  <2>1. reactionCount' = reactionCount /\ reactionActors' = reactionActors \ {ActorRow(w)}
    BY <1>4 DEF DropActor
  <2> QED BY <2>1, FS_RemoveElement DEF ReactionTypes
<1> QED BY <1>1, <1>2, <1>3, <1>4, ReactionSteps

\* A statement of a like or undo for another article does not concern s.
LEMMA OtherArticleKeepsCounts ==
    ASSUME Core, ReactionTypes, NEW w \in Workers,
           CountReaction(w) \/ PutActor(w) \/ Decrement(w) \/ DropActor(w),
           NEW s \in Slugs, act[w].target # s, CountsFor(s)
    PROVE  CountsFor(s)'
<1>1. act' = act /\ \A v \in Workers \ {w} : pc'[v] = pc[v]
  BY DEF Core, Types, CountReaction, PutActor, Decrement, DropActor, Proceeds, Goes
<1>2. \A v \in Workers : AtReaction(v, s) \/ AtReaction(v, s)' => pc'[v] = pc[v] /\ act'[v] = act[v]
  BY <1>1 DEF AtReaction
<1>3. reactionCount'[s] = reactionCount[s]
  BY DEF ReactionTypes, CountReaction, PutActor, Decrement, DropActor
<1>4. ActorRow(w)[1] = act[w].target
  BY DEF ActorRow
<1>5. \A r : r[1] = s => (r \in reactionActors' <=> r \in reactionActors)
  BY <1>4 DEF CountReaction, PutActor, Decrement, DropActor
<1> QED BY <1>2, <1>3, <1>5, ElsewhereKeepsCounts

LEMMA NextReactions == Core /\ ReactionsInv /\ [Next]_vars => ReactionsInv'
<1> SUFFICES ASSUME Core, ReactionsInv, [Next]_vars, NEW s \in Slugs \ irregular'
             PROVE  CountsFor(s)'
  BY NextReactionTypes DEF ReactionsInv
<1>1. ReactionTypes
  BY DEF ReactionsInv
<1>2. ASSUME NEW w \in Workers, CountReaction(w) \/ PutActor(w) \/ Decrement(w) \/ DropActor(w)
      PROVE  CountsFor(s)'
  <2>1. s \notin irregular
    BY <1>2 DEF CountReaction, PutActor, Decrement, DropActor, Notes, history
  <2>2. CountsFor(s)
    BY <2>1 DEF ReactionsInv
  <2>3. CASE act[w].target # s
    BY <1>1, <1>2, <2>2, <2>3, OtherArticleKeepsCounts
  <2>4. CASE act[w].target = s
    BY <1>1, <1>2, <2>2, <2>4, CountReactionKeepsCounts, PutActorKeepsCounts, DecrementKeepsCounts,
       DropActorKeepsCounts
  <2> QED BY <2>3, <2>4
<1>3. CASE /\ UNCHANGED reactions /\ irregular \subseteq irregular'
           /\ \A w \in Workers, t \in Slugs \ irregular' :
                 AtReaction(w, t) \/ AtReaction(w, t)' => pc'[w] = pc[w] /\ act'[w] = act[w]
  <2>1. CountsFor(s)
    BY <1>3 DEF ReactionsInv
  <2>2. reactionCount' = reactionCount /\ reactionActors' = reactionActors
    BY <1>3 DEF reactions
  <2> QED BY <1>3, <2>1, <2>2, ElsewhereKeepsCounts
<1> QED BY <1>2, <1>3, ReactionSteps

LEMMA InitReactions == Init => ReactionsInv
<1> SUFFICES ASSUME Init PROVE ReactionsInv
  OBVIOUS
<1>1. ReactionTypes
  BY FS_EmptySet DEF Init, ReactionTypes
<1>2. ASSUME NEW s \in Slugs
      PROVE  CountsFor(s)
  <2>1. RowsOf(s) = {}
    BY DEF Init, RowsOf
  <2>2. Between("putActor", s) = {} /\ Between("dropActor", s) = {}
    BY DEF Init, Between
  <2>3. Cardinality(RowsOf(s)) = 0 /\ Cardinality(Between("putActor", s)) = 0
          /\ Cardinality(Between("dropActor", s)) = 0
    BY <2>1, <2>2, FS_EmptySet
  <2>4. reactionCount[s] = 0
    BY DEF Init
  <2>5. CountIs(s)
    BY <2>3, <2>4 DEF CountIs
  <2> QED BY <2>5 DEF Init, CountsFor, OneAtATime, RowsExpected, AtReaction
<1> QED BY <1>1, <1>2 DEF ReactionsInv

\* The reaction count of an article is the number of the actors that are kept for
\* it, give or take the statements still to come, whatever likes and undos of
\* different actors come in between, as long as each actor's own come by turns.
THEOREM CountsAreOfActors == Spec => []CountMatchesActors
<1>1. ReactionsInv => CountMatchesActors
  BY DEF ReactionsInv, CountsFor, CountIs, RowsOf, CountMatchesActors
<1>2. IndInv /\ ReactionsInv /\ [Next]_vars => ReactionsInv'
  BY NextReactions DEF IndInv
<1> QED BY InitReactions, <1>1, <1>2, Invariance, PTL DEF Spec

-------------------------------------------------------------------------------
(* Where a message that waits goes.                                        *)

\* Message m waits for a consumer to begin with it.
Waits(m) ==
    \/ m \in Queued
    \/ \E w \in Workers : \E k \in DOMAIN batch[w] : batch[w][k] = m /\ (k > 1 \/ pc[w] = "next")

LEMMA RedeliveredFields ==
    ASSUME NEW m \in Message, CanRedeliver(m)
    PROVE  /\ Redelivered(m) \in Message /\ Redelivered(m).tries > 0
           /\ Redelivered(m).to = m.to /\ Redelivered(m).actor = m.actor
           /\ Redelivered(m).body = m.body /\ Bodies(Redelivered(m)) = Bodies(m)
<1>1. PICK r \in Requests, n \in 0..MaxRetries :
         m = [to |-> r.to, id |-> r.body.id, body |-> IF r.actor = None THEN None ELSE r.body,
              actor |-> r.actor, tries |-> n]
  BY MessageFields
<1>2. Redelivered(m)
        = [to |-> r.to, id |-> r.body.id, body |-> IF r.actor = None THEN None ELSE r.body,
           actor |-> r.actor, tries |-> n + 1]
  BY <1>1, TriesOnly DEF Redelivered
<1>3. Redelivered(m).id = m.id /\ Redelivered(m).tries > 0
  BY <1>1, <1>2, BoundsAssumption
<1>4. Redelivered(m).body = m.body
  BY RedeliveredMessage
<1>5. Bodies(Redelivered(m)) = Bodies(m)
  BY <1>3, <1>4 DEF Bodies
<1> QED BY <1>3, <1>5, RedeliveredMessage

\* Nothing is lost by requeueing but what has been retried too often.
LEMMA RequeuedKeeps ==
    ASSUME Types, NEW s \in Seq(Message)
    PROVE  /\ \A m \in Message : queue[m] > 0 => Requeued(s)[m] > 0
           /\ \A k \in DOMAIN s : CanRedeliver(s[k]) => Requeued(s)[Redelivered(s[k])] > 0
<1> DEFINE K(m) == {k \in DOMAIN s : CanRedeliver(s[k]) /\ Redelivered(s[k]) = m}
<1>1. ASSUME NEW m \in Message
      PROVE  Cardinality(K(m)) \in Nat /\ (K(m) # {} => Cardinality(K(m)) # 0)
  <2>1. DOMAIN s = 1..Len(s) /\ Len(s) \in Nat
    OBVIOUS
  <2>2. IsFiniteSet(1..Len(s))
    BY <2>1, FS_Interval
  <2>3. IsFiniteSet(K(m))
    BY <2>1, <2>2, FS_Subset
  <2> QED BY <2>3, FS_CardinalityType, FS_EmptySet
<1>2. \A m \in Message : queue[m] \in Nat
  BY DEF Types
<1>3. Requeued(s) = [m \in Message |-> queue[m] + Cardinality(K(m))]
  BY DEF Requeued
<1>4. ASSUME NEW k \in DOMAIN s, CanRedeliver(s[k])
      PROVE  k \in K(Redelivered(s[k])) /\ Redelivered(s[k]) \in Message
  BY <1>4, RedeliveredFields
<1> HIDE DEF K
<1>5. \A m \in Message : queue[m] > 0 \/ K(m) # {} => Requeued(s)[m] > 0
  BY <1>1, <1>2, <1>3
<1> QED BY <1>4, <1>5

LEMMA CrashRequeues ==
    ASSUME Core, NEW w \in Workers, Crash(w), NEW m \in Held(w)
    PROVE  \/ CanRedeliver(m) /\ Redelivered(m) \in Queued'
           \/ Bodies(m) \subseteq spoiled'
<1>1. PICK k \in DOMAIN batch[w] : batch[w][k] = m
  BY DEF Held
<1>2. /\ batch[w] \in Seq(Message) /\ queue' = Requeued(batch[w])
      /\ spoiled' = spoiled \cup LostFrom(batch[w])
  BY DEF Core, Types, Crash
<1>3. CASE CanRedeliver(m)
  <2>1. m \in Message
    BY <1>1, <1>2
  <2>2. queue'[Redelivered(m)] > 0 /\ Redelivered(m) \in Message
    BY <1>1, <1>2, <1>3, <2>1, RequeuedKeeps, RedeliveredFields DEF Core
  <2> QED BY <1>3, <2>2 DEF Queued
<1>4. CASE ~CanRedeliver(m)
  BY <1>1, <1>2, <1>4 DEF LostFrom
<1> QED BY <1>3, <1>4

\* Only a few steps move messages.
LEMMA MovesMessages ==
    ASSUME [Next]_vars
    PROVE  \/ queue' = queue /\ batch' = batch
           \/ \E r \in Requests : Receive(r)
           \/ \E w \in Workers : ReceiveBatch(w) \/ Ack(w) \/ Crash(w)
<1>1. CASE UNCHANGED vars
  BY <1>1 DEF vars, consumer
<1>2. CASE Request
  BY <1>2 DEF Request, EnqueueFails, consumer
<1>3. ASSUME NEW w \in Workers, WorkerStep(w), ~(ReceiveBatch(w) \/ Ack(w))
      PROVE  queue' = queue /\ batch' = batch
  BY <1>3 DEF WorkerStep, Dispatch, FetchFails, CheckAuthor, PutObject, CountComment, CountReaction,
     PutActor, Decrement, DropActor, FetchActor, AddFollower, SendAccept, RemoveFollower
<1>4. ASSUME NEW w \in Workers, Failure(w), ~Crash(w)
      PROVE  queue' = queue /\ batch' = batch
  BY <1>4 DEF Failure, AssetFails, PutFails, StatementFails
<1> QED BY <1>1, <1>2, <1>3, <1>4 DEF Next

\* A consumer begins with a message by Dispatch, unless fetching it fails.
LEMMA LeavesNext ==
    ASSUME Core, [Next]_vars, NEW w \in Workers, pc[w] = "next", pc'[w] # "next"
    PROVE  Dispatch(w) \/ FetchFails(w)
<1>1. Types
  BY DEF Core
<1>2. CASE UNCHANGED vars
  BY <1>2 DEF vars, consumer
<1>3. CASE Request
  BY <1>3 DEF Request, Receive, EnqueueFails, consumer
<1>4. ASSUME NEW v \in Workers, WorkerStep(v) \/ Failure(v), v # w
      PROVE  FALSE
  BY <1>1, <1>4, OthersUntouched
<1>5. CASE WorkerStep(w)
  BY <1>1, <1>5 DEF WorkerStep, ReceiveBatch, CheckAuthor, PutObject, CountComment, CountReaction,
     PutActor, Decrement, DropActor, FetchActor, AddFollower, SendAccept, RemoveFollower, Ack, At
<1>6. CASE Failure(w)
  <2>1. CASE AssetFails(w) \/ PutFails(w) \/ StatementFails(w)
    BY <2>1 DEF AssetFails, PutFails, StatementFails, At, D1Steps
  <2>2. CASE Crash(w)
    BY <1>1, <2>2 DEF Crash, Goes, Types
  <2> QED BY <1>6, <2>1, <2>2 DEF Failure
<1> QED BY <1>2, <1>3, <1>4, <1>5, <1>6 DEF Next

\* Between two steps worker w keeps its message, unless it dies.
LEMMA MidMessage ==
    ASSUME Core, [Next]_vars, NEW w \in Workers, pc[w] \notin {"next", "finished"}
    PROVE  \/ /\ batch'[w] = batch[w] /\ act'[w] = act[w]
              /\ pc'[w] = pc[w] \/ WorkerStep(w) \/ Failure(w)
           \/ Crash(w)
<1>1. Types
  BY DEF Core
<1>2. CASE UNCHANGED vars
  BY <1>2 DEF vars, consumer
<1>3. CASE Request
  BY <1>3 DEF Request, Receive, EnqueueFails, consumer
<1>4. ASSUME NEW v \in Workers, WorkerStep(v) \/ Failure(v), v # w
      PROVE  batch'[w] = batch[w] /\ act'[w] = act[w] /\ pc'[w] = pc[w]
  BY <1>1, <1>4, OthersUntouched
<1>5. CASE WorkerStep(w)
  <2>1. ~ReceiveBatch(w)
    BY DEF ReceiveBatch, Core, InStep
  <2> QED BY <1>5, <2>1 DEF WorkerStep, Dispatch, FetchFails, CheckAuthor, PutObject, CountComment,
     CountReaction, PutActor, Decrement, DropActor, FetchActor, AddFollower, SendAccept,
     RemoveFollower, Ack, At
<1>6. CASE Failure(w) /\ ~Crash(w)
  BY <1>6 DEF Failure, AssetFails, PutFails, StatementFails
<1> QED BY <1>2, <1>3, <1>4, <1>5, <1>6 DEF Next

LEMMA WaitingInBatch ==
    ASSUME Core, NEW w \in Workers, ReceiveBatch(w), NEW m, Waits(m)
    PROVE  Waits(m)'
<1>1. PICK n \in 1..MaxBatch : \E b \in [1..n -> Queued] :
         /\ \A k \in 1..n : Copies(b, b[k]) <= queue[b[k]]
         /\ queue' = [q \in Message |-> queue[q] - Copies(b, q)]
         /\ batch' = [batch EXCEPT ![w] = b]
  BY DEF ReceiveBatch
<1>2. PICK b \in [1..n -> Queued] :
         /\ \A k \in 1..n : Copies(b, b[k]) <= queue[b[k]]
         /\ queue' = [q \in Message |-> queue[q] - Copies(b, q)]
         /\ batch' = [batch EXCEPT ![w] = b]
  BY <1>1
<1>3. /\ batch[w] = <<>> /\ pc' = pc /\ pc[w] = "next" /\ Types
      /\ batch'[w] = b /\ \A v \in Workers \ {w} : batch'[v] = batch[v]
  BY <1>2 DEF ReceiveBatch, Core, InStep, Types
<1>4. b \in Seq(Message) /\ DOMAIN b = 1..n
  <2>1. Queued \subseteq Message /\ n \in Nat
    BY BoundsAssumption DEF Queued
  <2> QED BY <2>1
<1>5. CASE m \in Queued
  <2>1. m \in Message /\ queue[m] \in Nat /\ queue[m] > 0
    BY <1>3, <1>5 DEF Queued, Types
  <2>2. CASE \E k \in DOMAIN b : b[k] = m
    BY <1>3, <2>2 DEF Waits
  <2>3. CASE \A k \in DOMAIN b : b[k] # m
    <3>1. Copies(b, m) = 0
      BY <1>4, <2>3, CopiesCount
    <3>2. queue'[m] > 0
      BY <1>2, <2>1, <3>1
    <3> QED BY <2>1, <3>2 DEF Waits, Queued
  <2> QED BY <2>2, <2>3
<1>6. ASSUME NEW v \in Workers, NEW k \in DOMAIN batch[v], batch[v][k] = m, k > 1 \/ pc[v] = "next"
      PROVE  Waits(m)'
  <2>1. v # w
    BY <1>3, <1>6
  <2> QED BY <1>3, <1>6, <2>1 DEF Waits
<1> QED BY <1>5, <1>6 DEF Waits

LEMMA WaitingAfterAck ==
    ASSUME Core, NEW w \in Workers, Ack(w), NEW m, Waits(m)
    PROVE  Waits(m)'
<1>1. /\ batch[w] \in Seq(Message) /\ batch[w] # <<>> /\ pc[w] = "finished" /\ queue' = queue
      /\ batch'[w] = Tail(batch[w]) /\ pc'[w] = "next"
      /\ \A v \in Workers \ {w} : batch'[v] = batch[v] /\ pc'[v] = pc[v]
  BY DEF Ack, At, Goes, Core, Types
<1>2. CASE m \in Queued
  BY <1>1, <1>2 DEF Waits, Queued
<1>3. ASSUME NEW v \in Workers, NEW k \in DOMAIN batch[v], batch[v][k] = m, k > 1 \/ pc[v] = "next"
      PROVE  Waits(m)'
  <2>1. CASE v # w
    BY <1>1, <1>3, <2>1 DEF Waits
  <2>2. CASE v = w
    <3>1. k > 1 /\ k \in 1..Len(batch[w]) /\ batch[w][k] = m
      BY <1>1, <1>3, <2>2
    <3>2. Len(Tail(batch[w])) = Len(batch[w]) - 1 /\ Tail(batch[w]) \in Seq(Message)
      BY <1>1, HeadTailProperties
    <3>3. k - 1 \in DOMAIN Tail(batch[w]) /\ Tail(batch[w])[k - 1] = m
      BY <1>1, <3>1, <3>2, HeadTailProperties
    <3> QED BY <1>1, <3>3 DEF Waits
  <2> QED BY <2>1, <2>2
<1> QED BY <1>2, <1>3 DEF Waits

\* A message that waits goes on waiting until a consumer begins with it, or dies
\* with it in its batch.
LEMMA WaitingGoesOn ==
    ASSUME Core, [Next]_vars, NEW m \in Message, Waits(m)
    PROVE  \/ Waits(m)'
           \/ \E w \in Workers : /\ batch[w] # <<>> /\ Current(w) = m
                                 /\ Dispatch(w) \/ FetchFails(w)
           \/ CanRedeliver(m) /\ Redelivered(m) \in Queued'
           \/ Bodies(m) \subseteq spoiled'
<1>1. Types
  BY DEF Core
<1>2. ASSUME NEW w \in Workers, NEW k \in DOMAIN batch[w], batch[w][k] = m, k > 1 \/ pc[w] = "next",
             batch'[w] = batch[w]
      PROVE  \/ Waits(m)'
             \/ batch[w] # <<>> /\ Current(w) = m /\ (Dispatch(w) \/ FetchFails(w))
  <2>1. CASE k > 1 \/ pc'[w] = "next"
    BY <1>2, <2>1 DEF Waits
  <2>2. CASE ~(k > 1) /\ pc'[w] # "next"
    <3>1. batch[w] \in Seq(Message)
      BY <1>1 DEF Types
    <3>2. k = 1 /\ batch[w] # <<>> /\ Head(batch[w]) = batch[w][1]
      BY <1>2, <2>2, <3>1
    <3> QED BY <1>2, <2>2, <3>2, LeavesNext DEF Current
  <2> QED BY <2>1, <2>2
<1>3. CASE queue' = queue /\ batch' = batch
  <2>1. CASE m \in Queued
    BY <1>3, <2>1 DEF Waits, Queued
  <2>2. ASSUME NEW w \in Workers, NEW k \in DOMAIN batch[w], batch[w][k] = m,
               k > 1 \/ pc[w] = "next"
        PROVE  \/ Waits(m)'
               \/ batch[w] # <<>> /\ Current(w) = m /\ (Dispatch(w) \/ FetchFails(w))
    <3>1. batch'[w] = batch[w]
      BY <1>3
    <3> QED BY <1>2, <2>2, <3>1
  <2> QED BY <2>1, <2>2 DEF Waits
<1>4. ASSUME NEW r \in Requests, Receive(r)
      PROVE  Waits(m)'
  <2>1. /\ queue' = [queue EXCEPT ![Enqueued(r)] = @ + 1] /\ batch' = batch /\ pc' = pc
    BY <1>4 DEF Receive, consumer
  <2>2. queue \in [Message -> Nat] /\ Enqueued(r) \in Message
    BY <1>1, EnqueuedMessage DEF Types
  <2>3. ASSUME NEW q \in Message
        PROVE  queue'[q] >= queue[q] /\ queue'[q] \in Nat
    <3>1. queue'[q] = IF q = Enqueued(r) THEN queue[q] + 1 ELSE queue[q]
      BY <2>1, <2>2
    <3>2. queue[q] \in Nat
      BY <2>2
    <3> QED BY <3>1, <3>2
  <2>4. CASE m \in Queued
    BY <2>2, <2>3, <2>4 DEF Waits, Queued
  <2> QED BY <2>1, <2>4 DEF Waits
<1>5. ASSUME NEW w \in Workers, Crash(w)
      PROVE  \/ Waits(m)'
             \/ CanRedeliver(m) /\ Redelivered(m) \in Queued'
             \/ Bodies(m) \subseteq spoiled'
  <2>1. /\ queue' = Requeued(batch[w]) /\ batch[w] \in Seq(Message)
        /\ \A v \in Workers \ {w} : batch'[v] = batch[v] /\ pc'[v] = pc[v]
    BY <1>1, <1>5 DEF Crash, Goes, Types
  <2>2. CASE m \in Queued
    <3>1. queue'[m] > 0
      BY <1>1, <2>1, <2>2, RequeuedKeeps DEF Queued
    <3> QED BY <3>1 DEF Waits, Queued
  <2>3. CASE m \in Held(w)
    BY <1>5, <2>3, CrashRequeues
  <2>4. ASSUME NEW v \in Workers \ {w}, NEW k \in DOMAIN batch[v], batch[v][k] = m,
               k > 1 \/ pc[v] = "next"
        PROVE  Waits(m)'
    BY <2>1, <2>4 DEF Waits
  <2> QED BY <2>2, <2>3, <2>4 DEF Waits, Held
<1> QED BY <1>3, <1>4, <1>5, MovesMessages, WaitingInBatch, WaitingAfterAck

-------------------------------------------------------------------------------
(* Follows taken back.                                                     *)

\* Message m is an Undo that ends what actor a follows at u, when it is obeyed.
Ends(m, u, a) ==
    /\ m.body # None /\ m.to = u /\ m.actor = a
    /\ m.body.type = "UndoFollow" /\ m.body.target = u /\ m.body.actor = a /\ m.body.of = a

\* Such a message is still to come, or is being obeyed.
UndoPending(u, a) ==
    \/ \E m \in Message : Ends(m, u, a) /\ Waits(m)
    \/ \E w \in Workers : pc[w] = "remove" /\ Ends(Current(w), u, a)
Gone(u, a) == ~Follows(u, a) \/ Spoiled("UndoFollow", u, a) \/ UndoPending(u, a)
LeavesFor(u, a) == ~Coming("Follow", u, a) /\ Gone(u, a)
LeftInv == left \subseteq Users \X Actors /\ \A p \in left : LeavesFor(p[1], p[2])

LEMMA EndsBodies ==
    ASSUME NEW m, NEW u, NEW a \in Actors, Ends(m, u, a)
    PROVE  Bodies(m) = {m.body} /\ Admissible(m, m.body) /\ Entry(m.body) = "remove"
<1>1. Bodies(m) = {m.body}
  BY DEF Ends, Bodies
<1>2. Authorised(m.body, m.actor)
  BY NoneAssumption DEF Ends, Authorised
<1> QED BY <1>1, <1>2 DEF Ends, Admissible, AboutArticle, AboutUser, Undos, Entry

LEMMA HeldInFlight ==
    ASSUME Types, NEW w \in Workers, batch[w] # <<>>
    PROVE  Current(w) \in Held(w) /\ Current(w) \in InFlight
BY CurrentMessage DEF InFlight

\* A row appears only for a Follow in flight.
LEMMA NewFollower ==
    ASSUME Core, [Next]_vars, NEW u, NEW a, ~Follows(u, a), Follows(u, a)'
    PROVE  Coming("Follow", u, a)
<1>1. PICK r \in followers' : r[1] = u /\ r[2] = a
  BY DEF Follows
<1>2. r \notin followers
  BY <1>1 DEF Follows
<1>3. PICK w \in Workers : AddFollower(w)
  BY <1>2, TableChanges DEF RemoveFollower, Without
<1>4. /\ pc[w] = "insert"
      /\ followers' = followers \cup {<<Current(w).to, act[w].actor, inbox[w], act[w].id>>}
  BY <1>3 DEF AddFollower, At
<1>5. Current(w).to = u /\ act[w].actor = a
  BY <1>1, <1>2, <1>4
<1>6. /\ act[w] \in Bodies(Current(w)) /\ act[w].type = "Follow" /\ act[w].target = u
      /\ batch[w] # <<>>
  BY <1>4, <1>5, ActivityOf DEF Fits, Admissible, AboutUser
<1> QED BY <1>5, <1>6, HeldInFlight DEF Coming, Core

\* What is in flight was in flight before, or has just come.
LEMMA FlightFrom ==
    ASSUME Core, [Next]_vars, NEW m \in InFlight'
    PROVE  \/ \E n \in InFlight : m.to = n.to /\ Bodies(m) = Bodies(n)
           \/ \E r \in Requests : Receive(r) /\ m = Enqueued(r)
<1>1. Types
  BY DEF Core
<1>2. CASE queue' = queue /\ batch' = batch
  BY <1>2 DEF InFlight, Queued, Held
<1>3. ASSUME NEW r \in Requests, Receive(r)
      PROVE  m \in InFlight \/ m = Enqueued(r)
  <2>1. queue' = [queue EXCEPT ![Enqueued(r)] = @ + 1] /\ batch' = batch
    BY <1>3 DEF Receive, consumer
  <2> QED BY <1>1, <2>1 DEF InFlight, Queued, Held, Types
<1>4. ASSUME NEW w \in Workers, Ack(w)
      PROVE  m \in InFlight
  <2>1. /\ queue' = queue /\ batch[w] # <<>> /\ batch'[w] = Tail(batch[w])
        /\ \A v \in Workers \ {w} : batch'[v] = batch[v]
    BY <1>1, <1>4 DEF Ack, At, Types
  <2>2. Held(w)' \subseteq Held(w)
    BY <1>1, <2>1, CurrentMessage DEF Held
  <2>3. \A v \in Workers \ {w} : Held(v)' = Held(v)
    BY <2>1 DEF Held
  <2> QED BY <2>1, <2>2, <2>3 DEF InFlight, Queued
<1>5. ASSUME NEW w \in Workers, ReceiveBatch(w)
      PROVE  m \in InFlight
  <2>1. PICK n \in 1..MaxBatch : \E b \in [1..n -> Queued] :
           /\ queue' = [q \in Message |-> queue[q] - Copies(b, q)]
           /\ batch' = [batch EXCEPT ![w] = b]
    BY <1>5 DEF ReceiveBatch
  <2>2. PICK b \in [1..n -> Queued] :
           /\ queue' = [q \in Message |-> queue[q] - Copies(b, q)]
           /\ batch' = [batch EXCEPT ![w] = b]
    BY <2>1
  <2>3. b \in Seq(Message)
    <3>1. Queued \subseteq Message /\ n \in Nat
      BY BoundsAssumption DEF Queued
    <3> QED BY <3>1
  <2>4. ASSUME NEW q \in Message, queue'[q] > 0
        PROVE  queue[q] > 0
    BY <1>1, <2>2, <2>3, <2>4, CopiesCount DEF Types
  <2>5. Queued' \subseteq Queued
    BY <2>4 DEF Queued
  <2>6. batch'[w] = b /\ \A v \in Workers \ {w} : batch'[v] = batch[v]
    BY <1>1, <2>2 DEF Types
  <2>7. Held(w)' \subseteq Queued
    BY <2>6 DEF Held
  <2>8. \A v \in Workers \ {w} : Held(v)' = Held(v)
    BY <2>6 DEF Held
  <2> QED BY <2>5, <2>7, <2>8 DEF InFlight
<1>6. ASSUME NEW w \in Workers, Crash(w)
      PROVE  \E n \in InFlight : m.to = n.to /\ Bodies(m) = Bodies(n)
  <2>1. /\ queue' = Requeued(batch[w]) /\ batch[w] \in Seq(Message)
        /\ batch' = [batch EXCEPT ![w] = <<>>]
    BY <1>1, <1>6 DEF Crash, Types
  <2>2. CASE m \in Queued'
    <3>1. m \in Message /\ queue'[m] > 0
      BY <2>2 DEF Queued
    <3>2. CASE queue[m] > 0
      BY <3>1, <3>2 DEF InFlight, Queued
    <3>3. ASSUME NEW k \in DOMAIN batch[w], CanRedeliver(batch[w][k]), Redelivered(batch[w][k]) = m
          PROVE  \E n \in InFlight : m.to = n.to /\ Bodies(m) = Bodies(n)
      <4>1. batch[w][k] \in Message /\ batch[w][k] \in InFlight
        BY <2>1 DEF InFlight, Held
      <4> QED BY <3>3, <4>1, RedeliveredFields
    <3> QED BY <1>1, <2>1, <3>1, <3>2, <3>3, RequeuedQueue
  <2>3. ASSUME NEW v \in Workers, m \in Held(v)'
        PROVE  m \in InFlight
    <3>1. m \in Held(v)
      BY <1>1, <2>1, <2>3 DEF Held, Types
    <3> QED BY <3>1 DEF InFlight
  <2> QED BY <2>2, <2>3 DEF InFlight
<1> QED BY <1>2, <1>3, <1>4, <1>5, <1>6, MovesMessages

LEMMA ComingShrinks ==
    ASSUME Core, [Next]_vars, NEW type, NEW u, NEW a, Coming(type, u, a)',
           \A r \in Requests : Receive(r) /\ r.to = u =>
               ~\E b \in Bodies(Enqueued(r)) : b.type = type /\ b.actor = a
    PROVE  Coming(type, u, a)
<1>1. PICK m \in InFlight' : m.to = u /\ \E b \in Bodies(m) :
                                 b.type = type /\ b.actor = a /\ b.target = u
  BY DEF Coming, Bodies
<1>2. ASSUME NEW r \in Requests, Receive(r), m = Enqueued(r)
      PROVE  FALSE
  <2>1. r.to = u
    BY <1>1, <1>2 DEF Enqueued
  <2> QED BY <1>1, <1>2, <2>1
<1>3. PICK n \in InFlight : m.to = n.to /\ Bodies(m) = Bodies(n)
  BY <1>2, FlightFrom
<1> QED BY <1>1, <1>3 DEF Coming

\* A pending Undo stays pending until the rows are gone, or a failure prevents it.
LEMMA PendingGoesOn ==
    ASSUME Core, [Next]_vars, NEW u, NEW a \in Actors, UndoPending(u, a)
    PROVE  Gone(u, a)'
<1>1. ASSUME NEW m \in Message, Ends(m, u, a), Bodies(m) \subseteq spoiled'
      PROVE  Gone(u, a)'
  <2>1. m.body \in spoiled'
    BY <1>1, EndsBodies
  <2> QED BY <1>1, <2>1 DEF Gone, Spoiled, Ends
<1>2. ASSUME NEW m \in Message, Ends(m, u, a), CanRedeliver(m), Redelivered(m) \in Queued'
      PROVE  Gone(u, a)'
  <2>1. Redelivered(m) \in Message /\ Ends(Redelivered(m), u, a)
    BY <1>2, RedeliveredFields DEF Ends
  <2>2. Waits(Redelivered(m))'
    BY <1>2 DEF Waits
  <2> QED BY <2>1, <2>2 DEF Gone, UndoPending
<1>3. ASSUME NEW m \in Message, Ends(m, u, a), Waits(m)
      PROVE  Gone(u, a)'
  <2>1. CASE Waits(m)'
    BY <1>3, <2>1 DEF Gone, UndoPending
  <2>2. ASSUME NEW w \in Workers, Current(w) = m, Dispatch(w)
        PROVE  Gone(u, a)'
    <3>1. PICK b \in Bodies(m) : Goes(w, IF Admissible(m, b) THEN Entry(b) ELSE "finished")
      BY <2>2 DEF Dispatch
    <3>2. pc'[w] = "remove" /\ batch' = batch
      <4>1. Bodies(m) = {m.body} /\ Admissible(m, m.body) /\ Entry(m.body) = "remove"
        BY <1>3, EndsBodies
      <4>2. b = m.body
        BY <2>2, <4>1
      <4>3. pc' = [pc EXCEPT ![w] = "remove"]
        BY <2>2, <3>1, <4>1, <4>2 DEF Goes
      <4>4. batch' = batch
        BY <2>2 DEF Dispatch
      <4> QED BY <4>3, <4>4 DEF Core, Types
    <3>3. Head(batch'[w]) = m
      BY <2>2, <3>2 DEF Current
    <3>4. UndoPending(u, a)'
      BY <1>3, <3>2, <3>3 DEF UndoPending, Current
    <3> QED BY <3>4 DEF Gone
  <2>3. ASSUME NEW w \in Workers, Current(w) = m, FetchFails(w)
        PROVE  FALSE
    BY <1>3, <2>3 DEF FetchFails, Ends
  <2> QED BY <1>1, <1>2, <1>3, <2>1, <2>2, <2>3, WaitingGoesOn
<1>4. ASSUME NEW w \in Workers, pc[w] = "remove", Ends(Current(w), u, a)
      PROVE  Gone(u, a)'
  <2>1. Current(w) \in Message /\ act[w] = Current(w).body /\ batch[w] # <<>>
    BY <1>4, ActivityOf, EndsBodies
  <2>2. CASE Crash(w)
    <3>1. Current(w) \in Held(w)
      BY <2>1, CurrentMessage DEF Core
    <3> QED BY <1>1, <1>2, <1>4, <2>1, <2>2, <3>1, CrashRequeues
  <2>3. CASE batch'[w] = batch[w] /\ pc'[w] = pc[w]
    <3>1. UndoPending(u, a)'
      BY <1>4, <2>3 DEF UndoPending, Current
    <3> QED BY <3>1 DEF Gone
  <2>4. CASE RemoveFollower(w)
    <3>1. followers' = Without(followers, u, a)
      BY <1>4, <2>1, <2>4 DEF RemoveFollower, Ends
    <3>2. ~Follows(u, a)'
      BY <3>1 DEF Follows, Without
    <3> QED BY <3>2 DEF Gone
  <2>5. CASE StatementFails(w)
    <3>1. act[w] \in spoiled'
      BY <2>5 DEF StatementFails
    <3> QED BY <1>4, <2>1, <3>1 DEF Gone, Spoiled, Ends
  <2>6. ASSUME WorkerStep(w) \/ Failure(w), ~Crash(w)
        PROVE  RemoveFollower(w) \/ StatementFails(w)
    <3>1. ~ReceiveBatch(w)
      BY <2>1 DEF ReceiveBatch
    <3> QED BY <1>4, <2>6, <3>1 DEF WorkerStep, Failure, Dispatch, FetchFails, CheckAuthor, PutObject,
       CountComment, CountReaction, PutActor, Decrement, DropActor, FetchActor, AddFollower,
       SendAccept, Ack, AssetFails, PutFails, At
  <2> QED BY <1>4, <2>2, <2>3, <2>4, <2>5, <2>6, MidMessage
<1> QED BY <1>3, <1>4 DEF UndoPending

LEMMA LeavesGoesOn ==
    ASSUME Core, [Next]_vars, NEW u \in Users, NEW a \in Actors, LeavesFor(u, a),
           \A r \in Requests : Receive(r) /\ r.to = u =>
               ~\E b \in Bodies(Enqueued(r)) : b.type = "Follow" /\ b.actor = a
    PROVE  LeavesFor(u, a)'
<1>1. ~Coming("Follow", u, a)'
  BY ComingShrinks DEF LeavesFor
<1>2. CASE ~Follows(u, a)
  <2>1. ~Follows(u, a)'
    BY <1>2, NewFollower DEF LeavesFor
  <2> QED BY <1>1, <2>1 DEF LeavesFor, Gone
<1>3. CASE Spoiled("UndoFollow", u, a)
  <2>1. Spoiled("UndoFollow", u, a)'
    BY <1>3, SpoiledStays DEF Spoiled
  <2> QED BY <1>1, <2>1 DEF LeavesFor, Gone
<1>4. CASE UndoPending(u, a)
  BY <1>1, <1>4, PendingGoesOn DEF LeavesFor
<1> QED BY <1>2, <1>3, <1>4 DEF LeavesFor, Gone

\* The Undo that puts an actor among those that left is pending from then on.
LEMMA NewlyLeft ==
    ASSUME Core, NEW r \in Requests, Receive(r), NEW p \in Users \X Actors, Unfollows(r, p),
           ~Coming("Follow", p[1], p[2])
    PROVE  LeavesFor(p[1], p[2])'
<1> DEFINE u == p[1]
           a == p[2]
           q == Enqueued(r)
<1>1. a # None /\ r.actor = a /\ r.to = u /\ r.body # None
  BY RequestFields, ActivityFields, NoneAssumption DEF Unfollows
<1>2. Ends(q, u, a) /\ q \in Message /\ q.body = r.body
  BY <1>1, EnqueuedMessage DEF Unfollows, Ends, Enqueued
<1>3. queue' = [queue EXCEPT ![q] = @ + 1] /\ Types
  BY DEF Receive, Core
<1>4. queue[q] \in Nat /\ queue'[q] = queue[q] + 1
  BY <1>2, <1>3 DEF Types
<1>5. Waits(q)'
  BY <1>2, <1>4 DEF Waits, Queued
<1>6. UndoPending(u, a)'
  BY <1>2, <1>5 DEF UndoPending
<1>7. Bodies(q) = {r.body} /\ r.body.type = "UndoFollow"
  BY <1>2, EndsBodies DEF Unfollows
<1>8. ~Coming("Follow", u, a)'
  <2>1. \A s \in Requests : Receive(s) => Enqueued(s) = q
    <3> SUFFICES ASSUME NEW s \in Requests, Receive(s) PROVE s = r
      OBVIOUS
    <3>1. received' = [received EXCEPT ![r] = @ + 1] /\ received' = [received EXCEPT ![s] = @ + 1]
      BY DEF Receive
    <3>2. received \in [Requests -> Nat]
      BY <1>3 DEF Types
    <3>3. received'[r] = received[r] + 1 /\ received[r] \in Nat
      BY <3>1, <3>2
    <3>4. s # r => received'[r] = received[r]
      BY <3>1, <3>2
    <3> QED BY <3>3, <3>4
  <2>2. [Next]_vars
    BY DEF Next, Request
  <2>3. ~Coming("Follow", u, a)
    OBVIOUS
  <2> HIDE DEF u, a, q
  <2> QED BY <1>7, <2>1, <2>2, <2>3, ComingShrinks
<1> HIDE DEF q
<1> QED BY <1>6, <1>8 DEF LeavesFor, Gone

LEMMA LeftFrom ==
    ASSUME [Next]_vars, NEW p \in left'
    PROVE  \/ /\ p \in left
              /\ \A r \in Requests : Receive(r) /\ r.to = p[1] =>
                     ~\E b \in Bodies(Enqueued(r)) : b.type = "Follow" /\ b.actor = p[2]
           \/ \E r \in Requests : /\ Receive(r) /\ p \in Users \X Actors /\ Unfollows(r, p)
                                  /\ ~Coming("Follow", p[1], p[2])
<1>1. CASE \E r \in Requests : Receive(r)
  BY <1>1 DEF Receive
<1>2. CASE \A r \in Requests : ~Receive(r)
  <2>1. left' = left
    <3>1. CASE UNCHANGED vars
      BY <3>1 DEF vars, history
    <3>2. CASE Request
      BY <1>2, <3>2 DEF Request, EnqueueFails
    <3>3. ASSUME NEW w \in Workers, WorkerStep(w)
          PROVE  left' = left
      BY <3>3 DEF WorkerStep, ReceiveBatch, Dispatch, FetchFails, CheckAuthor, PutObject,
         CountComment, CountReaction, PutActor, Decrement, DropActor, FetchActor, AddFollower,
         SendAccept, RemoveFollower, Ack, history
    <3>4. ASSUME NEW w \in Workers, Failure(w)
          PROVE  left' = left
      BY <3>4 DEF Failure, AssetFails, PutFails, StatementFails, Crash
    <3> QED BY <3>1, <3>2, <3>3, <3>4 DEF Next
  <2> QED BY <1>2, <2>1
<1> QED BY <1>1, <1>2

LEMMA NextLeft == Core /\ LeftInv /\ [Next]_vars => LeftInv'
<1> SUFFICES ASSUME Core, LeftInv, [Next]_vars, NEW p \in left'
             PROVE  p \in Users \X Actors /\ LeavesFor(p[1], p[2])'
  BY DEF LeftInv
<1>1. CASE /\ p \in left
           /\ \A r \in Requests : Receive(r) /\ r.to = p[1] =>
                  ~\E b \in Bodies(Enqueued(r)) : b.type = "Follow" /\ b.actor = p[2]
  <2>1. p \in Users \X Actors /\ LeavesFor(p[1], p[2])
    BY <1>1 DEF LeftInv
  <2> DEFINE u == p[1]
             a == p[2]
  <2>2. u \in Users /\ a \in Actors /\ LeavesFor(u, a)
    BY <2>1
  <2>3. \A r \in Requests : Receive(r) /\ r.to = u =>
            ~\E b \in Bodies(Enqueued(r)) : b.type = "Follow" /\ b.actor = a
    BY <1>1
  <2> HIDE DEF u, a
  <2>4. LeavesFor(u, a)'
    BY <2>2, <2>3, LeavesGoesOn
  <2> QED BY <2>1, <2>4 DEF u, a
<1>2. CASE \E r \in Requests : /\ Receive(r) /\ p \in Users \X Actors /\ Unfollows(r, p)
                               /\ ~Coming("Follow", p[1], p[2])
  BY <1>2, NewlyLeft
<1> QED BY <1>1, <1>2, LeftFrom

LEMMA InitLeft == Init => LeftInv
BY DEF Init, LeftInv

\* An actor whose Undo came when its Follows had been dealt with, and that sent no
\* Follow after it, is not a follower once the Undo is dealt with.
THEOREM WhoLeftIsGone == Spec => []UndoneNotFollowing
<1>1. Core /\ LeftInv => UndoneNotFollowing
  <2> SUFFICES ASSUME Core, NEW u, NEW a \in Actors, UndoPending(u, a)
               PROVE  Coming("UndoFollow", u, a)
    BY DEF LeftInv, LeavesFor, Gone, UndoneNotFollowing
  <2>1. ASSUME NEW m \in InFlight, Ends(m, u, a)
        PROVE  Coming("UndoFollow", u, a)
    BY <2>1, EndsBodies DEF Coming, Ends
  <2>2. ASSUME NEW m \in Message, Waits(m)
        PROVE  m \in InFlight
    BY <2>2 DEF Waits, InFlight, Held
  <2>3. ASSUME NEW w \in Workers, pc[w] = "remove"
        PROVE  Current(w) \in InFlight
    BY <2>3, ActivityOf, HeldInFlight DEF Core
  <2> QED BY <2>1, <2>2, <2>3 DEF UndoPending
<1>2. Init => LeftInv
  BY InitLeft
<1>3. IndInv /\ LeftInv /\ [Next]_vars => LeftInv'
  BY NextLeft DEF IndInv
<1>4. IndInv => Core
  BY DEF IndInv
<1> QED BY <1>1, <1>2, <1>3, <1>4, Invariance, PTL DEF Spec

-------------------------------------------------------------------------------
(* Comments.                                                               *)

\* Activity b of message m stores comment object o, and counts it.
Completes(o, m, b) ==
    b \in Bodies(m) /\ b.type = "Create" /\ Object(b) = o /\ AuthorOf[b.target] = m.to

\* Object o is yet to be counted: by a redelivery, or by a consumer on its way.
ByRedelivery(o) ==
    \E m \in Message : Waits(m) /\ m.tries > 0 /\ \E b \in Bodies(m) : Completes(o, m, b)
ByWorker(o) ==
    \E w \in Workers : /\ pc[w] \in {"author", "putComment", "countComment"}
                       /\ Completes(o, Current(w), act[w])
CountPending(o) == ByRedelivery(o) \/ ByWorker(o)

\* The comments on article s that are not, and whether a failure excuses one.
Settled(s) == {o \in objects : o[1] = "Create" /\ o[2] = s /\ ~CountPending(o)}
Excused(s) == \E b \in spoiled : b.type = "Create" /\ b.target = s

CommentTypes == commentCount \in [Slugs -> Nat] /\ IsFiniteSet(objects)
CommentsInv ==
    /\ CommentTypes
    /\ \A s \in Slugs : Excused(s) \/ commentCount[s] >= Cardinality(Settled(s))

LEMMA SettledFinite ==
    ASSUME CommentTypes, NEW s
    PROVE  IsFiniteSet(Settled(s)) /\ Cardinality(Settled(s)) \in Nat
<1>1. Settled(s) \subseteq objects
  BY DEF Settled
<1> QED BY <1>1, FS_Subset, FS_CardinalityType DEF CommentTypes

LEMMA ObjectIs ==
    ASSUME NEW b
    PROVE  Object(b)[1] = b.type /\ Object(b)[2] = b.target
BY DEF Object

\* What a crash does to a message that would count o.
LEMMA CompletesAgain ==
    ASSUME NEW o, NEW m \in Message, NEW b, Completes(o, m, b),
           \/ CanRedeliver(m) /\ Redelivered(m) \in Queued'
           \/ Bodies(m) \subseteq spoiled'
    PROVE  CountPending(o)' \/ Excused(o[2])'
<1>1. CASE CanRedeliver(m) /\ Redelivered(m) \in Queued'
  <2>1. /\ Redelivered(m) \in Message /\ Redelivered(m).tries > 0
        /\ Completes(o, Redelivered(m), b) /\ b \in Bodies(Redelivered(m))
    BY <1>1, RedeliveredFields DEF Completes
  <2>2. Waits(Redelivered(m))'
    BY <1>1 DEF Waits
  <2>3. ByRedelivery(o)'
    BY <2>1, <2>2 DEF ByRedelivery, Completes
  <2> QED BY <2>3 DEF CountPending
<1>2. CASE Bodies(m) \subseteq spoiled'
  BY <1>2, ObjectIs DEF Completes, Excused
<1> QED BY <1>1, <1>2

\* A redelivery that would count o goes on to, unless a failure excuses it.
LEMMA RedeliveryGoesOn ==
    ASSUME Core, [Next]_vars, NEW o, o[2] \in Slugs, ByRedelivery(o)
    PROVE  CountPending(o)' \/ Excused(o[2])'
<1>1. PICK m \in Message : Waits(m) /\ m.tries > 0 /\ \E b \in Bodies(m) : Completes(o, m, b)
  BY DEF ByRedelivery
<1>2. PICK b \in Bodies(m) : Completes(o, m, b)
  BY <1>1
<1>3. CASE Waits(m)'
  <2>1. ByRedelivery(o)'
    BY <1>1, <1>2, <1>3 DEF ByRedelivery, Completes
  <2> QED BY <2>1 DEF CountPending
<1>4. CASE \/ CanRedeliver(m) /\ Redelivered(m) \in Queued'
           \/ Bodies(m) \subseteq spoiled'
  BY <1>1, <1>2, <1>4, CompletesAgain
<1>5. ASSUME b \in spoiled'
      PROVE  Excused(o[2])'
  BY <1>2, <1>5, ObjectIs DEF Completes, Excused
<1>6. m.tries # 0
  <2>1. PICK r \in Requests, n \in 0..MaxRetries :
           m = [to |-> r.to, id |-> r.body.id, body |-> IF r.actor = None THEN None ELSE r.body,
                actor |-> r.actor, tries |-> n]
    BY MessageFields
  <2> QED BY <1>1, <2>1
<1>7. ASSUME NEW w \in Workers, Current(w) = m, FetchFails(w)
      PROVE  b \in spoiled'
  BY <1>2, <1>6, <1>7 DEF FetchFails
<1>8. ASSUME NEW w \in Workers, Current(w) = m, Dispatch(w)
      PROVE  b \in spoiled' \/ CountPending(o)'
  <2>1. PICK c \in Bodies(m) :
           /\ act' = [act EXCEPT ![w] = c]
           /\ Goes(w, IF Admissible(m, c) THEN Entry(c) ELSE "finished")
           /\ spoiled' = spoiled \cup IF m.tries = 0 THEN {} ELSE Bodies(m) \ {c}
    BY <1>8 DEF Dispatch
  <2>2. CASE c # b
    BY <1>2, <1>6, <2>1, <2>2
  <2>3. CASE c = b
    <3>1. b.type = "Create" /\ b.target \in Slugs
      BY <1>2, ObjectIs DEF Completes
    <3>2. Admissible(m, b) /\ Entry(b) = "author"
      BY <3>1 DEF Admissible, AboutArticle, AboutUser, Undos, Entry
    <3>3. pc'[w] = "author" /\ act'[w] = b /\ batch' = batch
      BY <1>8, <2>1, <2>3, <3>2 DEF Dispatch, Goes, Core, Types
    <3>4. Head(batch'[w]) = m
      BY <1>8, <3>3 DEF Current
    <3>5. ByWorker(o)'
      BY <1>2, <3>3, <3>4 DEF ByWorker, Current, Completes
    <3> QED BY <3>5 DEF CountPending
  <2> QED BY <2>2, <2>3
<1> QED BY <1>1, <1>3, <1>4, <1>5, <1>7, <1>8, WaitingGoesOn

\* A consumer on its way to count o goes on to, unless a failure excuses it.
LEMMA WorkerGoesOn ==
    ASSUME Core, [Next]_vars, NEW o, NEW w \in Workers,
           pc[w] \in {"author", "putComment", "countComment"}, Completes(o, Current(w), act[w])
    PROVE  CountPending(o)' \/ Excused(o[2])' \/ CountComment(w)
<1>1. Current(w) \in Message /\ batch[w] # <<>> /\ Fits(pc[w], act[w], Current(w)) /\ Types
  BY ActivityOf DEF Core
<1>2. CASE Crash(w)
  <2>1. Current(w) \in Held(w)
    BY <1>1, CurrentMessage
  <2> QED BY <1>1, <1>2, <2>1, CrashRequeues, CompletesAgain
<1>3. ASSUME batch'[w] = batch[w], act'[w] = act[w],
             pc'[w] \in {"author", "putComment", "countComment"}
      PROVE  CountPending(o)'
  <2>1. ByWorker(o)'
    BY <1>3 DEF ByWorker, Current, Completes
  <2> QED BY <2>1 DEF CountPending
<1>4. ASSUME act[w] \in spoiled'
      PROVE  Excused(o[2])'
  BY <1>4, ObjectIs DEF Completes, Excused
<1>5. CASE CheckAuthor(w)
  <2>1. AuthorOf[act[w].target] = Current(w).to /\ FirstEffect[act[w].type] = "putComment"
    BY DEF Completes, FirstEffect
  <2>2. pc'[w] = "putComment" /\ batch'[w] = batch[w] /\ act'[w] = act[w]
    BY <1>1, <1>5, <2>1 DEF CheckAuthor, Goes, Types
  <2> QED BY <1>3, <2>2
<1>6. CASE PutObject(w)
  <2>1. pc[w] = "putComment"
    BY <1>6 DEF PutObject, At
  <2>2. pc'[w] = "countComment" /\ batch'[w] = batch[w] /\ act'[w] = act[w]
    BY <1>1, <1>6, <2>1, AfterIs DEF PutObject, Proceeds, Goes, Types
  <2> QED BY <1>3, <2>2
<1>7. CASE AssetFails(w) \/ PutFails(w) \/ StatementFails(w)
  <2>1. act[w] \in spoiled'
    BY <1>7 DEF AssetFails, PutFails, StatementFails
  <2> QED BY <1>4, <2>1
<1>8. ASSUME WorkerStep(w) \/ Failure(w)
      PROVE  \/ Crash(w) \/ CheckAuthor(w) \/ PutObject(w) \/ CountComment(w)
             \/ AssetFails(w) \/ PutFails(w) \/ StatementFails(w)
  <2>1. ~ReceiveBatch(w)
    BY <1>1 DEF ReceiveBatch
  <2> QED BY <1>8, <2>1 DEF WorkerStep, Failure, Dispatch, FetchFails, CountReaction, PutActor,
     Decrement, DropActor, FetchActor, AddFollower, SendAccept, RemoveFollower, Ack, At
<1> QED BY <1>2, <1>3, <1>5, <1>6, <1>7, <1>8, MidMessage

\* Only two steps store or count comments.
LEMMA CommentsChange ==
    ASSUME [Next]_vars
    PROVE  \/ UNCHANGED <<objects, commentCount>>
           \/ \E w \in Workers : PutObject(w) \/ CountComment(w)
<1>1. CASE UNCHANGED vars
  BY <1>1 DEF vars, stores
<1>2. CASE Request
  BY <1>2 DEF Request, Receive, EnqueueFails, stores
<1>3. ASSUME NEW w \in Workers, WorkerStep(w), ~PutObject(w), ~CountComment(w)
      PROVE  UNCHANGED <<objects, commentCount>>
  BY <1>3 DEF WorkerStep, ReceiveBatch, Dispatch, FetchFails, CheckAuthor, CountReaction, PutActor,
     Decrement, DropActor, FetchActor, AddFollower, SendAccept, RemoveFollower, Ack, stores
<1>4. ASSUME NEW w \in Workers, Failure(w)
      PROVE  UNCHANGED <<objects, commentCount>>
  BY <1>4 DEF Failure, AssetFails, PutFails, StatementFails, Crash, stores
<1> QED BY <1>1, <1>2, <1>3, <1>4 DEF Next

LEMMA NextCommentTypes == CommentTypes /\ [Next]_vars => CommentTypes'
<1> SUFFICES ASSUME CommentTypes, [Next]_vars PROVE CommentTypes'
  OBVIOUS
<1>1. ASSUME NEW w \in Workers, PutObject(w)
      PROVE  CommentTypes'
  <2>1. objects' = objects \cup {Object(act[w])} /\ commentCount' = commentCount
    BY <1>1 DEF PutObject
  <2> QED BY <2>1, FS_AddElement DEF CommentTypes
<1>2. ASSUME NEW w \in Workers, CountComment(w)
      PROVE  CommentTypes'
  <2>1. /\ objects' = objects
        /\ commentCount' = [commentCount EXCEPT ![act[w].target] = @ + 1]
    BY <1>2 DEF CountComment
  <2>2. commentCount \in [Slugs -> Nat] /\ \A n \in Nat : n + 1 \in Nat
    BY DEF CommentTypes
  <2>3. commentCount' \in [Slugs -> Nat]
    BY <2>1, <2>2
  <2> QED BY <2>1, <2>3 DEF CommentTypes
<1> QED BY <1>1, <1>2, CommentsChange DEF CommentTypes

\* An object that is newly settled was settled before, or has just been counted.
LEMMA SettledFrom ==
    ASSUME Core, [Next]_vars, NEW s \in Slugs, ~Excused(s)', NEW o \in Settled(s)'
    PROVE  o \in Settled(s) \/ \E w \in Workers : CountComment(w) /\ Object(act[w]) = o
<1>1. o \in objects' /\ o[1] = "Create" /\ o[2] = s /\ ~CountPending(o)'
  BY DEF Settled
<1>2. ~Excused(o[2])'
  BY <1>1 DEF Excused
<1>3. ~ByRedelivery(o)
  BY <1>1, <1>2, RedeliveryGoesOn
<1>4. ASSUME NEW w \in Workers, pc[w] \in {"author", "putComment", "countComment"},
             Completes(o, Current(w), act[w])
      PROVE  CountComment(w) /\ Object(act[w]) = o
  BY <1>1, <1>2, <1>4, WorkerGoesOn DEF Completes
<1>5. CASE o \in objects
  BY <1>1, <1>3, <1>4, <1>5 DEF Settled, CountPending, ByWorker
<1>6. CASE o \notin objects
  <2>1. PICK w \in Workers : PutObject(w)
    BY <1>1, <1>6, CommentsChange DEF CountComment
  <2>2. o = Object(act[w]) /\ pc[w] \in {"putComment", "putReaction"}
    BY <1>1, <1>6, <2>1 DEF PutObject, At
  <2>3. act[w].type = "Create"
    BY <1>1, <2>2, ObjectIs
  <2>4. pc[w] = "putComment" /\ Completes(o, Current(w), act[w])
    BY <2>2, <2>3, ActivityOf DEF Fits, Completes
  <2> QED BY <1>4, <2>4
<1> QED BY <1>5, <1>6

LEMMA NextComments == Core /\ CommentsInv /\ [Next]_vars => CommentsInv'
<1> SUFFICES ASSUME Core, CommentsInv, [Next]_vars, NEW s \in Slugs, ~Excused(s)'
             PROVE  commentCount'[s] >= Cardinality(Settled(s))'
  BY NextCommentTypes DEF CommentsInv
<1> DEFINE N == Settled(s)'
<1>1. CommentTypes /\ CommentTypes'
  BY NextCommentTypes DEF CommentsInv
<1>2. ~Excused(s)
  BY SpoiledStays DEF Excused
<1>3. commentCount[s] >= Cardinality(Settled(s)) /\ commentCount[s] \in Nat
  BY <1>2 DEF CommentsInv, CommentTypes
<1>4. IsFiniteSet(Settled(s)) /\ Cardinality(Settled(s)) \in Nat
  BY <1>1, SettledFinite
<1>5. CASE \A w \in Workers : ~CountComment(w)
  <2>1. N \subseteq Settled(s)
    BY <1>5, SettledFrom
  <2>2. commentCount' = commentCount
    BY <1>5, CommentsChange DEF PutObject
  <2>3. Cardinality(N) <= Cardinality(Settled(s)) /\ Cardinality(N) \in Nat
    BY <1>4, <2>1, FS_Subset, FS_CardinalityType
  <2> QED BY <1>3, <1>4, <2>2, <2>3
<1>6. ASSUME NEW w \in Workers, CountComment(w)
      PROVE  commentCount'[s] >= Cardinality(N)
  <2>1. /\ commentCount' = [commentCount EXCEPT ![act[w].target] = @ + 1]
        /\ act' = act /\ pc[w] = "countComment" /\ pc'[w] = "finished"
        /\ \A v \in Workers \ {w} : pc'[v] = pc[v]
    BY <1>6, AfterIs DEF CountComment, At, Proceeds, Goes, Core, Types
  <2>2. \A v \in Workers : CountComment(v) => v = w
    <3> SUFFICES ASSUME NEW v \in Workers, CountComment(v), v # w PROVE FALSE
      OBVIOUS
    <3>1. pc'[v] = "finished" /\ pc[v] = "countComment"
      BY AfterIs DEF CountComment, At, Proceeds, Goes, Core, Types
    <3> QED BY <2>1, <3>1
  <2>3. N \subseteq Settled(s) \cup {Object(act[w])}
    BY <2>2, SettledFrom
  <2>4. CASE act[w].target = s
    <3>1. commentCount'[s] = commentCount[s] + 1
      BY <1>1, <2>1, <2>4 DEF CommentTypes
    <3>2. /\ IsFiniteSet(Settled(s) \cup {Object(act[w])})
          /\ Cardinality(Settled(s) \cup {Object(act[w])}) <= Cardinality(Settled(s)) + 1
      BY <1>4, FS_AddElement
    <3>3. /\ Cardinality(N) <= Cardinality(Settled(s) \cup {Object(act[w])})
          /\ Cardinality(N) \in Nat /\ Cardinality(Settled(s) \cup {Object(act[w])}) \in Nat
      BY <2>3, <3>2, FS_Subset, FS_CardinalityType
    <3> QED BY <1>3, <1>4, <3>1, <3>2, <3>3
  <2>5. CASE act[w].target # s
    <3>1. commentCount'[s] = commentCount[s]
      BY <1>1, <2>1, <2>5 DEF CommentTypes
    <3>2. Object(act[w]) \notin N
      BY <2>5, ObjectIs DEF Settled
    <3>3. N \subseteq Settled(s)
      BY <2>3, <3>2
    <3>4. Cardinality(N) <= Cardinality(Settled(s)) /\ Cardinality(N) \in Nat
      BY <1>4, <3>3, FS_Subset, FS_CardinalityType
    <3> QED BY <1>3, <1>4, <3>1, <3>4
  <2> QED BY <2>4, <2>5
<1> QED BY <1>5, <1>6

LEMMA InitComments == Init => CommentsInv
<1> SUFFICES ASSUME Init PROVE CommentsInv
  OBVIOUS
<1>1. CommentTypes
  BY FS_EmptySet DEF Init, CommentTypes
<1>2. ASSUME NEW s \in Slugs
      PROVE  commentCount[s] >= Cardinality(Settled(s))
  <2>1. Settled(s) = {}
    BY DEF Init, Settled
  <2>2. Cardinality(Settled(s)) = 0
    BY <2>1, FS_EmptySet
  <2> QED BY <2>2 DEF Init
<1> QED BY <1>1, <1>2 DEF CommentsInv

\* A comment in R2 is counted once nothing that could still count it is in flight;
\* only a failure can leave it uncounted.
THEOREM CommentsAreCounted == Spec => []StoredCommentsCounted
<1>1. Core /\ CommentsInv => StoredCommentsCounted
  <2> SUFFICES ASSUME Core, CommentsInv, NEW s \in Slugs, ~Excused(s),
                      ~\E m \in InFlight : \E b \in Bodies(m) : b.type = "Create" /\ b.target = s
               PROVE  commentCount[s] >= Cardinality({o \in objects : o[1] = "Create" /\ o[2] = s})
    BY DEF StoredCommentsCounted, Excused
  <2>1. ASSUME NEW o, o[2] = s, NEW m \in InFlight, NEW b, Completes(o, m, b)
        PROVE  FALSE
    BY <2>1, ObjectIs DEF Completes
  <2>2. ASSUME NEW m \in Message, Waits(m)
        PROVE  m \in InFlight
    BY <2>2 DEF Waits, InFlight, Held
  <2>3. ASSUME NEW w \in Workers, pc[w] \in {"author", "putComment", "countComment"}
        PROVE  Current(w) \in InFlight
    BY <2>3, ActivityOf, HeldInFlight DEF Core
  <2>4. \A o : o[2] = s => ~CountPending(o)
    BY <2>1, <2>2, <2>3 DEF CountPending, ByRedelivery, ByWorker
  <2>5. {o \in objects : o[1] = "Create" /\ o[2] = s} = Settled(s)
    BY <2>4 DEF Settled
  <2> QED BY <2>5 DEF CommentsInv
<1>2. Init => CommentsInv
  BY InitComments
<1>3. IndInv /\ CommentsInv /\ [Next]_vars => CommentsInv'
  BY NextComments DEF IndInv
<1>4. IndInv => Core
  BY DEF IndInv
<1> QED BY <1>1, <1>2, <1>3, <1>4, Invariance, PTL DEF Spec

-------------------------------------------------------------------------------
(* The type invariant.                                                     *)

\* What Core, InboxKnown and the invariants above leave open.
TypesOfStores ==
    /\ received \in [Requests -> 0..MaxPosts]
    /\ followers \subseteq Users \X Actors \X Inboxes \X Nat
    /\ reactionActors \subseteq Slugs \X Actors
    /\ objects \subseteq {"Create", "Like"} \X Slugs \X Nat
    /\ accepted \subseteq Users \X Actors
    /\ spoiled \subseteq Activities
    /\ irregular \subseteq Slugs

\* The parts of worker w's activity that its steps write somewhere.
LEMMA WrittenParts ==
    ASSUME Core, NEW w \in Workers, pc[w] \notin {"next", "finished"}
    PROVE  /\ Current(w).to \in Users
           /\ act[w].actor \in Actors /\ act[w].id \in Nat
           /\ act[w].type \in AboutArticle => act[w].target \in Slugs
           /\ act[w].type \in {"Like", "UndoLike"} => ActorRow(w) \in Slugs \X Actors
<1>1. /\ act[w] \in Activities /\ Current(w) \in Message /\ Admissible(Current(w), act[w])
  BY ActivityOf
<1>2. Current(w).to \in Users
  BY <1>1, MessageFields, RequestFields
<1>3. act[w].actor \in Actors /\ act[w].id \in Nat
  BY <1>1, ActivitiesAssumption
<1>4. act[w].type \in AboutArticle => act[w].target \in Slugs
  BY <1>1 DEF Admissible
<1>5. act[w].type = "Like" => ActorRow(w) \in Slugs \X Actors
  BY <1>3, <1>4 DEF ActorRow, AboutArticle
<1>6. ASSUME act[w].type = "UndoLike"
      PROVE  ActorRow(w) \in Slugs \X Actors
  <2>1. act[w].of \in Actors
    BY <1>1, <1>3, <1>6 DEF Admissible, Undos, Authorised
  <2> QED BY <1>4, <1>6, <2>1 DEF ActorRow, AboutArticle
<1> QED BY <1>2, <1>3, <1>4, <1>5, <1>6

LEMMA NextReceived ==
    ASSUME TypesOfStores, [Next]_vars
    PROVE  received' \in [Requests -> 0..MaxPosts]
<1>1. received \in [Requests -> 0..MaxPosts]
  BY DEF TypesOfStores
<1>2. ASSUME NEW r \in Requests, Receive(r) \/ EnqueueFails(r)
      PROVE  received' \in [Requests -> 0..MaxPosts]
  <2>1. received[r] < MaxPosts /\ received' = [received EXCEPT ![r] = @ + 1]
    BY <1>2 DEF Receive, EnqueueFails
  <2>2. received[r] \in 0..MaxPosts /\ MaxPosts \in Nat
    BY <1>1, BoundsAssumption
  <2>3. received[r] + 1 \in 0..MaxPosts
    BY <2>1, <2>2
  <2> QED BY <1>1, <2>1, <2>3
<1>3. CASE UNCHANGED vars
  BY <1>1, <1>3 DEF vars
<1>4. ASSUME NEW w \in Workers, WorkerStep(w) \/ Failure(w)
      PROVE  received' = received
  <2>1. CASE WorkerStep(w)
    BY <2>1 DEF WorkerStep, ReceiveBatch, Dispatch, FetchFails, CheckAuthor, PutObject, CountComment,
       CountReaction, PutActor, Decrement, DropActor, FetchActor, AddFollower, SendAccept,
       RemoveFollower, Ack
  <2>2. CASE Failure(w)
    BY <2>2 DEF Failure, AssetFails, PutFails, StatementFails, Crash
  <2> QED BY <1>4, <2>1, <2>2
<1> QED BY <1>1, <1>2, <1>3, <1>4 DEF Next, Request

LEMMA NextFollowers ==
    ASSUME Core, InboxKnown, TypesOfStores, [Next]_vars
    PROVE  followers' \subseteq Users \X Actors \X Inboxes \X Nat
<1>1. followers \subseteq Users \X Actors \X Inboxes \X Nat
  BY DEF TypesOfStores
<1>2. ASSUME NEW w \in Workers, AddFollower(w)
      PROVE  followers' \subseteq Users \X Actors \X Inboxes \X Nat
  <2>1. /\ pc[w] = "insert"
        /\ followers' = followers \cup {<<Current(w).to, act[w].actor, inbox[w], act[w].id>>}
    BY <1>2 DEF AddFollower, At
  <2>2. Current(w).to \in Users /\ act[w].actor \in Actors /\ act[w].id \in Nat
    BY <2>1, WrittenParts
  <2>3. inbox[w] \in Inboxes
    BY <2>1, <2>2, InboxesOfActorAssumption DEF InboxKnown
  <2> QED BY <1>1, <2>1, <2>2, <2>3
<1>3. ASSUME NEW w \in Workers, RemoveFollower(w)
      PROVE  followers' \subseteq followers
  BY <1>3 DEF RemoveFollower, Without
<1> QED BY <1>1, <1>2, <1>3, TableChanges

LEMMA NextActorsAndObjects ==
    ASSUME Core, TypesOfStores, [Next]_vars
    PROVE  /\ reactionActors' \subseteq Slugs \X Actors
           /\ objects' \subseteq {"Create", "Like"} \X Slugs \X Nat
<1>1. ASSUME NEW w \in Workers, PutActor(w)
      PROVE  reactionActors' \subseteq Slugs \X Actors
  <2>1. pc[w] = "putActor" /\ reactionActors' = reactionActors \cup {ActorRow(w)}
    BY <1>1 DEF PutActor, At
  <2>2. ActorRow(w) \in Slugs \X Actors
    BY <2>1, ActivityOf, WrittenParts DEF Fits
  <2> QED BY <2>1, <2>2 DEF TypesOfStores
<1>2. reactionActors' \subseteq Slugs \X Actors
  BY <1>1, ReactionSteps DEF TypesOfStores, reactions, CountReaction, Decrement, DropActor
<1>3. ASSUME NEW w \in Workers, PutObject(w)
      PROVE  objects' \subseteq {"Create", "Like"} \X Slugs \X Nat
  <2>1. pc[w] \in {"putComment", "putReaction"} /\ objects' = objects \cup {Object(act[w])}
    BY <1>3 DEF PutObject, At
  <2>2. act[w].type \in {"Create", "Like"}
    BY <2>1, ActivityOf DEF Fits
  <2>3. act[w].target \in Slugs /\ act[w].id \in Nat
    BY <2>1, <2>2, WrittenParts DEF AboutArticle
  <2> QED BY <2>1, <2>2, <2>3 DEF TypesOfStores, Object
<1>4. objects' \subseteq {"Create", "Like"} \X Slugs \X Nat
  BY <1>3, CommentsChange DEF TypesOfStores, CountComment
<1> QED BY <1>2, <1>4

LEMMA NextHistory ==
    ASSUME Core, TypesOfStores, [Next]_vars
    PROVE  /\ accepted' \subseteq Users \X Actors
           /\ spoiled' \subseteq Activities
           /\ irregular' \subseteq Slugs
<1>1. Types
  BY DEF Core
<1>2. accepted' \subseteq Users \X Actors
  <2> SUFFICES ASSUME NEW p \in accepted', p \notin accepted
               PROVE  p \in Users \X Actors
    BY DEF TypesOfStores
  <2>1. PICK w \in Workers : pc[w] = "accept" /\ p = <<Current(w).to, act[w].actor>>
    BY AcceptedWhenSent
  <2> QED BY <2>1, WrittenParts
<1>3. CASE UNCHANGED vars
  BY <1>2, <1>3 DEF vars, history, TypesOfStores
<1>4. ASSUME NEW r \in Requests, Receive(r) \/ EnqueueFails(r)
      PROVE  spoiled' \subseteq Activities /\ irregular' \subseteq Slugs
  <2>1. Bodies(Enqueued(r)) \subseteq Activities
    BY EnqueuedMessage, BodiesAreActivities
  <2> QED BY <1>4, <2>1 DEF Receive, EnqueueFails, TypesOfStores
<1>5. ASSUME NEW w \in Workers, WorkerStep(w) \/ Failure(w)
      PROVE  spoiled' \subseteq Activities
  <2>1. batch[w] # <<>> => Bodies(Current(w)) \subseteq Activities
    BY <1>1, CurrentMessage, BodiesAreActivities
  <2>2. CASE Dispatch(w) \/ FetchFails(w)
    <3>1. batch[w] # <<>> /\ spoiled' \subseteq spoiled \cup Bodies(Current(w))
      BY <2>2 DEF Dispatch, FetchFails, At
    <3> QED BY <2>1, <3>1 DEF TypesOfStores
  <2>3. CASE AssetFails(w) \/ PutFails(w) \/ StatementFails(w)
    <3>1. pc[w] \notin {"next", "finished"} /\ spoiled' = spoiled \cup {act[w]}
      BY <2>3 DEF AssetFails, PutFails, StatementFails, At, D1Steps
    <3> QED BY <3>1, ActivityOf DEF TypesOfStores
  <2>4. CASE Crash(w)
    <3>1. batch[w] \in Seq(Message) /\ spoiled' = spoiled \cup LostFrom(batch[w])
      BY <1>1, <2>4 DEF Crash, Types
    <3>2. \A k \in DOMAIN batch[w] : Bodies(batch[w][k]) \subseteq Activities
      BY <3>1, BodiesAreActivities
    <3> QED BY <3>1, <3>2 DEF LostFrom, TypesOfStores
  <2>5. ASSUME WorkerStep(w), ~Dispatch(w), ~FetchFails(w)
        PROVE  spoiled' = spoiled
    BY <2>5 DEF WorkerStep, ReceiveBatch, CheckAuthor, PutObject, CountComment, CountReaction,
       PutActor, Decrement, DropActor, FetchActor, AddFollower, SendAccept, RemoveFollower, Ack,
       history
  <2> QED BY <1>5, <2>2, <2>3, <2>4, <2>5 DEF Failure, TypesOfStores
<1>6. ASSUME NEW w \in Workers, WorkerStep(w) \/ Failure(w)
      PROVE  irregular' \subseteq Slugs
  <2>1. CASE CountReaction(w) \/ Decrement(w)
    <3>1. pc[w] \in {"countReaction", "decrement"} /\ irregular' \subseteq irregular \cup {act[w].target}
      BY <2>1 DEF CountReaction, Decrement, At, Notes
    <3>2. act[w].target \in Slugs
      BY <3>1, ActivityOf, WrittenParts DEF Fits, AboutArticle
    <3> QED BY <3>1, <3>2 DEF TypesOfStores
  <2>2. CASE StatementFails(w)
    <3>1. /\ pc[w] \notin {"next", "finished"}
          /\ irregular' = IF act[w].type \notin {"Like", "UndoLike"} THEN irregular
                          ELSE irregular \cup {act[w].target}
      BY <2>2 DEF StatementFails, D1Steps, Notes
    <3>2. act[w].type \in {"Like", "UndoLike"} => act[w].target \in Slugs
      BY <3>1, WrittenParts DEF AboutArticle
    <3> QED BY <3>1, <3>2 DEF TypesOfStores
  <2>3. CASE Crash(w)
    <3>1. \/ irregular' = irregular
          \/ /\ pc[w] \in {"putActor", "dropActor"}
             /\ irregular' = irregular \cup {act[w].target}
      BY <2>3 DEF Crash, Notes
    <3>2. pc[w] \in {"putActor", "dropActor"} => act[w].target \in Slugs
      BY ActivityOf, WrittenParts DEF Fits, AboutArticle
    <3> QED BY <3>1, <3>2 DEF TypesOfStores
  <2>4. ASSUME WorkerStep(w), ~CountReaction(w), ~Decrement(w)
        PROVE  irregular' = irregular
    BY <2>4 DEF WorkerStep, ReceiveBatch, Dispatch, FetchFails, CheckAuthor, PutObject, CountComment,
       PutActor, DropActor, FetchActor, AddFollower, SendAccept, RemoveFollower, Ack, history
  <2>5. CASE AssetFails(w) \/ PutFails(w)
    BY <2>5 DEF AssetFails, PutFails, TypesOfStores
  <2> QED BY <1>6, <2>1, <2>2, <2>3, <2>4, <2>5 DEF Failure, TypesOfStores
<1> QED BY <1>2, <1>3, <1>4, <1>5, <1>6 DEF Next, Request

LEMMA NextTypesOfStores ==
    Core /\ InboxKnown /\ TypesOfStores /\ [Next]_vars => TypesOfStores'
BY NextReceived, NextFollowers, NextActorsAndObjects, NextHistory DEF TypesOfStores

\* The variables of Inbox stay in their types; above all, no count goes below zero.
THEOREM InboxTypes == Spec => []TypeOK
<1>1. Init => InboxKnown /\ TypesOfStores
  <2> SUFFICES ASSUME Init PROVE InboxKnown /\ TypesOfStores
    OBVIOUS
  <2>1. 0 \in 0..MaxPosts
    BY BoundsAssumption
  <2> QED BY <2>1 DEF Init, InboxKnown, TypesOfStores
<1>2. IndInv /\ InboxKnown /\ [Next]_vars => InboxKnown'
  BY NextInboxKnown DEF IndInv
<1>3. IndInv /\ InboxKnown /\ TypesOfStores /\ [Next]_vars => TypesOfStores'
  BY NextTypesOfStores DEF IndInv
<1>4. IndInv /\ ReactionsInv /\ LeftInv /\ CommentsInv /\ [Next]_vars
        => ReactionsInv' /\ LeftInv' /\ CommentsInv'
  BY NextReactions, NextLeft, NextComments DEF IndInv
<1>5. Init => ReactionsInv /\ LeftInv /\ CommentsInv
  BY InitReactions, InitLeft, InitComments
<1>6. IndInv /\ InboxKnown /\ TypesOfStores /\ ReactionsInv /\ LeftInv /\ CommentsInv => TypeOK
  BY DEF IndInv, Core, Types, InboxKnown, TypesOfStores, ReactionsInv, ReactionTypes, LeftInv,
     CommentsInv, CommentTypes, TypeOK
<1> QED BY <1>1, <1>2, <1>3, <1>4, <1>5, <1>6, Invariance, PTL DEF Spec
==============================================================================
