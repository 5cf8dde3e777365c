----------------------------- MODULE Pages_proofs -----------------------------
(***************************************************************************)
(* Theorems about Publish and about Pages, for any articles, documents,    *)
(* batch size, mishaps and Accept headers.  Pages are read on a site that  *)
(* is deployed as Publish says, so what is proved of Publish holds there   *)
(* too.                                                                    *)
(*                                                                         *)
(* NothingForgotten and EventsFit speak of what was told and of what is    *)
(* served, which the scripts never compare: they compare snapshots.  The   *)
(* invariant below says how these are tied together, step by step.         *)
(***************************************************************************)
EXTENDS Pages, TLAPS

\* While events are computed and until the first is sent, they lead from the
\* old snapshot to the new site, and there is one wherever the two differ.
LeadToNew ==
    pc \in {"deploy", "put"} =>
        /\ \A e \in events : Takes(e, old[e.slug], new[e.slug])
        /\ \A s \in Slugs : old[s] # new[s] => s \in SlugsOf(events)

\* No two events are about one article.
OneEach == \A e, f \in events : e.slug = f.slug => e = f

\* What is recorded is what was told, but for the events still to be sent.
RecordedIsTold ==
    /\ pc # "send" => \A s \in Slugs \ lost : told[s] = recorded[s]
    /\ pc = "send" => \A s \in Slugs \ lost : told[s] = new[s] \/ s \in SlugsOf(events)

\* The order of the steps.
InOrder ==
    /\ pc \in {"put", "send"} => deployed = new
    /\ pc = "send" => recorded = new

IndInv == TypeOK /\ LeadToNew /\ OneEach /\ RecordedIsTold /\ InOrder /\ EventsFit

-------------------------------------------------------------------------------
\* What snapshot_diff.sh prints: events that lead from one snapshot to the
\* other, one for each article that differs, and none else.
LEMMA DiffLeads ==
    ASSUME NEW o \in Site, NEW n \in Site
    PROVE  /\ Diff(o, n) \subseteq Event
           /\ \A e \in Diff(o, n) : Takes(e, o[e.slug], n[e.slug])
           /\ \A s \in Slugs : o[s] # n[s] => s \in SlugsOf(Diff(o, n))
           /\ \A e, f \in Diff(o, n) : e.slug = f.slug => e = f
<1> USE DocumentsAssumption, AuthorsAssumption DEF Site, Event, NewOrUpdate, Delete
<1>1. \A s \in Slugs : o[s] # Missing => AuthorOf[o[s]] \in Authors
  OBVIOUS
<1>2. Diff(o, n) \subseteq Event
  BY <1>1 DEF Diff
<1>3. ASSUME NEW e \in Diff(o, n)
      PROVE  Takes(e, o[e.slug], n[e.slug])
  BY <1>3 DEF Diff, Takes, Changed
<1>4. ASSUME NEW s \in Slugs, o[s] # n[s]
      PROVE  s \in SlugsOf(Diff(o, n))
  <2>1. CASE o[s] = Missing
    <3>1. NewOrUpdate("New", s) \in Diff(o, n)
      BY <1>4, <2>1 DEF Diff
    <3> QED BY <3>1 DEF SlugsOf
  <2>2. CASE n[s] = Missing
    <3>1. Delete(s, o[s]) \in Diff(o, n)
      BY <1>4, <2>2 DEF Diff
    <3> QED BY <3>1 DEF SlugsOf
  <2>3. CASE o[s] # Missing /\ n[s] # Missing
    <3>1. NewOrUpdate("Update", s) \in Diff(o, n)
      BY <1>4, <2>3 DEF Diff, Changed
    <3> QED BY <3>1 DEF SlugsOf
  <2> QED BY <2>1, <2>2, <2>3
<1>5. ASSUME NEW e \in Diff(o, n), NEW f \in Diff(o, n), e.slug = f.slug
      PROVE  e = f
  BY <1>5 DEF Diff, Changed
<1> QED BY <1>2, <1>3, <1>4, <1>5

LEMMA BuildPreserves ==
    ASSUME IndInv, NEW site \in Site, Build(site)
    PROVE  IndInv'
<1> USE DEF IndInv, Build, published
<1>1. TypeOK' /\ pc' = "snapshot"
  BY DEF TypeOK, After
<1>2. LeadToNew' /\ InOrder' /\ EventsFit'
  BY <1>1 DEF LeadToNew, InOrder, EventsFit
<1>3. OneEach'
  BY DEF OneEach
<1>4. RecordedIsTold'
  BY <1>1 DEF RecordedIsTold
<1> QED BY <1>1, <1>2, <1>3, <1>4

LEMMA UpdateSnapshotPreserves ==
    ASSUME IndInv, UpdateSnapshot
    PROVE  IndInv'
<1> USE DEF IndInv, UpdateSnapshot, published
<1>1. pc' = "deploy"
  BY DEF After
<1>2. old' \in Site /\ new \in Site
  <2>1. EmptySite \in Site
    BY DEF EmptySite, Site
  <2> QED BY <2>1 DEF TypeOK
<1>3. /\ events' \subseteq Event
      /\ \A e \in events' : Takes(e, old'[e.slug], new[e.slug])
      /\ \A s \in Slugs : old'[s] # new[s] => s \in SlugsOf(events')
      /\ \A e, f \in events' : e.slug = f.slug => e = f
  BY <1>2, DiffLeads
<1>4. TypeOK'
  BY <1>1, <1>2, <1>3 DEF TypeOK
<1>5. LeadToNew'
  BY <1>1, <1>3 DEF LeadToNew, SlugsOf
<1>6. OneEach'
  BY <1>3 DEF OneEach
<1>7. RecordedIsTold' /\ InOrder' /\ EventsFit'
  BY <1>1 DEF RecordedIsTold, InOrder, EventsFit
<1> QED BY <1>4, <1>5, <1>6, <1>7

LEMMA DeployPreserves ==
    ASSUME IndInv, Deploy
    PROVE  IndInv'
<1> USE DEF IndInv, Deploy
<1>1. TypeOK' /\ pc' = "put"
  BY DEF TypeOK, After
<1>2. LeadToNew' /\ OneEach'
  BY <1>1 DEF LeadToNew, OneEach, SlugsOf
<1>3. RecordedIsTold' /\ InOrder' /\ EventsFit'
  BY <1>1 DEF RecordedIsTold, InOrder, EventsFit
<1> QED BY <1>1, <1>2, <1>3

\* For an article that is not lost, the events were computed from what was
\* told: the old snapshot is the recorded one, and that is what was told.
LEMMA PutSnapshotPreserves ==
    ASSUME IndInv, PutSnapshot
    PROVE  IndInv'
<1> USE DEF IndInv, PutSnapshot
<1>1. TypeOK' /\ pc' = "send"
  BY DEF TypeOK, After
<1>2. \A s \in Slugs \ lost' : told[s] = old[s]
  BY DEF RecordedIsTold
<1>3. LeadToNew' /\ OneEach' /\ InOrder'
  BY <1>1 DEF LeadToNew, OneEach, InOrder
<1>4. RecordedIsTold'
  <2>1. \A s \in Slugs \ lost' : told[s] = new[s] \/ s \in SlugsOf(events)
    BY <1>2 DEF LeadToNew
  <2> QED BY <1>1, <2>1 DEF RecordedIsTold, SlugsOf
<1>5. EventsFit'
  <2>1. \A e \in events : e.slug \in Slugs
    BY DEF TypeOK, Event
  <2>2. \A e \in events : e.slug \notin lost' => Takes(e, told[e.slug], deployed[e.slug])
    BY <1>2, <2>1 DEF LeadToNew, InOrder
  <2> QED BY <2>2 DEF EventsFit, Takes
<1> QED BY <1>1, <1>3, <1>4, <1>5

LEMMA SendBatchPreserves ==
    ASSUME IndInv, NEW b \in SUBSET events, SendBatch(b)
    PROVE  IndInv'
<1> USE DEF IndInv, SendBatch
<1>1. TypeOK' /\ pc' = "send"
  BY DEF TypeOK, Site
<1>2. \A e \in events' : e \in events /\ e.slug \in Slugs /\ e.slug \notin SlugsOf(b)
  BY DEF OneEach, SlugsOf, TypeOK, Event
<1>3. LeadToNew' /\ OneEach' /\ InOrder'
  BY <1>1 DEF LeadToNew, OneEach, InOrder
<1>4. RecordedIsTold'
  <2>1. ASSUME NEW s \in Slugs \ lost'
        PROVE  told'[s] = new[s] \/ s \in SlugsOf(events')
    <3>1. CASE s \in SlugsOf(b)
      BY <3>1
    <3>2. CASE s \notin SlugsOf(b)
      <4>1. told'[s] = told[s] /\ s \notin lost
        BY <2>1, <3>2
      <4>2. s \in SlugsOf(events) => s \in SlugsOf(events')
        BY <3>2 DEF SlugsOf
      <4> QED BY <4>1, <4>2 DEF RecordedIsTold
    <3> QED BY <3>1, <3>2
  <2> QED BY <1>1, <2>1 DEF RecordedIsTold, SlugsOf
<1>5. EventsFit'
  <2>1. \A e \in events' : told'[e.slug] = told[e.slug] /\ (e.slug \in lost => e.slug \in lost')
    BY <1>2
  <2>2. \A e \in events' : e.slug \notin lost' => Takes(e, told[e.slug], deployed[e.slug])
    BY <1>2, <2>1 DEF EventsFit
  <2> QED BY <2>1, <2>2 DEF EventsFit, Takes
<1> QED BY <1>1, <1>3, <1>4, <1>5

LEMMA BatchRefusedPreserves ==
    ASSUME IndInv, NEW b \in SUBSET events, BatchRefused(b)
    PROVE  IndInv'
<1> USE DEF IndInv, BatchRefused
<1>1. TypeOK' /\ pc' = "send"
  BY DEF TypeOK, Event, SlugsOf
<1>2. LeadToNew' /\ OneEach' /\ InOrder'
  BY <1>1 DEF LeadToNew, OneEach, InOrder
<1>3. RecordedIsTold'
  BY <1>1 DEF RecordedIsTold, SlugsOf
<1>4. EventsFit'
  BY DEF EventsFit, Takes
<1> QED BY <1>1, <1>2, <1>3, <1>4

LEMMA FinishPreserves ==
    ASSUME IndInv, Finish
    PROVE  IndInv'
<1> USE DEF IndInv, Finish, Leave, published
<1>1. TypeOK' /\ pc' = "idle"
  BY DEF TypeOK, After, EmptySite, Site
<1>2. LeadToNew' /\ OneEach' /\ InOrder' /\ EventsFit'
  BY <1>1 DEF LeadToNew, OneEach, InOrder, EventsFit
<1>3. RecordedIsTold'
  <2>1. \A s \in Slugs \ lost : told[s] = recorded[s]
    BY DEF RecordedIsTold, InOrder, SlugsOf
  <2> QED BY <1>1, <2>1 DEF RecordedIsTold
<1> QED BY <1>1, <1>2, <1>3

LEMMA AbortPreserves ==
    ASSUME IndInv, Abort
    PROVE  IndInv'
<1> USE DEF IndInv, Abort, Leave
<1>1. TypeOK' /\ pc' = "idle"
  BY DEF TypeOK, EmptySite, Site, SlugsOf, Event
<1>2. LeadToNew' /\ OneEach' /\ InOrder' /\ EventsFit'
  BY <1>1 DEF LeadToNew, OneEach, InOrder, EventsFit
<1>3. RecordedIsTold'
  <2>1. \A s \in Slugs \ lost' : told[s] = recorded[s]
    <3>1. CASE pc = "send"
      BY <3>1 DEF RecordedIsTold, InOrder
    <3>2. CASE pc # "send"
      BY <3>2 DEF RecordedIsTold
    <3> QED BY <3>1, <3>2
  <2> QED BY <1>1, <2>1 DEF RecordedIsTold
<1> QED BY <1>1, <1>2, <1>3

LEMMA StepPreserves ==
    ASSUME IndInv, [Next]_vars
    PROVE  IndInv'
<1>1. ASSUME UNCHANGED vars PROVE IndInv'
  <2>1. UNCHANGED <<pc, old, new, events, deployed, recorded, told, lost>>
    BY <1>1 DEF vars, script, published
  <2> QED BY <2>1 DEF IndInv, TypeOK, LeadToNew, OneEach, RecordedIsTold, InOrder, EventsFit
<1> QED BY <1>1, BuildPreserves, UpdateSnapshotPreserves, DeployPreserves, PutSnapshotPreserves,
           SendBatchPreserves, BatchRefusedPreserves, FinishPreserves, AbortPreserves DEF Next

LEMMA InitIndInv == Init => IndInv
BY DEF Init, IndInv, TypeOK, LeadToNew, OneEach, RecordedIsTold, InOrder, EventsFit, EmptySite, Site

LEMMA Invariance == Spec => []IndInv
BY InitIndInv, StepPreserves, PTL DEF Spec

-------------------------------------------------------------------------------
\* Publish is type correct.
THEOREM PublishTypeCorrect == Spec => []TypeOK
<1>1. IndInv => TypeOK
  BY DEF IndInv
<1> QED BY <1>1, Invariance, PTL

\* The scripts compare a new site with the snapshot they recorded last; this is
\* enough to tell the followers everything they miss, if the snapshot is put
\* after the site is deployed and before the events are sent.
THEOREM ChangesAreNotForgotten == Spec => []NothingForgotten
<1>1. IndInv => NothingForgotten
  BY DEF IndInv, NothingForgotten, RecordedIsTold, InOrder
<1> QED BY <1>1, Invariance, PTL

\* Each event sent fits what the followers were told before.
THEOREM EventsAreRight == Spec => []EventsFit
<1>1. IndInv => EventsFit
  BY DEF IndInv
<1> QED BY <1>1, Invariance, PTL

\* What is announced is served already.
THEOREM AnnouncedIsServed == Spec => TellsWhatIsServed
<1>1. ASSUME IndInv, [Next]_vars
      PROVE  [\A s \in Slugs : told'[s] # told[s] => told'[s] = deployed[s]]_vars
  <2>1. ASSUME NEW b \in SUBSET events, SendBatch(b)
        PROVE  \A s \in Slugs : told'[s] # told[s] => told'[s] = deployed[s]
    BY <1>1, <2>1 DEF SendBatch, IndInv, InOrder
  <2>2. CASE UNCHANGED told
    BY <2>2
  <2> QED BY <1>1, <2>1, <2>2 DEF Next, Build, UpdateSnapshot, Deploy, PutSnapshot, BatchRefused,
             Finish, Abort, published, vars
<1> QED BY <1>1, Invariance, PTL DEF Spec, TellsWhatIsServed

-------------------------------------------------------------------------------
(* Pages.                                                                  *)

\* A handler that waits has seen what the article is now.
SeesDeployed ==
    step # "none" =>
        request.slug \in Slugs /\ request.page \in PageKinds /\ deployed[request.slug] \in seen

\* It only waits for an author if the check before it said so, and it could
\* produce the document: of a deleted article, or of one that was there.
Checked ==
    step = "author" =>
        /\ request.page \in {"event", "delete"} /\ request.mime # NotAcceptable
        /\ request.page = "event" => \E doc \in seen : doc # Missing
        /\ request.page = "delete" => Missing \in seen

HandlerInv == step \in {"none", "exists", "author"} /\ SeesDeployed /\ Checked

-------------------------------------------------------------------------------
LEMMA PageStepPublishes == ASSUME [PagesNext]_pageVars PROVE [Next]_vars
BY DEF PagesNext, pageVars, Arrive, Exists, Author, Publishing

LEMMA PagesInvariance == PagesSpec => []IndInv
<1>1. PagesInit => IndInv
  BY InitIndInv DEF PagesInit
<1>2. IndInv /\ [PagesNext]_pageVars => IndInv'
  BY PageStepPublishes, StepPreserves
<1> QED BY <1>1, <1>2, PTL DEF PagesSpec

LEMMA HandlerStepInv ==
    ASSUME HandlerInv, [PagesNext]_pageVars
    PROVE  HandlerInv'
<1> USE DEF HandlerInv
<1>1. ASSUME NEW page \in PageKinds, NEW s \in Slugs, NEW accept \in AcceptHeaders,
             Arrive(page, s, accept)
      PROVE  HandlerInv'
  <2>1. CASE step' = "none"
    BY <2>1 DEF SeesDeployed, Checked
  <2>2. CASE step' # "none"
    <3>1. /\ step' = "exists" /\ request'.slug = s /\ request'.page = page
          /\ seen' = {deployed[s]} /\ deployed' = deployed
      BY <1>1, <2>2 DEF Arrive, Ends, vars, published
    <3> QED BY <3>1 DEF SeesDeployed, Checked
  <2> QED BY <2>1, <2>2
<1>2. ASSUME NEW doc \in Documents \cup {Missing}, Exists(doc)
      PROVE  HandlerInv'
  <2>1. deployed' = deployed /\ seen' = seen \cup {doc}
    BY <1>2 DEF Exists, Reads, vars, published
  <2>2. CASE step' = "none"
    BY <2>2 DEF SeesDeployed, Checked
  <2>3. CASE step' # "none"
    <3>1. /\ step' = "author" /\ request' = request
          /\ request.page \notin {"article", "meta"} /\ request.mime # NotAcceptable
          /\ (doc = Missing) = (request.page = "delete")
      BY <1>2, <2>3 DEF Exists, Ends, WaitsFor
    <3>2. SeesDeployed'
      BY <1>2, <2>1, <3>1 DEF SeesDeployed, Exists
    <3>3. Checked'
      BY <1>2, <2>1, <3>1 DEF Checked, SeesDeployed, Exists, PageKinds
    <3> QED BY <3>1, <3>2, <3>3
  <2> QED BY <2>2, <2>3
<1>3. ASSUME NEW doc \in Documents \cup {Missing}, Author(doc)
      PROVE  HandlerInv'
  BY <1>3 DEF Author, Ends, SeesDeployed, Checked
<1>4. CASE Publishing
  BY <1>4 DEF Publishing, SeesDeployed, Checked
<1>5. CASE UNCHANGED pageVars
  BY <1>5 DEF pageVars, vars, published, handler, SeesDeployed, Checked
<1> QED BY <1>1, <1>2, <1>3, <1>4, <1>5 DEF PagesNext

LEMMA HandlerInvariance == PagesSpec => []HandlerInv
<1>1. PagesInit => HandlerInv
  BY DEF PagesInit, HandlerInv, SeesDeployed, Checked
<1> QED BY <1>1, HandlerStepInv, PTL DEF PagesSpec

-------------------------------------------------------------------------------
\* Pages keeps what Publish promises: it publishes as Publish does.
THEOREM PagesPublish == PagesSpec => Spec
<1>1. PagesInit => Init
  BY DEF PagesInit
<1> QED BY <1>1, PageStepPublishes, PTL DEF PagesSpec, Spec

\* Every answer is due for what the article was at some moment of its request,
\* or a panic over an author who is missing.
THEOREM AnswersFitTheSite == PagesSpec => AnswersOfSomeMoment
<1> DEFINE Fits == \/ \E doc \in seen' : answer' = Due(request, doc)
                   \/ /\ answer' = "panic" /\ Missing \in seen'
                      /\ request.page = "delete" \/ \E doc \in seen' : doc # Missing
<1>1. ASSUME NEW read, Exists(read), step' = "none"
      PROVE  Fits
  <2>1. read \in seen'
    BY <1>1 DEF Exists, Reads
  <2>2. CASE (read = Missing) # (request.page = "delete")
    <3>1. answer' = "not_found"
      BY <1>1, <2>2 DEF Exists, Ends
    <3>2. answer' = Due(request, read)
      BY <2>2, <3>1 DEF Due
    <3> QED BY <2>1, <3>2
  <2>3. CASE (read = Missing) = (request.page = "delete") /\ request.mime = NotAcceptable
    <3>1. answer' = "not_acceptable"
      BY <1>1, <2>3 DEF Exists, Ends
    <3>2. answer' = Due(request, read)
      BY <2>3, <3>1 DEF Due
    <3> QED BY <2>1, <3>2
  <2>4. CASE (read = Missing) = (request.page = "delete") /\ request.mime # NotAcceptable
    <3>1. answer' = "ok"
      BY <1>1, <2>4 DEF Exists, Ends, WaitsFor
    <3>2. answer' = Due(request, read)
      BY <2>4, <3>1 DEF Due
    <3> QED BY <2>1, <3>2
  <2> QED BY <2>2, <2>3, <2>4
<1>2. ASSUME HandlerInv, NEW read, Author(read)
      PROVE  Fits
  <2>1. read \in seen' /\ seen \subseteq seen'
    BY <1>2 DEF Author, Reads
  <2>2. /\ request.page \in {"event", "delete"} /\ request.mime # NotAcceptable
        /\ request.page = "event" => \E doc \in seen : doc # Missing
        /\ request.page = "delete" => Missing \in seen
    BY <1>2 DEF HandlerInv, Checked, Author
  <2>3. CASE read = Missing
    <3>1. answer' = "panic"
      BY <1>2, <2>3 DEF Author, Ends
    <3> QED BY <2>1, <2>2, <2>3, <3>1
  <2>4. CASE read # Missing
    <3>1. answer' = "ok"
      BY <1>2, <2>4 DEF Author, Ends
    \* The check before saw what the answer is due for.
    <3>2. PICK doc \in seen : (doc = Missing) = (request.page = "delete")
      <4>1. CASE request.page = "event"
        BY <2>2, <4>1
      <4>2. CASE request.page = "delete"
        BY <2>2, <4>2
      <4> QED BY <2>2, <4>1, <4>2
    <3>3. answer' = Due(request, doc)
      BY <2>2, <3>1, <3>2 DEF Due
    <3> QED BY <2>1, <3>3
  <2> QED BY <2>3, <2>4
<1>3. HandlerInv /\ [PagesNext]_pageVars => [step # "none" /\ step' = "none" => Fits]_pageVars
  <2> SUFFICES ASSUME HandlerInv, PagesNext, step # "none", step' = "none"
               PROVE  Fits
    OBVIOUS
  <2>1. \/ \E read \in Documents \cup {Missing} : Exists(read)
        \/ \E read \in Documents \cup {Missing} : Author(read)
    BY DEF PagesNext, Arrive, Publishing
  <2> HIDE DEF Fits
  <2> QED BY <1>1, <1>2, <2>1
<1> QED BY <1>3, HandlerInvariance, PTL DEF PagesSpec, AnswersOfSomeMoment
=============================================================================
