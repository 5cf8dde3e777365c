--------------------------------- MODULE Pages ---------------------------------
(***************************************************************************)
(* The GET handlers for articles and their events, on a site that is       *)
(* deployed meanwhile.  Each asset a handler reads is an await, so that a  *)
(* deployment may come in between, and a fetch that fails looks like an    *)
(* asset that is not there.  Requests share nothing but the assets: one at *)
(* a time stands for all.                                                  *)
(***************************************************************************)
EXTENDS Publish, HeaderSelect

CONSTANT AcceptHeaders  \* Accept headers of the requests

ASSUME AcceptAssumption == AcceptHeaders \subseteq Seq(MediaRange)

\* The pages of an article.  Create and Update documents, "event", differ in
\* nothing but their type.
PageKinds == {"article", "meta", "event", "delete"}

\* What the handler of a page can produce.
Produces(page) ==
    CASE page = "article" -> {"Html", "AP"} [] page = "meta" -> {"Json"} [] OTHER -> {"AP"}

VARIABLES
    step,       \* what the handler waits for: "exists", "author", or nothing
    request,    \* the request it serves
    answer,     \* the answer it gave last
    seen        \* history: what the article was, or was read as, since it came

handler == <<step, request, answer, seen>>
pageVars == <<vars, handler>>

Idle == [page |-> "none", slug |-> "none", mime |-> NotAcceptable]

PagesInit == Init /\ step = "none" /\ request = Idle /\ answer = "none" /\ seen = {}

-------------------------------------------------------------------------------
Ends(a) == step' = "none" /\ answer' = a /\ request' = Idle
WaitsFor(s) == step' = s /\ UNCHANGED <<request, answer>>

\* The router passes a request to its handler.  All but article_metadata_get
\* choose the type before they look for the article.
Arrive(page, s, accept) ==
    /\ step = "none"
    /\ LET mime == Select(accept, Produces(page))
       IN  IF mime = NotAcceptable /\ page # "meta" THEN Ends("not_acceptable") /\ seen' = {}
           ELSE /\ step' = "exists"
                /\ request' = [page |-> page, slug |-> s, mime |-> mime]
                /\ answer' = "none"
                /\ seen' = {deployed[s]}
    /\ UNCHANGED vars

\* Reading an asset of the article yields this; Missing also if it fails.
Reads(doc) == doc \in {deployed[request.slug], Missing} /\ seen' = seen \cup {doc}

\* exists_article, or the only read of article_get, answers.  The handler of
\* Delete documents goes on if there is no article, the others if there is.
ExistsUnchecked(doc) ==                                       \* a faulty variant
    /\ step = "exists" /\ Reads(doc)
    /\ WaitsFor("author")
    /\ UNCHANGED vars
Exists(doc) ==
    /\ step = "exists" /\ Reads(doc)
    /\ IF (doc = Missing) # (request.page = "delete") THEN Ends("not_found")
       ELSE IF request.mime = NotAcceptable THEN Ends("not_acceptable")
       ELSE IF request.page \in {"article", "meta"} THEN Ends("ok")
       ELSE WaitsFor("author")
    /\ UNCHANGED vars

\* get_author_id(slug).await.unwrap(): a panic ends the request unanswered.
Author(doc) ==
    /\ step = "author" /\ Reads(doc)
    /\ Ends(IF doc = Missing THEN "panic" ELSE "ok")
    /\ UNCHANGED vars

\* Meanwhile, the deployment takes a step.
Publishing ==
    /\ Next
    /\ seen' = IF step = "none" THEN seen ELSE seen \cup {deployed'[request.slug]}
    /\ UNCHANGED <<step, request, answer>>

PagesNext ==
    \/ \E page \in PageKinds, s \in Slugs, accept \in AcceptHeaders : Arrive(page, s, accept)
    \/ \E doc \in Documents \cup {Missing} : Exists(doc)
    \/ \E doc \in Documents \cup {Missing} : Author(doc)
    \/ Publishing

PagesSpec == PagesInit /\ [][PagesNext]_pageVars

-------------------------------------------------------------------------------
(* Properties.                                                             *)

\* What a request should be answered on a site that does not change.
Due(r, doc) ==
    IF (doc = Missing) # (r.page = "delete") THEN "not_found"
    ELSE IF r.mime = NotAcceptable THEN "not_acceptable" ELSE "ok"

\* Though a handler reads the article up to twice, with deployments and failing
\* fetches in between, it never makes up an answer: the one it gives is due for
\* what the article was, or was read as, at some moment of the request.  Only
\* where the author is missing may it panic, which takes an article that was
\* there and went missing, or the document of a Delete event.
AnswersOfSomeMoment ==
    [][step # "none" /\ step' = "none" =>
          \/ \E doc \in seen' : answer' = Due(request, doc)
          \/ /\ answer' = "panic" /\ Missing \in seen'
             /\ request.page = "delete" \/ \E doc \in seen' : doc # Missing]_pageVars

\* What every unwrap of get_author_id in events.rs asserts: the check before it
\* saw to it that there is an author, unless the article changed in between.
AuthorIsThere == answer = "panic" => Cardinality(seen) > 1
=============================================================================
