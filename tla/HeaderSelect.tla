----------------------------- MODULE HeaderSelect -----------------------------
(***************************************************************************)
(* Content negotiation (common/headers.rs): which of the media types a     *)
(* handler can produce it answers with, given the Accept header; and which *)
(* Content-Type an inbox takes.  An Accept header is a sequence of media   *)
(* ranges, each with a quality in tenths.  Entries that do not parse are   *)
(* not in it, and a quality that is absent or does not parse is 10.        *)
(***************************************************************************)
EXTENDS Integers, Sequences

Mimes == {"Html", "AP", "Json", "Xml"}                        \* AcceptMime
Rank == [Xml |-> 0, Json |-> 1, AP |-> 2, Html |-> 3]         \* and its order
NotAcceptable == "none"

\* The media ranges the code knows, and the types it tries for each, in order.
MediaRanges ==
    {"any", "text", "text/html", "text/xml", "activity+json", "ld+json",
     "ld+json;profile", "json", "other"}
Tried(media) ==
    CASE media = "any" -> <<"Html", "AP", "Json", "Xml">>     \* */*
      [] media = "text" -> <<"Html", "Xml">>                  \* text/*
      [] media = "text/html" -> <<"Html">>
      [] media = "text/xml" -> <<"Xml">>
      [] media \in {"activity+json", "ld+json;profile"} -> <<"AP">>
      [] media = "json" -> <<"Json">>
      [] media \in {"ld+json", "other"} -> <<>>

MediaRange == [media : MediaRanges, q : 0..10]

\* find: the first type tried that is a candidate, if any is.
Candidates(media, candidate) == {k \in DOMAIN Tried(media) : Tried(media)[k] \in candidate}
Found(media, candidate) ==
    LET can == Candidates(media, candidate)
    IN  Tried(media)[CHOOSE k \in can : \A j \in can : k <= j]
RankFirst(p, o) ==                                            \* a faulty variant
    Rank[p.mime] > Rank[o.mime] \/ (Rank[p.mime] = Rank[o.mime] /\ p.q >= o.q)
Beats(p, o) == p.q > o.q \/ (p.q = o.q /\ Rank[p.mime] >= Rank[o.mime])

\* HeaderReader::select.
Select(accept, candidate) ==
    LET usable == {k \in DOMAIN accept : Candidates(accept[k].media, candidate) # {}}
        offers == {[q |-> accept[k].q, mime |-> Found(accept[k].media, candidate)] :
                     k \in usable}
    IN  IF offers = {} THEN NotAcceptable
        ELSE (CHOOSE o \in offers : \A p \in offers : Beats(o, p)).mime

\* is_content_type_ap; the Content-Type of a request is a media range too, or
\* "none" if it is absent or does not parse.
IsContentTypeAP(ty) == ty \in {"activity+json", "ld+json;profile"}

-------------------------------------------------------------------------------
(* What a client means by an Accept header, without regard to how it is    *)
(* read: any type a range covers, the ranges of the highest quality first. *)

Covers(media, m) ==
    \/ media = "any"
    \/ media = "text" /\ m \in {"Html", "Xml"}
    \/ Tried(media) = <<m>>
Acceptable(accept, candidate, q) ==
    {m \in candidate : \E k \in DOMAIN accept : accept[k].q = q /\ Covers(accept[k].media, m)}

\* The answer is acceptable at the highest quality at which anything is, and is
\* the type the server prefers among those.
IsBestAnswer(answer, accept, candidate) ==
    LET qualities == {q \in 0..10 : Acceptable(accept, candidate, q) # {}}
    IN  IF qualities = {} THEN answer = NotAcceptable
        ELSE \E q \in qualities :
                /\ \A p \in qualities : p <= q
                /\ answer \in Acceptable(accept, candidate, q)
                /\ \A m \in Acceptable(accept, candidate, q) : Rank[m] <= Rank[answer]
=============================================================================
