------------------------------ MODULE MCRequests ------------------------------
(* Values for Requests: POSTs as sign() leaves them, and what may come of    *)
(* them on the way or from servers that sign otherwise.                      *)
EXTENDS Requests, FiniteSets, SequencesExt

CONSTANTS ann, bob, k1, k2

\* Addresses of inboxes, as they are spelled in requests, and what the router and
\* the URI builder make of them: percent-encoding is undone, a query dropped, a
\* space allowed in no URI and # the end of one.
Inbox == "/users/zoe/inbox"
Decoded == [path \in {Inbox, "/users/zoe/inbox?a=1", "/users/z%6Fe/inbox", "/users/amy/inbox",
                      "/users/a%20b/inbox", "/users/a%23b/inbox"} |->
    CASE path = "/users/amy/inbox" -> "amy" [] path = "/users/a%20b/inbox" -> "a b"
      [] path = "/users/a%23b/inbox" -> "a#b" [] OTHER -> "zoe"]
Uris == [name \in {"zoe", "amy", "a b", "a#b"} |->
    CASE name = "zoe" -> Inbox [] name = "amy" -> "/users/amy/inbox"
      [] name = "a#b" -> "/users/a" [] name = "a b" -> NoUri]

\* A body for an inbox, signed or not.
Unsigned(path, b) ==
    [contentType |-> "activity+json", path |-> path, signature |-> <<>>, body |-> b,
     headers |-> [n \in {"date", "host"} |-> Text(n)]]
MainKey == <<ann, "main-key">>
Bodies == {<<1>>, <<1, 2>>, <<2, 2>>, <<1, 2, 3>>, <<>>}
Signed == {Sign(Unsigned(Inbox, b), MainKey, k1) : b \in Bodies}
SignedFor(paths) == {Sign(Unsigned(path, <<1, 2>>), MainKey, k1) : path \in paths}

WithPart(r, j, p) == [r EXCEPT !.signature = ReplaceAt(@, j, p)]
SignedLines(r, names) ==
    WithPart(WithPart(r, 3, <<"headers", names>>), 4,
             <<"signature", [key |-> k1, text |-> [j \in DOMAIN names |-> Line(r, names[j])]]>>)
WithoutDigest(r) == SignedLines(r, <<RequestTarget, "host">>)

\* One thing about a request is different from how it was signed.
Altered(r) ==
    {[r EXCEPT !.path = path] : path \in DOMAIN Decoded}
      \cup {[r EXCEPT !.headers = [r.headers EXCEPT ![n] = v]] :
              n \in {"date", "digest"}, v \in {Text("later"), NotText}}
      \cup {[r EXCEPT !.signature = RemoveAt(@, j)] : j \in 1..4}
      \cup {[r EXCEPT !.body = <<2, 1>>],
            [r EXCEPT !.contentType = "json"], [r EXCEPT !.contentType = "ld+json;profile"],
            [r EXCEPT !.headers = [n \in {"date", "digest"} |-> r.headers[n]]],
            WithPart(r, 1, <<"keyId", <<bob>>>>), WithPart(r, 2, <<"algorithm", "hs2019">>),
            WithPart(r, 4, <<"signature", [key |-> NoKey, text |-> <<>>]>>),
            WithoutDigest(r), [WithoutDigest(r) EXCEPT !.body = <<2, 1>>],
            [r EXCEPT !.signature = @ \o << <<"keyId", <<bob>>>> >>]}

Arriving == Signed \cup SignedFor(DOMAIN Decoded) \cup UNION {Altered(r) : r \in Signed}
Parsed == {<<1>>, <<1, 2>>, <<2, 1>>, <<1, 2, 3>>}

Qualities == [media : MediaRanges, q : {1, 10}]
Accepting == UNION {[1..n -> Qualities] : n \in 0..2}
               \cup [1..3 -> [media : {"any", "text", "text/html", "activity+json", "json"}, q : {1, 5, 10}]]
Producing == {{"Html", "AP"}, {"AP"}, {"Json"}, {"Html", "AP", "Json"}, {"Html", "Json"}, Mimes}
=============================================================================
