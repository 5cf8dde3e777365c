------------------------- MODULE HeaderSelect_proofs -------------------------
(***************************************************************************)
(* What HeaderReader::select computes, for any Accept header and any set   *)
(* of types: the best answer IsBestAnswer describes.                       *)
(***************************************************************************)
EXTENDS HeaderSelect, SequenceTheorems, WellFoundedInduction, TLAPS

\* A set of numbers has a least one.
LEMMA LeastNumber ==
    ASSUME NEW S \in SUBSET Nat, S # {}
    PROVE  \E m \in S : \A k \in S : m <= k
<1> DEFINE R == OpToRel(<, Nat)
<1>1. IsWellFoundedOn(R, Nat)
  BY NatLessThanWellFounded
<1>2. \A x, y \in Nat : x < y => <<x, y>> \in R
  BY DEF OpToRel
<1> HIDE DEF R
<1>3. PICK m \in S : \A k \in S : ~(<<k, m>> \in R)
  BY <1>1, WFMin
<1>4. ASSUME NEW k \in S
      PROVE  m <= k
  <2>1. m \in Nat /\ k \in Nat /\ ~(k < m)
    BY <1>2, <1>3
  <2> QED BY <2>1
<1> QED BY <1>4

\* The types the server tries are those the range covers, what it prefers first.
LEMMA TriedCovers ==
    ASSUME NEW media \in MediaRanges
    PROVE  /\ Tried(media) \in Seq(Mimes)
           /\ \A m \in Mimes : Covers(media, m) <=> \E k \in DOMAIN Tried(media) : Tried(media)[k] = m
           /\ \A j, k \in DOMAIN Tried(media) :
                 j <= k => Rank[Tried(media)[k]] <= Rank[Tried(media)[j]]
<1> DEFINE t == Tried(media)
<1>1. CASE media = "any"
  <2>1. t = <<"Html", "AP", "Json", "Xml">>
    BY <1>1 DEF Tried
  <2> HIDE DEF t
  <2>2. DOMAIN t = {1, 2, 3, 4}
    BY <2>1
  <2>3. t \in Seq(Mimes)
    BY <2>1 DEF Mimes
  <2>4. \A m \in Mimes : \E k \in DOMAIN t : t[k] = m
    BY <2>1, <2>2 DEF Mimes
  <2>5. \A j, k \in DOMAIN t : j <= k => Rank[t[k]] <= Rank[t[j]]
    BY <2>1, <2>2 DEF Rank
  <2> QED BY <1>1, <2>3, <2>4, <2>5 DEF Covers, t
<1>2. CASE media = "text"
  <2>1. t = <<"Html", "Xml">>
    BY <1>2 DEF Tried
  <2> HIDE DEF t
  <2>2. DOMAIN t = {1, 2}
    BY <2>1
  <2>3. t \in Seq(Mimes)
    BY <2>1 DEF Mimes
  <2>4. \A m \in Mimes : m \in {"Html", "Xml"} <=> \E k \in DOMAIN t : t[k] = m
    BY <2>1, <2>2 DEF Mimes
  <2>5. \A j, k \in DOMAIN t : j <= k => Rank[t[k]] <= Rank[t[j]]
    BY <2>1, <2>2 DEF Rank
  <2>6. \A m \in Mimes : t # <<m>>
    BY <2>1
  <2> QED BY <1>2, <2>3, <2>4, <2>5, <2>6 DEF Covers, t
<1>3. ASSUME NEW only \in Mimes, t = <<only>>, media \notin {"any", "text"}
      PROVE  /\ t \in Seq(Mimes)
             /\ \A m \in Mimes : Covers(media, m) <=> \E k \in DOMAIN t : t[k] = m
             /\ \A j, k \in DOMAIN t : j <= k => Rank[t[k]] <= Rank[t[j]]
  <2>1. \A m \in Mimes : Covers(media, m) <=> t = <<m>>
    BY <1>3 DEF Covers
  <2> HIDE DEF t
  <2>2. DOMAIN t = {1} /\ t[1] = only /\ t \in Seq(Mimes)
    BY <1>3
  <2>3. Rank[only] \in Nat
    BY DEF Rank, Mimes
  <2> QED BY <1>3, <2>1, <2>2, <2>3
<1>4. CASE media \in {"text/html", "text/xml", "activity+json", "ld+json;profile", "json"}
  <2>1. media = "text/html" => t = <<"Html">>
    BY DEF Tried
  <2>2. media = "text/xml" => t = <<"Xml">>
    BY DEF Tried
  <2>3. media \in {"activity+json", "ld+json;profile"} => t = <<"AP">>
    BY DEF Tried
  <2>4. media = "json" => t = <<"Json">>
    BY DEF Tried
  <2>5. \E only \in Mimes : t = <<only>>
    BY <1>4, <2>1, <2>2, <2>3, <2>4 DEF Mimes
  <2> HIDE DEF t
  <2> QED BY <1>3, <1>4, <2>5 DEF t
<1>5. CASE media \in {"ld+json", "other"}
  <2>1. t = <<>>
    BY <1>5 DEF Tried
  <2> HIDE DEF t
  <2>2. DOMAIN t = {} /\ t \in Seq(Mimes) /\ \A m \in Mimes : t # <<m>>
    BY <2>1
  <2> QED BY <1>5, <2>2 DEF Covers, t
<1> QED BY <1>1, <1>2, <1>4, <1>5 DEF MediaRanges

\* What find answers for a range is the type preferred among the candidates it
\* covers, and it answers if there is one.
LEMMA FoundIsPreferred ==
    ASSUME NEW media \in MediaRanges, NEW candidate \in SUBSET Mimes
    PROVE  /\ Candidates(media, candidate) = {} => \A m \in candidate : ~Covers(media, m)
           /\ Candidates(media, candidate) # {} =>
                 /\ Found(media, candidate) \in candidate
                 /\ Covers(media, Found(media, candidate))
                 /\ \A m \in candidate : Covers(media, m) => Rank[m] <= Rank[Found(media, candidate)]
<1> DEFINE t == Tried(media)
           can == Candidates(media, candidate)
<1>1. /\ t \in Seq(Mimes)
      /\ \A m \in Mimes : Covers(media, m) <=> \E k \in DOMAIN t : t[k] = m
      /\ \A j, k \in DOMAIN t : j <= k => Rank[t[k]] <= Rank[t[j]]
  BY TriedCovers
<1>2. can = {k \in DOMAIN t : t[k] \in candidate}
  BY DEF Candidates
<1>3. Found(media, candidate) = t[CHOOSE k \in can : \A j \in can : k <= j]
  BY DEF Found
<1> HIDE DEF t, can
<1>4. ASSUME NEW m \in candidate, Covers(media, m)
      PROVE  \E k \in can : t[k] = m
  BY <1>1, <1>2, <1>4
<1>5. ASSUME can # {}
      PROVE  /\ Found(media, candidate) \in candidate
             /\ Covers(media, Found(media, candidate))
             /\ \A m \in candidate : Covers(media, m) => Rank[m] <= Rank[Found(media, candidate)]
  <2>1. can \in SUBSET Nat
    BY <1>1, <1>2
  <2>2. \E k \in can : \A j \in can : k <= j
    BY <1>5, <2>1, LeastNumber
  <2> DEFINE f == CHOOSE k \in can : \A j \in can : k <= j
  <2>3. f \in can /\ \A j \in can : f <= j
    BY <2>2
  <2>4. Found(media, candidate) = t[f]
    BY <1>3
  <2> HIDE DEF f
  <2>5. t[f] \in candidate /\ Covers(media, t[f])
    BY <1>1, <1>2, <2>3
  <2>6. ASSUME NEW m \in candidate, Covers(media, m)
        PROVE  Rank[m] <= Rank[t[f]]
    <3>1. PICK k \in can : t[k] = m
      BY <1>4, <2>6
    <3> QED BY <1>1, <1>2, <2>3, <3>1
  <2> QED BY <2>4, <2>5, <2>6
<1> QED BY <1>4, <1>5 DEF can

\* max_by: among the offers of some ranges there is one that beats them all.
LEMMA BestOffer ==
    ASSUME NEW offers \in SUBSET [q : 0..10, mime : Mimes], offers # {}
    PROVE  \E o \in offers : \A p \in offers : Beats(o, p)
<1> DEFINE short(o) == 44 - (4 * o.q + Rank[o.mime])
           S == {short(o) : o \in offers}
<1>1. \A m \in Mimes : Rank[m] \in 0..3
  BY DEF Rank, Mimes
<1>2. \A o \in offers : o.q \in 0..10 /\ o.mime \in Mimes
  OBVIOUS
<1>3. \A o \in offers : short(o) \in Nat
  <2> SUFFICES ASSUME NEW o \in offers PROVE short(o) \in Nat
    OBVIOUS
  <2>1. o.q \in 0..10 /\ Rank[o.mime] \in 0..3
    BY <1>1, <1>2
  <2> QED BY <2>1
<1>4. S \in SUBSET Nat /\ S # {}
  BY <1>3
<1>5. PICK o \in offers : \A p \in offers : short(o) <= short(p)
  <2>1. PICK least \in S : \A x \in S : least <= x
    BY <1>4, LeastNumber
  <2>2. PICK o \in offers : short(o) = least
    OBVIOUS
  <2>3. \A p \in offers : short(p) \in S
    OBVIOUS
  <2> HIDE DEF S
  <2> QED BY <2>1, <2>2, <2>3
<1>6. ASSUME NEW p \in offers
      PROVE  Beats(o, p)
  <2>1. /\ o.q \in 0..10 /\ p.q \in 0..10
        /\ Rank[o.mime] \in 0..3 /\ Rank[p.mime] \in 0..3
    BY <1>1, <1>2
  <2>2. 4 * p.q + Rank[p.mime] <= 4 * o.q + Rank[o.mime]
    BY <1>5, <2>1
  <2> QED BY <2>1, <2>2 DEF Beats
<1> QED BY <1>6

\* select answers with the type the server prefers among those acceptable at
\* the highest quality: ranges are compared by quality first, and a range stands
\* for the most preferred type it covers.
THEOREM SelectIsBest ==
    ASSUME NEW accept \in Seq(MediaRange), NEW candidate \in SUBSET Mimes
    PROVE  /\ IsBestAnswer(Select(accept, candidate), accept, candidate)
           /\ Select(accept, candidate) \in Mimes \cup {NotAcceptable}
<1> DEFINE usable == {k \in DOMAIN accept : Candidates(accept[k].media, candidate) # {}}
           found(k) == Found(accept[k].media, candidate)
           offers == {[q |-> accept[k].q, mime |-> found(k)] : k \in usable}
           best == CHOOSE o \in offers : \A p \in offers : Beats(o, p)
           qualities == {q \in 0..10 : Acceptable(accept, candidate, q) # {}}
           answered == Select(accept, candidate)
<1>1. \A k \in DOMAIN accept : accept[k].media \in MediaRanges /\ accept[k].q \in 0..10
  <2>1. \A k \in DOMAIN accept : accept[k] \in MediaRange
    OBVIOUS
  <2> QED BY <2>1 DEF MediaRange
<1>2. \A k \in usable : /\ found(k) \in candidate /\ Covers(accept[k].media, found(k))
                        /\ \A m \in candidate :
                              Covers(accept[k].media, m) => Rank[m] <= Rank[found(k)]
  BY <1>1, FoundIsPreferred
<1>3. \A k \in DOMAIN accept, m \in candidate : Covers(accept[k].media, m) => k \in usable
  BY <1>1, FoundIsPreferred
<1>4. answered = IF offers = {} THEN NotAcceptable ELSE best.mime
  BY DEF Select
<1>5. offers \in SUBSET [q : 0..10, mime : Mimes]
  <2>1. \A k \in usable : accept[k].q \in 0..10 /\ found(k) \in Mimes
    BY <1>1, <1>2
  <2> HIDE DEF found, usable
  <2> QED BY <2>1
<1>6. \A k \in usable : [q |-> accept[k].q, mime |-> found(k)] \in offers
  <2> HIDE DEF found, usable
  <2> QED OBVIOUS
<1>7. \A o \in offers : \E k \in usable : o.q = accept[k].q /\ o.mime = found(k)
  <2> HIDE DEF found, usable
  <2> QED OBVIOUS
<1> HIDE DEF usable, found, offers, answered
<1>8. ASSUME NEW q \in 0..10, NEW m \in Acceptable(accept, candidate, q)
      PROVE  m \in candidate /\ \E o \in offers : o.q = q /\ Rank[m] <= Rank[o.mime]
  <2>1. PICK k \in DOMAIN accept : m \in candidate /\ accept[k].q = q /\ Covers(accept[k].media, m)
    BY <1>8 DEF Acceptable
  <2>2. k \in usable /\ Rank[m] <= Rank[found(k)]
    BY <1>2, <1>3, <2>1
  <2>3. [q |-> accept[k].q, mime |-> found(k)] \in offers
    BY <1>6, <2>2
  <2> QED BY <2>1, <2>2, <2>3
<1>9. CASE offers = {}
  <2>1. qualities = {}
    BY <1>8, <1>9
  <2>2. answered = NotAcceptable
    BY <1>4, <1>9
  <2> QED BY <2>1, <2>2 DEF IsBestAnswer, answered
<1>10. CASE offers # {}
  <2>1. \E o \in offers : \A p \in offers : Beats(o, p)
    BY <1>5, <1>10, BestOffer
  <2>2. best \in offers /\ \A p \in offers : Beats(best, p)
    BY <2>1
  <2>3. answered = best.mime
    BY <1>4, <1>10
  <2> HIDE DEF best
  <2>4. best.q \in 0..10 /\ best.mime \in Mimes
    BY <1>5, <2>2
  <2>5. PICK k \in usable : best.q = accept[k].q /\ best.mime = found(k)
    BY <1>7, <2>2
  <2>6. answered \in Acceptable(accept, candidate, best.q)
    BY <1>2, <2>3, <2>5 DEF Acceptable, usable
  <2>7. \A m \in Mimes : Rank[m] \in 0..3
    BY DEF Rank, Mimes
  <2>8. ASSUME NEW p \in qualities
        PROVE  p <= best.q
    <3>1. PICK m \in Acceptable(accept, candidate, p) : TRUE
      OBVIOUS
    <3>2. PICK o \in offers : o.q = p
      BY <1>8, <3>1
    <3> QED BY <2>2, <2>4, <3>2 DEF Beats
  <2>9. ASSUME NEW m \in Acceptable(accept, candidate, best.q)
        PROVE  Rank[m] <= Rank[answered]
    <3>1. PICK o \in offers : o.q = best.q /\ Rank[m] <= Rank[o.mime]
      BY <1>8, <2>4, <2>9
    <3>2. Rank[o.mime] <= Rank[best.mime]
      BY <1>5, <2>2, <2>4, <2>7, <3>1 DEF Beats
    <3>3. m \in Mimes /\ o.mime \in Mimes
      BY <1>5, <1>8, <2>4, <2>9
    <3> QED BY <2>3, <2>4, <2>7, <3>1, <3>2, <3>3
  <2>10. best.q \in qualities
    BY <2>4, <2>6
  <2>11. IsBestAnswer(answered, accept, candidate)
    BY <2>6, <2>8, <2>9, <2>10 DEF IsBestAnswer
  <2> QED BY <2>3, <2>4, <2>11 DEF answered
<1> QED BY <1>9, <1>10
=============================================================================
