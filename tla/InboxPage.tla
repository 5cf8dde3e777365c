------------------------------ MODULE InboxPage ------------------------------
(***************************************************************************)
(* The page of follower inboxes a fan-out step reads:                      *)
(* get_followers_inbox_batch(username, last_inbox) of UserProvider.  The   *)
(* Workers implementation is one query,                                    *)
(*    SELECT DISTINCT inbox ... AND inbox > ?2 ORDER BY inbox LIMIT 10,    *)
(* poured into an ArrayVec<String, 10>.                                    *)
(*                                                                         *)
(* Inbox URLs are only compared, so they are positive numbers; 0 is the    *)
(* empty string, which is below every URL and is where a walk starts.      *)
(***************************************************************************)
EXTENDS Integers, Sequences

CONSTANTS
    Inboxes,    \* the inbox URLs that exist
    BatchSize   \* capacity of the ArrayVec, and the LIMIT of the query

ASSUME InboxesAssumption == Inboxes \subseteq Nat \ {0}
ASSUME BatchSizeAssumption == BatchSize \in Nat \ {0}

EmptyString == 0

\* The cursors a walk can hold: last_inbox is "" or an inbox.
Cursors == Inboxes \cup {EmptyString}

\* inboxes.is_full(): the page may not be the last one.
IsFull(page) == Len(page) = BatchSize

\* next_last: vec.last().cloned().unwrap_or_default()
NextLast(page) == IF page = <<>> THEN EmptyString ELSE page[Len(page)]

\* The sequences a page can be.
Pages == UNION {[1..n -> Inboxes] : n \in 0..BatchSize}

\* Faulty variants of IsPage: the query without its ORDER BY, and with
\* "inbox >= ?2".
IsUnorderedPage(page, S, last) ==
    /\ \A k \in 1..Len(page) : page[k] \in S /\ page[k] > last
    /\ \A j, k \in 1..Len(page) : j # k => page[j] # page[k]
    /\ ~IsFull(page) => \A i \in S : i > last => \E k \in 1..Len(page) : page[k] = i
IsOverlappingPage(page, S, last) ==
    /\ \A k \in 1..Len(page) : page[k] \in S /\ page[k] >= last
    /\ \A j, k \in 1..Len(page) : j < k => page[j] < page[k]
    /\ \A i \in S :
          i >= last /\ (IsFull(page) => i <= NextLast(page))
             => \E k \in 1..Len(page) : page[k] = i

\* page is what the query answers when the user's inboxes are S: the first
\* BatchSize distinct members of S above the cursor, in ascending order.
IsPage(page, S, last) ==
    /\ \A k \in 1..Len(page) : page[k] \in S /\ page[k] > last
    /\ \A j, k \in 1..Len(page) : j < k => page[j] < page[k]
    /\ \A i \in S :
          i > last /\ (IsFull(page) => i <= NextLast(page))
             => \E k \in 1..Len(page) : page[k] = i
==============================================================================
