--------------------------- MODULE SiteCrawlProofs ---------------------------
(***************************************************************************)
(* Theorems about SiteCrawl, for every site, every set of hrefs and every  *)
(* max_pages.                                                              *)
(***************************************************************************)
EXTENDS SiteCrawl, LinksProofs, FiniteSetTheorems, SequenceTheorems, TLAPS

----------------------------------------------------------------------------
\* Sequences, whatever is in them.

IsList(q) == \E S : q \in Seq(S)

\* The empty list is the one of length 0, and has nothing in it.
LEMMA EmptyList ==
    ASSUME NEW q, IsList(q)
    PROVE  Len(q) \in Nat /\ (q = <<>> <=> Len(q) = 0) /\ ToSet(<<>>) = {}
<1>1. PICK S : q \in Seq(S)
  BY DEF IsList
<1> QED
  BY <1>1, EmptySeq, LenProperties DEF ToSet

\* The tail of a list has all of it but the head; of one without repetitions,
\* it has the head no more.
LEMMA TailOfList ==
    ASSUME NEW q, IsList(q), q # <<>>
    PROVE  /\ IsList(Tail(q))
           /\ Len(Tail(q)) = Len(q) - 1
           /\ ToSet(q) = ToSet(Tail(q)) \cup {Head(q)}
           /\ IsInjective(q) => IsInjective(Tail(q)) /\ Head(q) \notin ToSet(Tail(q))
<1>1. PICK S : q \in Seq(S)
  BY DEF IsList
<1>2. /\ Tail(q) \in Seq(S)
      /\ Len(q) \in Nat \ {0}
      /\ DOMAIN q = 1 .. Len(q)
      /\ Len(Tail(q)) = Len(q) - 1
      /\ DOMAIN Tail(q) = 1 .. Len(q) - 1
      /\ Head(q) = q[1]
      /\ \A i \in 1 .. Len(q) - 1 : Tail(q)[i] = q[i + 1]
  BY <1>1, EmptySeq, LenProperties, HeadTailProperties
<1>3. \A i \in 1 .. Len(q) : i = 1 \/ (i - 1 \in 1 .. Len(q) - 1 /\ Tail(q)[i - 1] = q[i])
  BY <1>2
<1>4. ToSet(q) = ToSet(Tail(q)) \cup {Head(q)}
  <2>1. ASSUME NEW x \in ToSet(q)
        PROVE  x \in ToSet(Tail(q)) \cup {Head(q)}
    <3>1. PICK i \in 1 .. Len(q) : x = q[i]
      BY <1>2 DEF ToSet
    <3>2. i = 1 \/ (i - 1 \in DOMAIN Tail(q) /\ x = Tail(q)[i - 1])
      BY <1>2, <1>3, <3>1
    <3> QED
      BY <1>2, <3>1, <3>2 DEF ToSet
  <2>2. ASSUME NEW x \in ToSet(Tail(q)) \cup {Head(q)}
        PROVE  x \in ToSet(q)
    BY <1>2 DEF ToSet
  <2> QED
    BY <2>1, <2>2
<1>5. ASSUME IsInjective(q)
      PROVE  IsInjective(Tail(q)) /\ Head(q) \notin ToSet(Tail(q))
  BY <1>2, <1>5 DEF IsInjective, ToSet
<1> QED
  BY <1>1, <1>2, <1>4, <1>5 DEF IsList

\* Appending adds one element, and no repetition if it is new.
LEMMA AppendToList ==
    ASSUME NEW q, IsList(q), NEW x
    PROVE  /\ IsList(Append(q, x))
           /\ Len(Append(q, x)) = Len(q) + 1
           /\ ToSet(Append(q, x)) = ToSet(q) \cup {x}
           /\ IsInjective(q) /\ x \notin ToSet(q) => IsInjective(Append(q, x))
<1>1. PICK S : q \in Seq(S)
  BY DEF IsList
<1> DEFINE T == S \cup {x}
<1>2. q \in Seq(T)
  BY <1>1, SeqMonotonic
<1> HIDE DEF T
<1>3. x \in T
  BY DEF T
<1>4. /\ Append(q, x) \in Seq(T)
      /\ Len(q) \in Nat
      /\ Len(Append(q, x)) = Len(q) + 1
      /\ DOMAIN q = 1 .. Len(q)
      /\ DOMAIN Append(q, x) = 1 .. Len(q) + 1
      /\ \A i \in 1 .. Len(q) : Append(q, x)[i] = q[i]
      /\ Append(q, x)[Len(q) + 1] = x
  BY <1>2, <1>3, LenProperties, AppendProperties
<1>5. ToSet(Append(q, x)) = ToSet(q) \cup {x}
  BY <1>4 DEF ToSet
<1>6. ASSUME IsInjective(q), x \notin ToSet(q)
      PROVE  IsInjective(Append(q, x))
  BY <1>4, <1>6 DEF IsInjective, ToSet
<1> QED
  BY <1>4, <1>5, <1>6 DEF IsList

----------------------------------------------------------------------------
\* The invariant.

\* A page has been taken from the queue and is not in the result yet.
Busy == pc \in {"fetch", "ladder", "wait", "body"}

\* What the steps that count need of the types; what URLs are is in Addresses.
Types ==
    /\ kind \in Kinds
    /\ pc \in {"loop", "fetch", "ladder", "wait", "body", "links", "ping", "done", "raised"}
    /\ pc = "links" => kind = "all"
    /\ IsList(queue)
    /\ IsFiniteSet(seen)
    /\ pages \in Nat /\ errors \in Nat /\ saved \in Nat /\ silent \in Nat
    /\ stats \in [Counted -> Nat]
    /\ sent \in [done : Nat, total : Nat]
    /\ left \in 0 .. Variants
    /\ answer \in Answers \cup {"none"}
    /\ requests \in Nat

\* The page at hand is one of those seen.
Frontier == EachOnce /\ (kind = "all" /\ Busy => cur \in seen)

\* CountsAddUp at every step.
Numbers ==
    /\ pages = errors + stats["saved"] + stats["rejected"] + stats["spooled"] + silent
    /\ saved <= stats["saved"]
    /\ kind = "all" =>
          /\ pages <= MaxPages
          /\ Busy => pages < MaxPages /\ Cardinality(seen) = pages + 1
          /\ ~Busy => Cardinality(seen) = pages

\* The ladder is only for a first page of full_crawl, and that is its start.
Requests ==
    /\ pc = "fetch" => requests = 0
    /\ pc = "ladder" => requests = Variants + 1 - left
    /\ pc = "wait" => requests <= Variants + 2
    /\ pc = "body" => requests <= Variants + 3
    /\ ~Busy => requests = 0
    /\ kind = "all" =>
          /\ pc = "ladder" => pages = 0
          /\ pc = "wait" => requests <= 1 \/ pages = 0
          /\ pc = "body" => requests <= 2 \/ pages = 0
          /\ pc = "loop" /\ pages = 0 => queue = <<Start>>
          /\ Busy /\ pages = 0 => cur = Start
          /\ pc \in {"links", "ping"} => pages > 0

\* No page has a good answer before its first request.
Answered == FirstGoodAnswerKept /\ (~Busy => ~good)

\* The last ping says no more than the next one will.
Progress ==
    /\ sent.done <= pages
    /\ pc \in {"links", "ping"} => sent.done < pages
    /\ kind = "pages" => sent.total <= IF Busy THEN pages + 1 + Len(queue) ELSE pages + Len(queue)
    /\ kind = "all" => sent.total <= Cardinality(seen) + Len(queue) /\ sent.total <= MaxPages
    /\ kind = "single" =>
          /\ sent = [done |-> 0, total |-> 0]
          /\ pages + Len(queue) + (IF Busy THEN 1 ELSE 0) = 1 \/ pc = "raised"
          /\ pages <= 1

LastWord ==
    /\ pc \in {"loop", "done"} /\ ~MorePages /\ pages > 1 =>
          sent = [done |-> pages, total |-> pages]
    /\ pc = "done" => ~MorePages

Inv ==
    /\ Types
    /\ Frontier
    /\ Numbers
    /\ Requests
    /\ Answered
    /\ Progress
    /\ LastWord

\* The invariant holds at the start, whichever handler runs.
LEMMA InitInv == Init => Inv
<1> SUFFICES ASSUME Init PROVE Inv
  OBVIOUS
<1>1. IsList(queue)
  <2>1. \A x : <<x>> \in Seq({x})
    OBVIOUS
  <2>2. CASE queue \in PageLists
    <3>1. queue \in Seq(Urls)
      BY <2>2, CrawlConstants
    <3> QED
      BY <3>1 DEF IsList
  <2>3. CASE queue = <<Seed>> \/ queue = <<Start>>
    BY <2>1, <2>3 DEF IsList
  <2> QED
    BY <2>2, <2>3 DEF Init
<1>2. IsFiniteSet(seen) /\ Cardinality(seen) = 0 /\ seen = {} /\ Len(queue) \in Nat
  BY <1>1, FS_EmptySet, EmptyList DEF Init
<1>3. Types
  BY <1>1, <1>2 DEF Init, Types, Kinds, Variants, Counted
<1>4. Frontier
  <2>1. ASSUME kind = "all"
        PROVE  IsInjective(queue) /\ ToSet(queue) = {Start} /\ discovered = {Start}
    <3>1. queue = <<Start>> /\ discovered = {Start}
      BY <2>1 DEF Init
    <3>2. DOMAIN <<Start>> = {1} /\ <<Start>>[1] = Start
      OBVIOUS
    <3> QED
      BY <3>1, <3>2 DEF IsInjective, ToSet
  <2> QED
    BY <1>2, <2>1 DEF Frontier, EachOnce, Busy, Init
<1>5. Numbers
  BY <1>2, CrawlConstants DEF Numbers, Init, Busy, Counted
<1>6. Requests /\ Answered
  BY DEF Requests, Answered, FirstGoodAnswerKept, Init, Busy
<1>7. Progress /\ LastWord
  BY <1>2, CrawlConstants DEF Progress, LastWord, Init, Busy
<1> QED
  BY <1>3, <1>4, <1>5, <1>6, <1>7 DEF Inv

----------------------------------------------------------------------------
\* What the two larger actions do.

\* A page that is read is in one more count.
LEMMA Persisted ==
    ASSUME Types, FetchPage
    PROVE  /\ stats' \in [Counted -> Nat] /\ silent' \in Nat /\ saved' \in Nat
           /\ stats'["saved"] + stats'["rejected"] + stats'["spooled"] + silent'
                = stats["saved"] + stats["rejected"] + stats["spooled"] + silent + 1
           /\ saved <= stats["saved"] => saved' <= stats'["saved"]
<1> USE DEF Types, Counted
<1>1. CASE PersistFails
  BY <1>1 DEF PersistFails
<1>2. ASSUME NEW outcome \in Counted, NEW logged \in BOOLEAN, Persist(outcome, logged)
      PROVE  /\ stats' = [stats EXCEPT ![outcome] = @ + 1]
             /\ saved' = saved \/ (outcome = "saved" /\ saved' = saved + 1)
             /\ silent' = silent
  <2>1. CASE outcome = "saved" /\ logged
    BY <1>2, <2>1 DEF Persist
  <2>2. CASE ~(outcome = "saved" /\ logged)
    BY <1>2, <2>2, Zenon DEF Persist
  <2> QED
    BY <2>1, <2>2
<1>3. ASSUME NEW outcome \in Counted,
             stats' = [stats EXCEPT ![outcome] = @ + 1],
             saved' = saved \/ (outcome = "saved" /\ saved' = saved + 1),
             silent' = silent
      PROVE  /\ stats' \in [Counted -> Nat] /\ silent' \in Nat /\ saved' \in Nat
             /\ stats'["saved"] + stats'["rejected"] + stats'["spooled"] + silent'
                  = stats["saved"] + stats["rejected"] + stats["spooled"] + silent + 1
             /\ saved <= stats["saved"] => saved' <= stats'["saved"]
  <2>1. CASE outcome = "saved"
    BY <1>3, <2>1
  <2>2. CASE outcome = "rejected"
    BY <1>3, <2>2
  <2>3. CASE outcome = "spooled"
    BY <1>3, <2>3
  <2> QED
    BY <2>1, <2>2, <2>3
<1> QED
  BY <1>1, <1>2, <1>3 DEF FetchPage

\* A link is queued only when it is new.
LEMMA Queued ==
    ASSUME NEW href, Follow(href)
    PROVE  \/ /\ queue' = queue
              /\ discovered' = discovered \/ (\E link \in seen \cup ToSet(queue) :
                                                discovered' = discovered \cup {link})
           \/ \E link : /\ link \notin seen \cup ToSet(queue)
                        /\ queue' = Append(queue, link)
                        /\ discovered' = discovered \cup {link}
<1> DEFINE link == LinkOf(found_on, href)
<1>1. CASE ~Followed(link, Host)
  BY <1>1 DEF Follow
<1>2. CASE Followed(link, Host)
  <2>1. Queue(link)
    BY <1>2 DEF Follow
  <2> HIDE DEF link
  <2> QED
    BY <2>1 DEF Queue
<1> QED
  BY <1>1, <1>2

----------------------------------------------------------------------------
\* One lemma for each part of the invariant.

\* Every step keeps the types.
LEMMA TypesInv ==
    ASSUME Types, [Next]_vars
    PROVE  Types'
<1>1. IsList(queue')
  <2>1. CASE NextUrl
    BY <2>1, TailOfList DEF NextUrl, MorePages, Types
  <2>2. ASSUME NEW href \in Href, Follow(href)
        PROVE  IsList(queue')
    <3>1. CASE queue' = queue
      BY <3>1 DEF Types
    <3>2. CASE \E link : queue' = Append(queue, link)
      <4>1. PICK link : queue' = Append(queue, link)
        BY <3>2
      <4>2. IsList(Append(queue, link))
        BY AppendToList DEF Types
      <4> QED
        BY <4>1, <4>2
    <3> QED
      BY <2>2, <3>1, <3>2, Queued
  <2>3. CASE UNCHANGED queue
    BY <2>3 DEF Types
  <2>4. NextUrl \/ (\E href \in Href : Follow(href)) \/ UNCHANGED queue
    BY DEF Next, Step, GetPage, TryVariant, GetAgain, GetAfterWait, Ask, FetchFails,
           FetchEmpty, FetchPage, EndOfLinks, Ping, Finish, Ended, frontier, vars
  <2> QED
    BY <2>1, <2>2, <2>3, <2>4
<1> USE DEF Types, counts, frontier, fetch
<1>2. CASE NextUrl
  <2>1. IsFiniteSet(seen')
    BY <1>2, FS_AddElement DEF NextUrl
  <2> QED
    BY <1>1, <1>2, <2>1 DEF NextUrl
<1>3. CASE GetPage
  BY <1>1, <1>3 DEF GetPage, Ask, Settle, Answers, Variants
<1>4. CASE TryVariant
  BY <1>1, <1>4 DEF TryVariant, Ask, Answers, Variants
<1>5. CASE GetAgain \/ GetAfterWait
  BY <1>1, <1>5 DEF GetAgain, GetAfterWait, Ask, Settle, Answers
<1>6. CASE FetchFails
  BY <1>1, <1>6 DEF FetchFails, Fetched, Variants
<1>7. CASE FetchEmpty
  BY <1>1, <1>7 DEF FetchEmpty, Fetched, Variants
<1>8. CASE FetchPage
  <2>1. stats' \in [Counted -> Nat] /\ silent' \in Nat /\ saved' \in Nat
    BY <1>8, Persisted
  <2> QED
    BY <1>1, <1>8, <2>1 DEF FetchPage, Fetched, Variants
<1>9. CASE \E href \in Href : Follow(href)
  BY <1>1, <1>9 DEF Follow
<1>10. CASE Ping
  <2>1. Total \in Nat
    <3>1. Len(queue) \in Nat /\ Cardinality(seen) \in Nat
      BY EmptyList, FS_CardinalityType
    <3> QED
      BY <3>1, CrawlConstants DEF Total, Kinds
  <2> QED
    BY <1>1, <1>10, <2>1 DEF Ping
<1>11. CASE EndOfLinks \/ Finish
  BY <1>1, <1>11 DEF EndOfLinks, Finish
<1>12. CASE Ended \/ UNCHANGED vars
  BY <1>1, <1>12 DEF Ended, vars
<1> QED
  BY <1>2, <1>3, <1>4, <1>5, <1>6, <1>7, <1>8, <1>9, <1>10, <1>11, <1>12 DEF Next, Step

\* The actions that leave the frontier and the page at hand alone.
LEMMA Waiting ==
    ASSUME [Next]_vars, ~NextUrl, ~(\E href \in Href : Follow(href))
    PROVE  /\ UNCHANGED <<kind, frontier>>
           /\ Busy' => Busy /\ cur' = cur
<1> USE DEF Busy, frontier
<1>1. CASE GetPage \/ TryVariant \/ GetAgain \/ GetAfterWait
  BY <1>1 DEF GetPage, TryVariant, GetAgain, GetAfterWait, Ask, Settle
<1>2. CASE FetchFails \/ FetchEmpty \/ FetchPage
  BY <1>2 DEF FetchFails, FetchEmpty, FetchPage
<1>3. CASE EndOfLinks \/ Ping \/ Finish \/ Ended \/ UNCHANGED vars
  BY <1>3 DEF EndOfLinks, Ping, Finish, Ended, vars
<1> QED
  BY <1>1, <1>2, <1>3 DEF Next, Step

\* full_crawl meets no page in its queue that it has seen.
LEMMA NextIsNew ==
    ASSUME Types, EachOnce, NextUrl
    PROVE  /\ cur' = Head(queue)
           /\ queue' = Tail(queue)
           /\ pc' = "fetch"
           /\ kind = "all" => Head(queue) \notin seen /\ seen' = seen \cup {Head(queue)}
<1>1. Head(queue) \in ToSet(queue)
  BY TailOfList DEF NextUrl, MorePages, Types
<1>2. kind = "all" => Head(queue) \notin seen
  BY <1>1 DEF EachOnce
<1> QED
  BY <1>2 DEF NextUrl

\* Only NextUrl and Follow change the frontier, and neither repeats a page or
\* loses one.
LEMMA FrontierInv ==
    ASSUME Types, Frontier, [Next]_vars
    PROVE  Frontier'
<1>1. CASE kind' = "all" /\ NextUrl
  <2>1. kind = "all" /\ discovered' = discovered
    BY <1>1 DEF NextUrl
  <2>2. cur' = Head(queue) /\ queue' = Tail(queue) /\ seen' = seen \cup {Head(queue)}
    BY <1>1, <2>1, NextIsNew DEF Frontier
  <2>3. /\ ToSet(queue) = ToSet(queue') \cup {Head(queue)}
        /\ IsInjective(queue) => IsInjective(queue') /\ Head(queue) \notin ToSet(queue')
    BY <1>1, <2>2, TailOfList DEF NextUrl, MorePages, Types
  <2>4. EachOnce'
    BY <2>1, <2>2, <2>3 DEF Frontier, EachOnce
  <2> QED
    BY <2>2, <2>4 DEF Frontier
<1>2. CASE kind' = "all" /\ \E href \in Href : Follow(href)
  <2>1. PICK href \in Href : Follow(href)
    BY <1>2
  <2>2. kind = "all" /\ pc' = "links" /\ seen' = seen
    BY <1>2, <2>1 DEF Follow
  <2>3. EachOnce
    BY DEF Frontier
  <2>4. ASSUME queue' = queue,
               \/ discovered' = discovered
               \/ \E link \in seen \cup ToSet(queue) : discovered' = discovered \cup {link}
        PROVE  EachOnce'
    BY <2>2, <2>3, <2>4 DEF EachOnce
  <2>5. ASSUME NEW link,
               link \notin seen \cup ToSet(queue),
               queue' = Append(queue, link),
               discovered' = discovered \cup {link}
        PROVE  EachOnce'
    <3>1. /\ ToSet(queue') = ToSet(queue) \cup {link}
          /\ IsInjective(queue) => IsInjective(queue')
      BY <2>5, AppendToList DEF Types
    <3> QED
      BY <2>2, <2>3, <2>5, <3>1 DEF EachOnce
  <2>6. EachOnce'
    BY <2>1, <2>4, <2>5, Queued
  <2> QED
    BY <2>2, <2>6 DEF Frontier, Busy
<1>3. CASE ~NextUrl /\ ~(\E href \in Href : Follow(href))
  BY <1>3, Waiting DEF Frontier, EachOnce, frontier
<1> QED
  BY <1>1, <1>2, <1>3 DEF Frontier, EachOnce

\* Every page that is left is in one more count.
LEMMA NumbersInv ==
    ASSUME Types, Frontier, Numbers, [Next]_vars
    PROVE  Numbers'
<1>a. /\ MaxPages \in Nat
      /\ pages \in Nat /\ errors \in Nat /\ saved \in Nat /\ silent \in Nat
      /\ stats["saved"] \in Nat /\ stats["rejected"] \in Nat /\ stats["spooled"] \in Nat
  BY CrawlConstants DEF Types, Counted
<1>1. CASE NextUrl
  <2>1. CASE kind = "all"
    <3>1. /\ Head(queue) \notin seen /\ seen' = seen \cup {Head(queue)}
          /\ pc' = "fetch"
      BY <1>1, <2>1, NextIsNew DEF Frontier
    <3>2. Cardinality(seen') = Cardinality(seen) + 1
      BY <3>1, FS_AddElement DEF Types
    <3>3. UNCHANGED <<kind, counts>> /\ pages < MaxPages /\ ~Busy /\ Busy'
      BY <1>1, <2>1, <3>1 DEF NextUrl, MorePages, Busy
    <3> QED
      BY <2>1, <3>2, <3>3 DEF Numbers, counts
  <2> QED
    BY <1>1, <2>1 DEF NextUrl, Numbers, counts
<1>2. CASE GetPage \/ TryVariant \/ GetAgain \/ GetAfterWait
  <2>1. UNCHANGED <<kind, frontier, counts>> /\ Busy /\ Busy'
    BY <1>2 DEF GetPage, TryVariant, GetAgain, GetAfterWait, Ask, Settle, Busy
  <2> QED
    BY <2>1 DEF Numbers, counts, frontier
<1>3. CASE FetchFails
  <2>1. CASE kind = "single"
    BY <1>3, <2>1 DEF FetchFails, Numbers, counts, frontier
  <2>2. CASE kind # "single"
    <3>1. /\ UNCHANGED <<kind, frontier, saved, stats, silent>>
          /\ errors' = errors + 1 /\ pages' = pages + 1
          /\ Busy /\ ~Busy'
      BY <1>3, <2>2 DEF FetchFails, Fragile, Busy
    <3> QED
      BY <1>a, <3>1 DEF Numbers, frontier
  <2> QED
    BY <2>1, <2>2
<1>4. CASE FetchEmpty
  <2>1. /\ UNCHANGED <<kind, frontier, errors, saved, stats>>
        /\ silent' = silent + 1 /\ pages' = pages + 1
        /\ Busy /\ ~Busy'
    BY <1>4 DEF FetchEmpty, Busy
  <2> QED
    BY <1>a, <2>1 DEF Numbers, frontier
<1>5. CASE FetchPage
  <2>1. /\ UNCHANGED <<kind, frontier, errors>>
        /\ pages' = pages + 1
        /\ Busy /\ ~Busy'
    BY <1>5 DEF FetchPage, Busy
  <2> QED
    <3>1. /\ stats'["saved"] \in Nat /\ stats'["rejected"] \in Nat /\ stats'["spooled"] \in Nat
          /\ silent' \in Nat /\ saved' \in Nat
          /\ stats'["saved"] + stats'["rejected"] + stats'["spooled"] + silent'
               = stats["saved"] + stats["rejected"] + stats["spooled"] + silent + 1
          /\ saved <= stats["saved"] => saved' <= stats'["saved"]
      BY <1>5, Persisted DEF Counted
    <3> QED
      BY <1>a, <2>1, <3>1 DEF Numbers, frontier
<1>6. CASE \E href \in Href : Follow(href)
  BY <1>6 DEF Follow, Numbers, Busy, counts
<1>7. CASE EndOfLinks \/ Ping \/ Finish \/ Ended \/ UNCHANGED vars
  BY <1>7 DEF EndOfLinks, Ping, Finish, Ended, vars, Numbers, Busy, counts, frontier
<1> QED
  BY <1>1, <1>2, <1>3, <1>4, <1>5, <1>6, <1>7 DEF Next, Step

\* A request more only where the bound has room for it.
LEMMA RequestsInv ==
    ASSUME Types, Frontier, Requests, [Next]_vars
    PROVE  Requests'
<1>a. pages \in Nat /\ requests \in Nat /\ left \in 0 .. 3 /\ Variants = 3
  BY DEF Types, Variants
<1>1. CASE NextUrl
  <2>1. cur' = Head(queue) /\ queue' = Tail(queue) /\ pc' = "fetch"
    BY <1>1, NextIsNew DEF Frontier
  <2>2. /\ requests' = 0 /\ UNCHANGED <<kind, pages>>
        /\ kind = "all" /\ pages = 0 => Head(queue) = Start
    BY <1>1 DEF NextUrl, counts, fetch, Requests, Busy
  <2> QED
    BY <2>1, <2>2 DEF Requests, Busy
<1>2. CASE GetPage
  <2>1. /\ UNCHANGED <<kind, pages, cur>> /\ requests' = 1 /\ pc = "fetch"
        /\ \/ pc' = "ladder" /\ left' = 3 /\ (kind = "all" => pages = 0)
           \/ pc' \in {"wait", "body"}
    BY <1>a, <1>2 DEF GetPage, Ask, Settle, TryVariants, Requests, counts
  <2> QED
    BY <1>a, <2>1 DEF Requests, Busy
<1>3. CASE TryVariant
  <2>1. /\ UNCHANGED <<kind, pages, cur>> /\ requests' = requests + 1 /\ pc = "ladder"
        /\ left > 0 /\ left' = left - 1
        /\ pc' \in {"ladder", "body"}
    BY <1>3 DEF TryVariant, Ask, counts
  <2> QED
    BY <1>a, <2>1 DEF Requests, Busy
<1>4. CASE GetAgain
  <2>1. /\ UNCHANGED <<kind, pages, cur>> /\ requests' = requests + 1 /\ pc = "ladder"
        /\ left = 0
        /\ pc' \in {"wait", "body"}
    BY <1>4 DEF GetAgain, Ask, Settle, counts
  <2> QED
    BY <1>a, <2>1 DEF Requests, Busy
<1>5. CASE GetAfterWait
  <2>1. /\ UNCHANGED <<kind, pages, cur>> /\ requests' = requests + 1 /\ pc = "wait"
        /\ pc' = "body"
    BY <1>5 DEF GetAfterWait, Ask, counts
  <2> QED
    BY <1>a, <2>1 DEF Requests, Busy
<1>6. CASE FetchFails \/ FetchEmpty \/ FetchPage
  <2>1. /\ kind' = kind /\ requests' = 0
        /\ pc' \in {"links", "ping", "raised"}
        /\ pc' = "raised" \/ pages' = pages + 1
    BY <1>6 DEF FetchFails, FetchEmpty, FetchPage, Fetched
  <2> QED
    BY <1>a, <2>1 DEF Requests, Busy
<1>7. CASE (\E href \in Href : Follow(href)) \/ EndOfLinks
  <2>1. /\ UNCHANGED <<kind, pages, requests>> /\ pc = "links" /\ pc' \in {"links", "ping"}
    BY <1>7 DEF Follow, EndOfLinks, counts, fetch
  <2> QED
    BY <2>1 DEF Requests, Busy
<1>8. CASE Ping \/ Finish
  <2>1. /\ UNCHANGED <<kind, pages, requests>>
        /\ \/ pc = "ping" /\ pc' = "loop"
           \/ pc = "loop" /\ pc' \in {"raised", "done"}
    BY <1>8 DEF Ping, Finish, counts, fetch
  <2> QED
    BY <1>a, <2>1 DEF Requests, Busy
<1>9. CASE Ended \/ UNCHANGED vars
  BY <1>9 DEF Ended, vars, Requests, Busy
<1> QED
  BY <1>1, <1>2, <1>3, <1>4, <1>5, <1>6, <1>7, <1>8, <1>9 DEF Next, Step

\* The ladder is left, and the wait not entered, with the first good answer.
LEMMA AnsweredInv ==
    ASSUME Answered, [Next]_vars
    PROVE  Answered'
<1> USE DEF Answered, FirstGoodAnswerKept, Busy
<1>1. CASE NextUrl
  BY <1>1 DEF NextUrl, fetch
<1>2. CASE GetPage
  BY <1>2 DEF GetPage, Ask, Settle, Answers
<1>3. CASE TryVariant
  <2>1. ASSUME NEW how \in Answers, Ask(how), pc' = IF how = "good" THEN "body" ELSE "ladder"
        PROVE  Answered'
    <3>1. ~good
      BY <1>3 DEF TryVariant
    <3> QED
      BY <2>1, <3>1 DEF Ask
  <2>2. CASE UNCHANGED <<pc, answer, good>>
    BY <2>2
  <2> QED
    BY <1>3, <2>1, <2>2 DEF TryVariant
<1>4. CASE GetAgain \/ GetAfterWait
  BY <1>4 DEF GetAgain, GetAfterWait, Ask, Settle, Answers
<1>5. CASE FetchFails \/ FetchEmpty \/ FetchPage
  BY <1>5 DEF FetchFails, FetchEmpty, FetchPage, Fetched
<1>6. CASE (\E href \in Href : Follow(href)) \/ EndOfLinks \/ Ping \/ Finish
  BY <1>6 DEF Follow, EndOfLinks, Ping, Finish, fetch
<1>7. CASE Ended \/ UNCHANGED vars
  BY <1>7 DEF Ended, vars
<1> QED
  BY <1>1, <1>2, <1>3, <1>4, <1>5, <1>6, <1>7 DEF Next, Step

\* What a ping can say, and when it must.
LEMMA Pinged ==
    ASSUME Inv, Ping
    PROVE  /\ Total \in Nat
           /\ pages <= Total
           /\ kind = "pages" => Total = pages + Len(queue)
           /\ kind = "all" => /\ Total <= Cardinality(seen) + Len(queue)
                              /\ Total <= MaxPages
                              /\ sent.total <= Total
           /\ ~MorePages => Total = pages
           /\ kind = "single" => sent' = sent
           /\ sent' = sent \/ sent' = [done |-> pages, total |-> Total]
           /\ ~MorePages /\ pages > 1 => sent' = [done |-> pages, total |-> Total]
<1>1. /\ pages \in Nat /\ Len(queue) \in Nat /\ MaxPages \in Nat
      /\ Cardinality(seen) \in Nat /\ sent.total \in Nat
      /\ (queue = <<>> <=> Len(queue) = 0)
  BY EmptyList, FS_CardinalityType, CrawlConstants DEF Inv, Types
<1>2. /\ pc = "ping" /\ kind \in {"single", "pages", "all"}
      /\ kind = "all" => Cardinality(seen) = pages /\ pages <= MaxPages
      /\ kind = "all" => sent.total <= Cardinality(seen) + Len(queue) /\ sent.total <= MaxPages
      /\ kind = "single" => pages <= 1 /\ pages + Len(queue) = 1
  BY DEF Ping, Inv, Numbers, Progress, Busy, Types, Kinds
<1>3. /\ sent' = sent \/ sent' = [done |-> pages, total |-> Total]
      /\ Total <= 1 => sent' = sent
      /\ Total > 1 /\ pages = Total => sent' = [done |-> pages, total |-> Total]
  <2>1. Total \in Nat
    BY <1>1, <1>2 DEF Total
  <2>2. CASE Total <= 1
    <3>1. Sends(pages, Total) = {FALSE}
      <4>1. ~(Total > 1)
        BY <2>1, <2>2
      <4> QED
        BY <2>2, <4>1, Zenon DEF Sends
    <3>2. sent' = sent
      BY <3>1, Zenon DEF Ping
    <3> QED
      BY <2>1, <2>2, <3>2
  <2>3. CASE Total > 1 /\ pages = Total
    <3>1. Sends(pages, Total) = {TRUE}
      BY <2>1, <2>3 DEF Sends
    <3>2. sent' = [done |-> pages, total |-> Total]
      BY <3>1, Zenon DEF Ping
    <3> QED
      BY <2>1, <2>3, <3>2
  <2>4. sent' = sent \/ sent' = [done |-> pages, total |-> Total]
    BY Zenon DEF Ping
  <2> QED
    BY <2>1, <2>2, <2>3, <2>4
<1>4. CASE kind = "single"
  <2>1. Total = 1
    BY <1>4 DEF Total
  <2> QED
    BY <1>1, <1>2, <1>3, <1>4, <2>1 DEF MorePages
<1>5. CASE kind = "pages"
  <2>1. Total = pages + Len(queue)
    BY <1>5 DEF Total
  <2> QED
    BY <1>1, <1>2, <1>3, <1>5, <2>1 DEF MorePages
<1>6. CASE kind = "all"
  <2>1. Total = IF Cardinality(seen) + Len(queue) < MaxPages
                THEN Cardinality(seen) + Len(queue) ELSE MaxPages
    BY <1>6 DEF Total
  <2> QED
    BY <1>1, <1>2, <1>3, <1>6, <2>1 DEF MorePages
<1> QED
  BY <1>2, <1>4, <1>5, <1>6

\* Pages and links only add to what the next ping can say.
LEMMA ProgressInv ==
    ASSUME Inv, [Next]_vars
    PROVE  Progress'
<1>a. /\ pages \in Nat /\ Len(queue) \in Nat /\ Cardinality(seen) \in Nat
      /\ sent.done \in Nat /\ sent.total \in Nat /\ MaxPages \in Nat
  BY EmptyList, FS_CardinalityType, CrawlConstants DEF Inv, Types
<1>b. Progress /\ Numbers
  BY DEF Inv
<1>1. CASE NextUrl
  <2>1. /\ queue' = Tail(queue) /\ pc' = "fetch"
        /\ kind = "all" => Head(queue) \notin seen /\ seen' = seen \cup {Head(queue)}
    BY <1>1, NextIsNew DEF Inv, Frontier
  <2>2. Len(queue') = Len(queue) - 1
    BY <1>1, <2>1, TailOfList DEF NextUrl, MorePages, Inv, Types
  <2>3. kind = "all" => Cardinality(seen') = Cardinality(seen) + 1
    BY <2>1, FS_AddElement DEF Inv, Types
  <2>4. UNCHANGED <<kind, pages, sent>> /\ pc = "loop"
    BY <1>1 DEF NextUrl, counts
  <2> QED
    <3>1. ~Busy /\ Busy' /\ pc' = "fetch"
      BY <2>1, <2>4 DEF Busy
    <3> QED
      BY <1>a, <1>b, <2>2, <2>3, <2>4, <3>1 DEF Progress
<1>2. CASE GetPage \/ TryVariant \/ GetAgain \/ GetAfterWait
  <2>1. UNCHANGED <<kind, queue, seen, pages, sent>> /\ Busy /\ Busy'
    BY <1>2 DEF GetPage, TryVariant, GetAgain, GetAfterWait, Ask, Settle, Busy, frontier, counts
  <2>2. pc' \notin {"links", "ping"} /\ pc # "raised"
    BY <2>1 DEF Busy
  <2> QED
    BY <1>b, <2>1, <2>2 DEF Progress
<1>3. CASE FetchFails \/ FetchEmpty \/ FetchPage
  <2>1. /\ UNCHANGED <<kind, queue, seen, sent>>
        /\ \/ pages' = pages + 1 /\ pc' \in {"links", "ping"}
           \/ pages' = pages /\ pc' = "raised" /\ kind = "single"
        /\ pc \in {"fetch", "ladder", "wait", "body"}
    BY <1>3 DEF FetchFails, FetchEmpty, FetchPage, Fragile, frontier, counts
  <2> QED
    BY <1>a, <1>b, <2>1 DEF Progress, Busy
<1>4. CASE \E href \in Href : Follow(href)
  <2>1. PICK href \in Href : Follow(href)
    BY <1>4
  <2>2. UNCHANGED <<kind, seen, pages, sent, pc>> /\ pc = "links" /\ kind = "all"
    BY <2>1 DEF Follow, counts, Inv, Types
  <2>3. Len(queue') \in Nat /\ Len(queue') >= Len(queue)
    <3>1. CASE queue' = queue
      BY <1>a, <3>1
    <3>2. CASE \E link : queue' = Append(queue, link)
      BY <1>a, <3>2, AppendToList DEF Inv, Types
    <3> QED
      BY <2>1, <3>1, <3>2, Queued
  <2> QED
    BY <1>a, <1>b, <2>2, <2>3 DEF Progress, Busy
<1>5. CASE Ping
  <2>1. UNCHANGED <<kind, queue, seen, pages>> /\ pc = "ping" /\ pc' = "loop"
    BY <1>5 DEF Ping, frontier, counts
  <2>2. CASE sent' = sent
    BY <1>a, <1>b, <2>1, <2>2 DEF Progress, Busy
  <2>3. CASE sent' = [done |-> pages, total |-> Total] /\ kind # "single"
    <3>1. sent'.done = pages /\ sent'.total = Total
      BY <2>3
    <3> QED
      BY <1>a, <1>5, <2>1, <2>3, <3>1, Pinged DEF Progress, Busy
  <2> QED
    BY <1>5, <2>2, <2>3, Pinged
<1>6. CASE EndOfLinks
  <2>1. UNCHANGED <<kind, queue, seen, pages, sent>> /\ pc = "links" /\ pc' = "ping"
    BY <1>6 DEF EndOfLinks, frontier, counts
  <2> QED
    BY <1>b, <2>1 DEF Progress, Busy
<1>7. CASE Finish
  <2>1. UNCHANGED <<kind, queue, seen, pages, sent>> /\ pc = "loop" /\ pc' \in {"raised", "done"}
    BY <1>7 DEF Finish, frontier, counts
  <2> QED
    BY <1>b, <2>1 DEF Progress, Busy
<1>8. CASE Ended \/ UNCHANGED vars
  BY <1>b, <1>8 DEF Ended, vars, Progress, Busy
<1> QED
  BY <1>1, <1>2, <1>3, <1>4, <1>5, <1>6, <1>7, <1>8 DEF Next, Step

\* The loop has run out of pages only after the last ping.
LEMMA LastWordInv ==
    ASSUME Inv, [Next]_vars
    PROVE  LastWord'
<1> USE DEF LastWord, MorePages
<1>1. CASE NextUrl
  <2>1. pc' = "fetch"
    BY <1>1, NextIsNew DEF Inv, Frontier
  <2> QED
    BY <2>1
<1>2. CASE pc' \notin {"loop", "done"}
  BY <1>2
<1>3. CASE Ping
  <2>1. UNCHANGED <<kind, queue, pages>> /\ pc' = "loop"
    BY <1>3 DEF Ping, frontier, counts
  <2>2. ~MorePages /\ pages > 1 => sent' = [done |-> pages, total |-> pages]
    BY <1>3, Pinged
  <2> QED
    BY <2>1, <2>2
<1>4. CASE Finish
  <2>1. UNCHANGED <<kind, queue, pages, sent>> /\ pc = "loop" /\ ~MorePages
    BY <1>4 DEF Finish, frontier, counts
  <2> QED
    BY <2>1 DEF Inv
<1>5. CASE Ended \/ UNCHANGED vars
  BY <1>5 DEF Ended, vars, Inv
<1>6. CASE \/ GetPage \/ TryVariant \/ GetAgain \/ GetAfterWait
           \/ FetchFails \/ FetchEmpty \/ FetchPage
  <2>1. pc' \notin {"loop", "done"}
    BY <1>6 DEF GetPage, TryVariant, GetAgain, GetAfterWait, Ask, Settle, FetchFails,
                FetchEmpty, FetchPage
  <2> QED
    BY <1>2, <2>1
<1>7. CASE EndOfLinks \/ (\E href \in Href : Follow(href))
  <2>1. pc' \notin {"loop", "done"}
    BY <1>7 DEF EndOfLinks, Follow
  <2> QED
    BY <1>2, <2>1
<1> QED
  BY <1>1, <1>3, <1>4, <1>5, <1>6, <1>7 DEF Next, Step

----------------------------------------------------------------------------
\* The theorems.

\* The invariant that the theorems follow from, for every site, every list of
\* pages and every max_pages.
THEOREM Invariance == SafeSpec => []Inv
<1>1. Inv /\ [Next]_vars => Inv'
  <2> SUFFICES ASSUME Inv, [Next]_vars PROVE Inv'
    OBVIOUS
  <2>1. Types /\ Frontier /\ Numbers /\ Requests /\ Answered
    BY DEF Inv
  <2>2. Types' /\ Frontier' /\ Numbers' /\ Requests' /\ Answered'
    BY <2>1, TypesInv, FrontierInv, NumbersInv, RequestsInv, AnsweredInv
  <2> QED
    BY <2>2, ProgressInv, LastWordInv DEF Inv
<1> QED
  BY InitInv, <1>1, PTL DEF SafeSpec

\* full_crawl fetches no page twice and forgets none it kept
\* (executor.py:512-534), on any site.
THEOREM EachOnceHolds == SafeSpec => []EachOnce
<1>1. Inv => EachOnce
  BY DEF Inv, Frontier
<1> QED
  BY <1>1, Invariance, PTL

\* Between two pages the worker's counts add up to the pages it has
\* (executor.py:512-543, worker.py:92-99).
THEOREM CountsAddUpHolds == SafeSpec => []CountsAddUp
<1>1. Inv => CountsAddUp
  BY DEF Inv, Numbers, CountsAddUp, Busy
<1> QED
  BY <1>1, Invariance, PTL

\* At most six requests for a page, and two for a page of full_crawl other than
\* its start (executor.py:268-297, 520-522).
THEOREM RequestsBoundedHolds == SafeSpec => []RequestsBounded
<1>1. Inv => RequestsBounded
  <2> SUFFICES ASSUME Inv PROVE RequestsBounded
    OBVIOUS
  <2>1. Requests /\ pages \in Nat /\ requests \in Nat /\ left \in 0 .. 3 /\ Variants = 3
    BY DEF Inv, Types, Variants
  <2>2. pc \in {"fetch", "ladder", "wait", "body"} \/ requests = 0
    BY <2>1 DEF Requests, Busy
  <2> QED
    BY <2>1, <2>2 DEF Requests, RequestsBounded, Busy
<1> QED
  BY <1>1, Invariance, PTL

\* The answer a page goes by is good exactly when one of its requests was
\* answered well (executor.py:276-277).
THEOREM FirstGoodAnswerKeptHolds == SafeSpec => []FirstGoodAnswerKept
<1>1. Inv => FirstGoodAnswerKept
  BY DEF Inv, Answered
<1> QED
  BY <1>1, Invariance, PTL

\* The last ping of a task of several pages says that all of them are done
\* (worker.py:75-83).
THEOREM LastPingHolds == SafeSpec => []LastPing
<1>1. Inv => LastPing
  BY DEF Inv, LastWord, LastPing
<1> QED
  BY <1>1, Invariance, PTL

\* Progress only goes forward, and never past the total (worker.py:75-83).
THEOREM ProgressForwardHolds == SafeSpec => ProgressForward
<1>1. Inv /\ [Next]_vars =>
        [sent' # sent => /\ sent'.done > sent.done
                         /\ sent'.total >= sent.total
                         /\ sent'.done <= sent'.total]_vars
  <2> SUFFICES ASSUME Inv, Next, sent' # sent
               PROVE  /\ sent'.done > sent.done
                      /\ sent'.total >= sent.total
                      /\ sent'.done <= sent'.total
    BY DEF vars
  <2>1. Ping
    BY DEF Next, Step, NextUrl, GetPage, TryVariant, GetAgain, GetAfterWait, Ask, FetchFails,
           FetchEmpty, FetchPage, Follow, EndOfLinks, Finish, Ended, vars
  <2>2. sent'.done = pages /\ sent'.total = Total /\ kind # "single" /\ pages <= Total
    BY <2>1, Pinged
  <2>3. /\ pages > sent.done
        /\ kind = "pages" => sent.total <= pages + Len(queue)
    BY <2>1 DEF Ping, Inv, Types, Progress, Busy
  <2>4. sent.total <= Total
    BY <2>1, <2>2, <2>3, Pinged DEF Inv, Types, Kinds
  <2>5. Total \in Nat /\ sent.total \in Nat
    BY <2>1, Pinged DEF Inv, Types
  <2> QED
    BY <2>2, <2>3, <2>4, <2>5
<1> QED
  BY Invariance, <1>1, PTL DEF SafeSpec, ProgressForward

\* The links that fetched pages have to pages of the site are kept.
Kept == kind = "all" => linked \subseteq discovered

\* Where the site answers under the host it was asked for, a crawl that stops
\* short of max_pages has fetched every page of that host to which it met a link
\* without a "#", wherever its pages are redirected (executor.py:40, 382-410,
\* 512-534).
THEOREM WholeSiteHolds ==
    ASSUME Home.host = Host
    PROVE  SafeSpec => []WholeSite
<1>1. Init => Kept
  BY DEF Init, Kept
<1>2. Kept /\ [Next]_vars => Kept'
  <2> SUFFICES ASSUME Kept, [Next]_vars PROVE Kept'
    OBVIOUS
  <2>1. ASSUME NEW href \in Href, Follow(href)
        PROVE  Kept'
    <3> DEFINE link == LinkOf(found_on, href)
    <3>1. CASE Followed(link, Host)
      <4>1. discovered' = discovered \cup {link} /\ linked' \subseteq linked \cup {link}
        BY <2>1, <3>1 DEF Follow, Queue
      <4> QED
        BY <2>1, <4>1 DEF Follow, Kept
    <3>2. CASE ~Followed(link, Host)
      <4>1. ~(IsPage(link) /\ link.host \in {Host, Home.host})
        BY <3>2 DEF Followed
      <4>2. linked' = linked /\ discovered' = discovered /\ kind' = kind
        BY <2>1, <3>2, <4>1 DEF Follow
      <4> QED
        BY <4>2 DEF Kept
    <3> QED
      BY <3>1, <3>2
  <2>2. CASE ~(\E href \in Href : Follow(href))
    <3>1. UNCHANGED <<kind, discovered, linked>>
      <4>1. CASE NextUrl
        BY <4>1 DEF NextUrl
      <4>2. CASE ~NextUrl
        BY <2>2, <4>2, Waiting DEF frontier
      <4> QED
        BY <4>1, <4>2
    <3> QED
      BY <3>1 DEF Kept
  <2> QED
    BY <2>1, <2>2
<1>3. Inv /\ Kept => WholeSite
  <2> SUFFICES ASSUME Inv, Kept, kind = "all", pc = "done", pages < MaxPages
               PROVE  linked \subseteq seen
    BY DEF WholeSite
  <2>1. queue = <<>>
    BY DEF Inv, LastWord, MorePages
  <2>2. ToSet(queue) = {}
    BY <2>1, EmptyList DEF Inv, Types
  <2> QED
    BY <2>2 DEF Inv, Frontier, EachOnce, Kept
<1> QED
  BY Invariance, <1>1, <1>2, <1>3, PTL DEF SafeSpec
----------------------------------------------------------------------------
\* The end.

\* A budget is a natural number.
LEMMA BudgetIsNat ==
    ASSUME Inv
    PROVE  PagesToCome \in Nat /\ Stage \in 0 .. 10 /\ Budget = 11 * PagesToCome + Stage
<1>1. /\ pages \in Nat /\ Len(queue) \in Nat /\ Cardinality(seen) \in Nat /\ MaxPages \in Nat
      /\ kind = "all" => /\ pages <= MaxPages
                         /\ Busy => pages < MaxPages /\ Cardinality(seen) = pages + 1
                         /\ ~Busy => Cardinality(seen) = pages
      /\ left \in 0 .. 3
  BY EmptyList, FS_CardinalityType, CrawlConstants DEF Inv, Types, Numbers, Variants
<1>2. PagesToCome \in Nat
  BY <1>1 DEF PagesToCome
<1>3. Stage \in 0 .. 10
  BY <1>1 DEF Stage, Variants
<1> QED
  BY <1>2, <1>3 DEF Budget, Variants

\* It falls with the pages to come, and with the stage.
LEMMA Falls ==
    ASSUME NEW p \in Nat, NEW s \in 0 .. 10, NEW q \in Nat, NEW t \in 0 .. 10,
           q = p - 1 \/ (q = p /\ t < s)
    PROVE  /\ 11 * q + t < 11 * p + s
           /\ 11 * q + t <= 11 * p + s
           /\ 0 <= 11 * q + t
<1>1. CASE q = p - 1
  <2>1. 11 * q = 11 * p - 11
    BY <1>1
  <2> QED
    BY <2>1
<1>2. CASE q = p /\ t < s
  BY <1>2
<1> QED
  BY <1>1, <1>2

\* The steps that leave the pages to come alone, by where they lead.
LEMMA StageFalls ==
    ASSUME Inv, Next, ~NextUrl
    PROVE  /\ PagesToCome' = PagesToCome \/ (\E href \in Href : Follow(href))
           /\ Step => Stage' < Stage
<1>1. Types /\ left \in 0 .. 3 /\ Variants = 3
  BY DEF Inv, Types, Variants
<1>2. CASE \E href \in Href : Follow(href)
  <2>1. PICK href \in Href : Follow(href)
    BY <1>2
  <2>2. pc = "links" /\ pc' = "links" /\ requests' = requests
    BY <2>1 DEF Follow, fetch
  <2>3. ~Step
    <3>1. ~(EndOfLinks \/ Ping \/ Finish)
      BY <2>2 DEF EndOfLinks, Ping, Finish
    <3>2. ~(GetPage \/ TryVariant \/ GetAgain \/ GetAfterWait)
      BY <2>2 DEF GetPage, TryVariant, GetAgain, GetAfterWait
    <3>3. ~(FetchFails \/ FetchEmpty \/ FetchPage)
      BY <2>2 DEF FetchFails, FetchEmpty, FetchPage, Fragile
    <3> QED
      BY <3>1, <3>2, <3>3 DEF Step
  <2> QED
    BY <1>2, <2>3
<1>3. CASE ~(\E href \in Href : Follow(href))
  <2>1. UNCHANGED <<kind, queue, seen>>
    BY <1>3, Waiting DEF frontier
  <2>2. PagesToCome' = PagesToCome
    BY <2>1 DEF PagesToCome
  <2>3. ASSUME Step PROVE Stage' < Stage
    <3>1. CASE GetPage
      <4>1. pc = "fetch" /\ (pc' \in {"wait", "body"} \/ (pc' = "ladder" /\ left' = 3))
        BY <1>1, <3>1 DEF GetPage, Settle
      <4> QED
        BY <1>1, <4>1 DEF Stage
    <3>2. CASE TryVariant
      <4>1. pc = "ladder" /\ pc' \in {"ladder", "body"} /\ left > 0 /\ left' = left - 1
        BY <3>2 DEF TryVariant
      <4> QED
        BY <1>1, <4>1 DEF Stage
    <3>3. CASE GetAgain \/ GetAfterWait
      <4>1. \/ pc = "ladder" /\ pc' \in {"wait", "body"}
            \/ pc = "wait" /\ pc' = "body"
        BY <3>3 DEF GetAgain, GetAfterWait, Settle
      <4> QED
        BY <1>1, <4>1 DEF Stage
    <3>4. CASE FetchFails \/ FetchEmpty \/ FetchPage
      <4>1. /\ pc \in {"fetch", "ladder", "wait", "body"}
            /\ pc' \in {"raised", "links", "ping"}
        BY <3>4 DEF FetchFails, FetchEmpty, FetchPage, Fragile
      <4> QED
        BY <1>1, <4>1 DEF Stage
    <3>5. CASE EndOfLinks \/ Ping \/ Finish
      <4>1. \/ pc = "links" /\ pc' = "ping"
            \/ pc = "ping" /\ pc' = "loop"
            \/ pc = "loop" /\ pc' \in {"raised", "done"}
        BY <3>5 DEF EndOfLinks, Ping, Finish
      <4> QED
        BY <4>1 DEF Stage
    <3> QED
      BY <2>3, <3>1, <3>2, <3>3, <3>4, <3>5 DEF Step
  <2> QED
    BY <2>2, <2>3
<1> QED
  BY <1>2, <1>3

\* No site keeps a handler busy for ever (executor.py:276-297, 512-539): after
\* at most 11 * max_pages + 1 of its own steps full_crawl has ended, whatever the
\* pages link to, and a list of n pages after 11 * n + 1.
THEOREM StepsRunOutHolds == SafeSpec => StepsRunOut
<1>a. Inv => PagesToCome \in Nat /\ Stage \in 0 .. 10 /\ Budget = 11 * PagesToCome + Stage
  BY BudgetIsNat
<1>b. Inv' => (PagesToCome \in Nat /\ Stage \in 0 .. 10 /\ Budget = 11 * PagesToCome + Stage)'
  BY <1>a, PTL
<1>1. Inv /\ Inv' /\ [Next]_vars =>
        [0 <= Budget' /\ Budget' <= Budget /\ (Step => Budget' < Budget)]_vars
  <2> SUFFICES ASSUME Inv, Inv', Next
               PROVE  0 <= Budget' /\ Budget' <= Budget /\ (Step => Budget' < Budget)
    BY DEF vars
  <2>1. PagesToCome \in Nat /\ Stage \in 0 .. 10 /\ Budget = 11 * PagesToCome + Stage
    BY BudgetIsNat
  <2>2. PagesToCome' \in Nat /\ Stage' \in 0 .. 10 /\ Budget' = 11 * PagesToCome' + Stage'
    BY <1>b
  <2>3. CASE NextUrl
    <3>1. /\ UNCHANGED kind /\ pc = "loop" /\ pc' = "fetch" /\ queue' = Tail(queue)
          /\ kind = "all" => Head(queue) \notin seen /\ seen' = seen \cup {Head(queue)}
      BY <2>3, NextIsNew DEF Inv, Frontier, NextUrl
    <3>2. Len(queue') = Len(queue) - 1
      BY <2>3, <3>1, TailOfList DEF NextUrl, MorePages, Inv, Types
    <3>3. kind = "all" => Cardinality(seen') = Cardinality(seen) + 1
      <4>1. IsFiniteSet(seen)
        BY DEF Inv, Types
      <4>2. kind = "all" => Cardinality(seen \cup {Head(queue)}) = Cardinality(seen) + 1
        BY <3>1, <4>1, FS_AddElement
      <4> QED
        BY <3>1, <4>2, Zenon
    <3>4. Len(queue) \in Nat /\ Cardinality(seen) \in Nat /\ MaxPages \in Nat
      BY EmptyList, FS_CardinalityType, CrawlConstants DEF Inv, Types
    <3>5. PagesToCome' = PagesToCome - 1
      BY <3>1, <3>2, <3>3, <3>4 DEF PagesToCome
    <3>6. Budget' < Budget /\ Budget' <= Budget /\ 0 <= Budget'
      BY <2>1, <2>2, <3>5, Falls
    <3> QED
      BY <3>6, Zenon
  <2>4. CASE \E href \in Href : Follow(href)
    <3>1. PICK href \in Href : Follow(href)
      BY <2>4
    <3>2. /\ UNCHANGED <<kind, pc, seen>> /\ pc = "links" /\ kind = "all"
      BY <3>1 DEF Follow, Inv, Types
    <3>3. PagesToCome' = PagesToCome /\ Stage = 3 /\ Stage' = 3
      BY <3>2 DEF PagesToCome, Stage
    <3>4. ~NextUrl
      BY <3>2 DEF NextUrl
    <3> QED
      BY <2>1, <2>2, <3>3, <3>4, StageFalls
  <2>5. CASE ~NextUrl /\ ~(\E href \in Href : Follow(href))
    <3>1. PagesToCome' = PagesToCome /\ (Step => Stage' < Stage)
      BY <2>5, StageFalls
    <3>2. CASE Step
      <4>1. PagesToCome' = PagesToCome /\ Stage' < Stage
        BY <3>1, <3>2, Zenon
      <4>2. Budget' < Budget /\ Budget' <= Budget /\ 0 <= Budget'
        BY <2>1, <2>2, <4>1, Falls
      <4> QED
        BY <4>2, Zenon
    <3>3. CASE ~Step
      <4>1. UNCHANGED vars
        BY <2>5, <3>3 DEF Next, Ended
      <4>2. Stage' = Stage
        BY <4>1 DEF vars, Stage
      <4> QED
        BY <2>1, <2>2, <3>1, <3>3, <4>2
    <3> QED
      BY <3>2, <3>3
  <2> QED
    BY <2>3, <2>4, <2>5
<1> QED
  BY Invariance, <1>1, PTL DEF SafeSpec, StepsRunOut

----------------------------------------------------------------------------
\* The URLs.

\* full_crawl works on normalized URLs only.
Addresses ==
    /\ queue \in Seq(Urls)
    /\ seen \subseteq Urls /\ discovered \subseteq Urls /\ linked \subseteq Urls
    /\ cur \in Urls \cup {None} /\ found_on \in Urls \cup {None}
    /\ kind = "all" =>
          /\ \A u \in seen \cup ToSet(queue) : Normal(u)
          /\ Busy => Normal(cur)
          /\ pc = "links" => found_on \in Urls /\ found_on.path # <<>>

LEMMA StartIsNormal == Normal(Start)
  BY CrawlConstants, NormalForm, Zenon DEF Start

LEMMA AddressesInit == Init => Addresses
<1> SUFFICES ASSUME Init PROVE Addresses
  OBVIOUS
<1>1. Start \in Urls /\ Seed \in Urls
  BY StartIsNormal, CrawlConstants DEF Normal
<1>2. queue \in Seq(Urls)
  <2>1. queue \in PageLists \/ queue = <<Seed>> \/ queue = <<Start>>
    BY DEF Init
  <2>2. \A x \in Urls : <<x>> \in Seq(Urls)
    OBVIOUS
  <2> QED
    BY <1>1, <2>1, <2>2, CrawlConstants, Zenon
<1>3. kind = "all" => ToSet(queue) = {Start}
  <2>1. ToSet(<<Start>>) = {Start}
    BY DEF ToSet
  <2> QED
    BY <2>1 DEF Init
<1>4. seen = {} /\ discovered \subseteq Urls /\ linked = {} /\ cur = None /\ pc = "loop"
      /\ found_on = None
  BY <1>1 DEF Init
<1> QED
  BY <1>2, <1>3, <1>4, StartIsNormal DEF Addresses, Busy

\* Wherever a page is found, it has a URL with a path.
LEMMA FinalIsUrl ==
    ASSUME NEW url \in Urls, url.path # <<>>, NEW final \in Finals(url)
    PROVE  final \in Urls /\ final.path # <<>>
<1>1. Home.scheme \in Text /\ Home.host \in Text
  BY CrawlConstants, LinkConstants
<1>2. CASE final = [url EXCEPT !.scheme = Home.scheme, !.host = Home.host]
  BY <1>1, <1>2 DEF Urls
<1>3. CASE final \in Landings
  BY <1>3, CrawlConstants
<1> QED
  BY <1>2, <1>3 DEF Finals

\* Every step keeps to them.
LEMMA AddressesInv ==
    ASSUME Types, Frontier, Addresses, [Next]_vars
    PROVE  Addresses'
<1>1. CASE NextUrl
  <2>1. /\ cur' = Head(queue) /\ queue' = Tail(queue) /\ pc' = "fetch"
        /\ kind = "all" => seen' = seen \cup {Head(queue)}
        /\ kind # "all" => seen' = seen
        /\ UNCHANGED <<kind, found_on, discovered, linked>>
        /\ queue # <<>>
    BY <1>1, NextIsNew DEF Frontier, NextUrl, MorePages
  <2>2. queue \in Seq(Urls) /\ Tail(queue) \in Seq(Urls) /\ Head(queue) \in Urls
    BY <2>1, HeadTailProperties DEF Addresses
  <2>3. ToSet(queue) = ToSet(Tail(queue)) \cup {Head(queue)}
    BY <2>1, TailOfList DEF Types
  <2> QED
    BY <2>1, <2>2, <2>3, Zenon DEF Addresses
<1>2. CASE \E href \in Href : Follow(href)
  <2>1. PICK href \in Href : Follow(href)
    BY <1>2
  <2>2. /\ kind = "all" /\ pc = "links"
        /\ UNCHANGED <<kind, pc, seen, cur, found_on>>
    BY <2>1 DEF Follow, Types
  <2> DEFINE link == LinkOf(found_on, href)
  <2>3. found_on \in Urls /\ found_on.path # <<>> /\ href \in Urls /\ href.path # <<>>
    BY <2>2, CrawlConstants, Zenon DEF Addresses
  <2>4. Normal(link)
    BY <2>3, LinksAreNormal
  <2>5. /\ linked' \subseteq linked \cup {link}
        /\ discovered' \subseteq discovered \cup {link}
        /\ queue' = queue \/ queue' = Append(queue, link)
    BY <2>1 DEF Follow, Queue
  <2> HIDE DEF link
  <2>6. link \in Urls
    BY <2>4, Zenon DEF Normal
  <2>7. queue' \in Seq(Urls) /\ ToSet(queue') \subseteq ToSet(queue) \cup {link}
    <3>1. queue \in Seq(Urls)
      BY Zenon DEF Addresses
    <3>2. Append(queue, link) \in Seq(Urls)
      BY <2>6, <3>1, AppendProperties
    <3>3. ToSet(Append(queue, link)) = ToSet(queue) \cup {link}
      BY AppendToList DEF Types
    <3> QED
      BY <2>5, <3>1, <3>2, <3>3, Zenon
  <2>8. /\ seen' \subseteq Urls /\ discovered' \subseteq Urls /\ linked' \subseteq Urls
        /\ cur' \in Urls \cup {None}
    BY <2>2, <2>5, <2>6 DEF Addresses
  <2>9. /\ \A u \in seen' \cup ToSet(queue') : Normal(u)
        /\ Busy' => Normal(cur')
    BY <2>2, <2>4, <2>7, Zenon DEF Addresses, Busy
  <2> QED
    BY <2>2, <2>3, <2>7, <2>8, <2>9, Zenon DEF Addresses
<1>3. CASE ~NextUrl /\ ~(\E href \in Href : Follow(href))
  <2>1. UNCHANGED <<kind, queue, seen, discovered, linked>>
    BY <1>3, Waiting DEF frontier
  <2>2. cur' = cur \/ (cur' = None /\ pc' = "loop")
    BY <1>3 DEF Next, Step, GetPage, TryVariant, GetAgain, GetAfterWait, Ask, FetchFails,
           FetchEmpty, FetchPage, EndOfLinks, Ping, Finish, Ended, vars
  <2>3. Busy' => Busy /\ cur' = cur
    BY <1>3, Waiting
  <2>4. /\ found_on' \in Urls \cup {None}
        /\ kind' = "all" /\ pc' = "links" => found_on' \in Urls /\ found_on'.path # <<>>
    <3>1. CASE FetchPage
      <4>1. CASE kind = "all"
        <5>1. cur \in Urls /\ cur.path # <<>> /\ found_on' \in Finals(cur)
          BY <3>1, <4>1, Zenon DEF FetchPage, Addresses, Busy, Normal
        <5> QED
          BY <5>1, FinalIsUrl
      <4>2. CASE kind # "all"
        BY <2>1, <3>1, <4>2 DEF FetchPage, Addresses
      <4> QED
        BY <4>1, <4>2
    <3>2. CASE EndOfLinks
      BY <3>2 DEF EndOfLinks
    <3>3. CASE ~FetchPage /\ ~EndOfLinks
      <4>1. found_on' = found_on /\ (pc' = "links" => pc = "links")
        BY <1>3, <3>3 DEF Next, Step, GetPage, TryVariant, GetAgain, GetAfterWait, Ask, Settle,
               FetchFails, FetchEmpty, Ping, Finish, Ended, vars
      <4> QED
        BY <2>1, <4>1, Zenon DEF Addresses
    <3> QED
      BY <3>1, <3>2, <3>3
  <2> QED
    BY <2>1, <2>2, <2>3, <2>4, Zenon DEF Addresses
<1> QED
  BY <1>1, <1>2, <1>3

\* A truth value stays one.
LEMMA GoodInv ==
    ASSUME good \in BOOLEAN, [Next]_vars
    PROVE  good' \in BOOLEAN
<1>1. ASSUME NEW how, Ask(how) PROVE good' \in BOOLEAN
  BY <1>1, Zenon DEF Ask
<1>2. CASE Fetched
  BY <1>2, Zenon DEF Fetched
<1>3. CASE UNCHANGED good
  BY <1>3, Zenon
<1>4. (\E how \in Answers : Ask(how)) \/ Fetched \/ UNCHANGED good
  <2>1. CASE NextUrl \/ (\E href \in Href : Follow(href)) \/ EndOfLinks \/ Ping \/ Finish
    BY <2>1 DEF NextUrl, Follow, EndOfLinks, Ping, Finish, fetch
  <2>2. CASE GetPage \/ TryVariant \/ GetAgain \/ GetAfterWait
    BY <2>2, Zenon DEF GetPage, TryVariant, GetAgain, GetAfterWait
  <2>3. CASE FetchFails \/ FetchEmpty \/ FetchPage
    BY <2>3, Zenon DEF FetchFails, FetchEmpty, FetchPage
  <2>4. CASE Ended \/ UNCHANGED vars
    BY <2>4 DEF Ended, vars
  <2> QED
    BY <2>1, <2>2, <2>3, <2>4, Zenon DEF Next, Step
<1> QED
  BY <1>1, <1>2, <1>3, <1>4, Zenon

\* The queue, seen and discovered hold normalized URLs, whatever the markup is
\* (executor.py:140-150, 382-410, 512-534).
THEOREM AddressesHold == SafeSpec => [](Addresses /\ good \in BOOLEAN)
<1>1. Init => Addresses /\ good \in BOOLEAN
  <2>1. Init => good \in BOOLEAN
    BY Zenon DEF Init
  <2> QED
    BY <2>1, AddressesInit
<1>2. Inv /\ Addresses /\ good \in BOOLEAN /\ [Next]_vars => (Addresses /\ good \in BOOLEAN)'
  <2> SUFFICES ASSUME Inv, Addresses, good \in BOOLEAN, [Next]_vars
               PROVE  Addresses' /\ good' \in BOOLEAN
    OBVIOUS
  <2>1. Types /\ Frontier
    BY DEF Inv
  <2> QED
    BY <2>1, AddressesInv, GoodInv, Zenon
<1> QED
  BY Invariance, <1>1, <1>2, PTL DEF SafeSpec

\* Type correctness, for every site (executor.py:183-543).
THEOREM TypeCorrect == SafeSpec => []TypeOK
<1>1. Inv /\ Addresses /\ good \in BOOLEAN => TypeOK
  BY Zenon DEF Inv, Types, Addresses, TypeOK
<1> QED
  BY Invariance, AddressesHold, <1>1, PTL

\* full_crawl fetches no page under two spellings of one scheme, whatever the
\* site's markup calls it (executor.py:140-150, 382-410).
THEOREM OneSpellingHolds == SafeSpec => []OneSpelling
<1>1. Addresses => OneSpelling
  <2> SUFFICES ASSUME Addresses, kind = "all", NEW u \in seen \cup ToSet(queue),
                      NEW v \in seen \cup ToSet(queue), SamePage(u, v)
               PROVE  u = v
    BY Zenon DEF OneSpelling
  <2>1. Normal(u) /\ Normal(v)
    BY Zenon DEF Addresses
  <2> QED
    BY <2>1, NormalIsUnique
<1> QED
  BY <1>1, AddressesHold, PTL
=============================================================================
