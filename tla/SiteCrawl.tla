------------------------------ MODULE SiteCrawl ------------------------------
(***************************************************************************)
(* The handlers of crawlfast_external_worker/executor.py: lite_fetch for   *)
(* one page, crawl_pages for a list of pages, full_crawl for a site, with  *)
(* the worker's on_page and on_progress callbacks (worker.py:75-99) and    *)
(* the numbers both sides keep.                                            *)
(*                                                                         *)
(* The site is what the requests find: each is answered well, badly, with  *)
(* a rate limit, or not at all, and a page is no HTML, or HTML with any    *)
(* hrefs in any order, chosen as the crawl goes.  Which of them are links  *)
(* of the site is module Links.                                            *)
(***************************************************************************)
EXTENDS Links, FiniteSets, Sequences

CONSTANTS
    Href,       \* what pages can have in their markup
    Seed,       \* the task's url
    Home,       \* scheme and host under which the site answers, whatever was asked
    Landings,   \* other places to which it redirects some of its pages
    PageLists,  \* the lists of pages a crawl_pages task can have
    MaxPages,   \* the task's max_pages
    None        \* no page

ASSUME CrawlConstants ==
    /\ Seed \in Urls /\ Seed.scheme \in Web /\ Seed.path # <<>>
    /\ Href \subseteq Urls /\ (\A href \in Href : href.path # <<>>)
    /\ Home \in [scheme : Web, host : Text]
    /\ Landings \subseteq Urls /\ (\A url \in Landings : url.path # <<>>)
    /\ PageLists \subseteq Seq(Urls)
    /\ MaxPages \in Nat \ {0}
    /\ None \notin Urls

\* full_crawl's start, and the host that links must be of.
Start == NormalizeUrl(Seed)
Host == Seed.host

VARIABLES
    kind,       \* the handler
    pc,
    queue,      \* the pages still to fetch
    seen,       \* full_crawl's seen
    discovered, \* full_crawl's discovered
    cur,        \* the page being fetched
    found_on,   \* its final_url, while its links are gone through
    pages,      \* len(pages): entries in the result's list
    errors,     \* the handler's errors
    saved,      \* the handler's saved
    stats,      \* the worker's counts by outcome
    sent,       \* the last progress ping: done and total
    linked,     \* history: pages of the site that fetched pages link to
    silent,     \* history: pages no count of the worker includes
    left,       \* _fetch: spellings of the page's URL still to be tried
    answer,     \* _fetch: the answer it goes by
    requests,   \* history: requests made for the page
    good        \* history: one of them was answered with a status below 400

vars == <<kind, pc, queue, seen, discovered, cur, found_on, pages, errors, saved, stats, sent,
          linked, silent, left, answer, requests, good>>

counts == <<pages, errors, saved, stats, silent>>
frontier == <<queue, seen, discovered, linked>>
fetch == <<left, answer, requests, good>>

Kinds == {"single", "pages", "all"}
Counted == {"saved", "rejected", "spooled"}

\* A status below 400, 429 or 503, any other.
Answers == {"good", "busy", "bad"}

\* _url_variants: both schemes, with and without www, less the URL itself.
Variants == 3

TypeOK ==
    /\ kind \in Kinds
    /\ pc \in {"loop", "fetch", "ladder", "wait", "body", "links", "ping", "done", "raised"}
    /\ queue \in Seq(Urls)
    /\ seen \subseteq Urls
    /\ discovered \subseteq Urls
    /\ cur \in Urls \cup {None}
    /\ found_on \in Urls \cup {None}
    /\ pages \in Nat
    /\ errors \in Nat
    /\ saved \in Nat
    /\ stats \in [Counted -> Nat]
    /\ sent \in [done : Nat, total : Nat]
    /\ linked \subseteq Urls
    /\ silent \in Nat
    /\ left \in 0 .. Variants
    /\ answer \in Answers \cup {"none"}
    /\ requests \in Nat
    /\ good \in BOOLEAN

Init ==
    /\ \/ kind = "single" /\ queue = <<Seed>>
       \/ kind = "pages" /\ queue \in PageLists
       \/ kind = "all" /\ queue = <<Start>>
    /\ pc = "loop"
    /\ seen = {}
    /\ discovered = IF kind = "all" THEN {Start} ELSE {}
    /\ cur = None
    /\ found_on = None
    /\ pages = 0
    /\ errors = 0
    /\ saved = 0
    /\ stats = [o \in Counted |-> 0]
    /\ sent = [done |-> 0, total |-> 0]
    /\ linked = {}
    /\ silent = 0
    /\ left = 0
    /\ answer = "none"
    /\ requests = 0
    /\ good = FALSE

----------------------------------------------------------------------------
\* The loop.

MorePages == queue # <<>> /\ (kind = "all" => pages < MaxPages)

\* The next page; full_crawl skips one it has seen.
NextUrl ==
    /\ pc = "loop"
    /\ MorePages
    /\ queue' = Tail(queue)
    /\ IF kind = "all" /\ Head(queue) \in seen
       THEN UNCHANGED <<pc, seen, cur>>
       ELSE /\ cur' = Head(queue)
            /\ seen' = IF kind = "all" THEN seen \cup {Head(queue)} ELSE seen
            /\ pc' = "fetch"
    /\ UNCHANGED <<kind, found_on, discovered, linked, counts, sent, fetch>>

----------------------------------------------------------------------------
\* _fetch.

\* Slip: every page of a crawl gets the fallback ladder.
TryAlways == TRUE

\* try_variants: the first page of full_crawl, and every page elsewhere.
TryVariants == kind = "all" => pages = 0

\* A request that is answered.
Ask(how) ==
    /\ requests' = requests + 1
    /\ answer' = how
    /\ good' = (good \/ how = "good")
    /\ UNCHANGED <<kind, frontier, cur, found_on, counts, sent>>

\* The answer is final unless it is a rate limit, which is waited for once.
Settle(how) == pc' = IF how = "busy" THEN "wait" ELSE "body"

GetPage ==
    /\ pc = "fetch"
    /\ \E how \in Answers :
        /\ Ask(how)
        /\ IF how # "good" /\ TryVariants
           THEN pc' = "ladder" /\ left' = Variants
           ELSE Settle(how) /\ UNCHANGED left

\* Slip: the ladder is not left at the first spelling that answers.
TryVariantsToTheEnd ==
    /\ pc = "ladder"
    /\ left > 0
    /\ left' = left - 1
    /\ UNCHANGED pc
    /\ \E how \in Answers : Ask(how)

\* The next spelling; the first that answers is kept, and one that cannot be
\* reached is passed over.
TryVariant ==
    /\ pc = "ladder"
    /\ left > 0
    /\ left' = left - 1
    /\ \/ \E how \in Answers :
            Ask(how) /\ pc' = IF how = "good" THEN "body" ELSE "ladder"
       \/ /\ requests' = requests + 1
          /\ UNCHANGED <<kind, pc, frontier, cur, found_on, counts, sent, answer, good>>

\* None does: the original URL is fetched again, for its own answer.
GetAgain ==
    /\ pc = "ladder"
    /\ left = 0
    /\ \E how \in Answers : Ask(how) /\ Settle(how)
    /\ UNCHANGED left

\* After the (capped) Retry-After there is one more request, whatever its
\* answer.
GetAfterWait ==
    /\ pc = "wait"
    /\ pc' = "body"
    /\ \E how \in Answers : Ask(how)
    /\ UNCHANGED left

\* A request for the page's own URL, or the reading of the body, raises.
Fragile == pc \in {"fetch", "wait", "body"} \/ (pc = "ladder" /\ left = 0)

\* _fetch is left; its variables are local.
Fetched ==
    /\ left' = 0
    /\ answer' = "none"
    /\ requests' = 0
    /\ good' = FALSE

\* Slip: a page that fails is put back to be tried again later.
FetchRetried ==
    /\ Fragile
    /\ Fetched
    /\ pc' = "loop"
    /\ queue' = Append(queue, cur)
    /\ UNCHANGED <<kind, seen, discovered, linked, cur, found_on, counts, sent>>

\* crawl_pages and full_crawl note the error and go on, lite_fetch raises.
FetchFails ==
    /\ Fragile
    /\ Fetched
    /\ IF kind = "single"
       THEN pc' = "raised" /\ UNCHANGED counts
       ELSE /\ pc' = "ping"
            /\ errors' = errors + 1
            /\ pages' = pages + 1
            /\ UNCHANGED <<saved, stats, silent>>
    /\ UNCHANGED <<kind, frontier, cur, found_on, sent>>

\* Not HTML: there is no body, _persist does not call on_page, no links.
FetchEmpty ==
    /\ pc = "body"
    /\ Fetched
    /\ pc' = "ping"
    /\ pages' = pages + 1
    /\ silent' = silent + 1
    /\ UNCHANGED <<kind, frontier, cur, found_on, errors, saved, stats, sent>>

\* Slips: the handler counts a page as saved whatever on_page says; it
\* takes a page back that on_page does not say was saved.
PersistTakesBack(outcome, logged) ==
    /\ stats' = [stats EXCEPT ![outcome] = @ + 1]
    /\ saved' = IF outcome = "saved" /\ logged THEN saved + 1 ELSE saved - 1
    /\ UNCHANGED silent
PersistBlindly(outcome, logged) ==
    /\ stats' = [stats EXCEPT ![outcome] = @ + 1]
    /\ saved' = saved + 1
    /\ UNCHANGED silent

\* on_page submits the page, counts the outcome and logs it; when the log
\* line cannot be written, _persist swallows the error and says not saved.
Persist(outcome, logged) ==
    /\ stats' = [stats EXCEPT ![outcome] = @ + 1]
    /\ saved' = IF outcome = "saved" /\ logged THEN saved + 1 ELSE saved
    /\ UNCHANGED silent

\* on_page raises before it counts: the spool could not be written.
PersistFails ==
    /\ silent' = silent + 1
    /\ UNCHANGED <<stats, saved>>

\* The final_url of a page: its own path, under the site's scheme and host, or
\* where a redirect ends.
Finals(url) == {[url EXCEPT !.scheme = Home.scheme, !.host = Home.host]} \cup Landings

FetchPage ==
    /\ pc = "body"
    /\ Fetched
    /\ IF kind = "all"
       THEN pc' = "links" /\ found_on' \in Finals(cur)
       ELSE pc' = "ping" /\ UNCHANGED found_on
    /\ pages' = pages + 1
    /\ \/ \E outcome \in Counted, logged \in BOOLEAN : Persist(outcome, logged)
       \/ PersistFails
    /\ UNCHANGED <<kind, frontier, cur, errors, sent>>

\* Slip: a link is queued each time it is met.
QueueEach(link) ==
    /\ discovered' = discovered \cup {link}
    /\ queue' = IF link \in seen THEN queue ELSE Append(queue, link)

\* Slip: only links to pages not yet discovered are queued, and the test is
\* made after the link is.
QueueLate(link) ==
    /\ discovered' = discovered \cup {link}
    /\ queue' = IF link \in discovered' THEN queue ELSE Append(queue, link)

Queue(link) ==
    /\ discovered' = discovered \cup {link}
    /\ queue' = IF link \in seen \/ link \in ToSet(queue)
                THEN queue ELSE Append(queue, link)

\* One href of the page's markup.
Follow(href) ==
    /\ pc = "links"
    /\ Matched(href)
    /\ LET link == LinkOf(found_on, href)
       IN  /\ linked' = IF IsPage(link) /\ link.host \in {Host, Home.host}
                        THEN linked \cup {link} ELSE linked
           /\ IF Followed(link, Host) THEN Queue(link) ELSE UNCHANGED <<discovered, queue>>
    /\ UNCHANGED <<kind, pc, seen, cur, found_on, counts, sent, fetch>>

EndOfLinks ==
    /\ pc = "links"
    /\ pc' = "ping"
    /\ found_on' = None
    /\ UNCHANGED <<kind, frontier, cur, counts, sent, fetch>>

----------------------------------------------------------------------------
\* Progress.

\* Slip: the total is what is still queued.
TotalQueued == IF kind = "single" THEN 1 ELSE Len(queue)

Total ==
    CASE kind = "single" -> 1
      [] kind = "pages" -> pages + Len(queue)
      [] kind = "all" ->
            LET known == Cardinality(seen) + Len(queue)
            IN  IF known < MaxPages THEN known ELSE MaxPages

\* Slip: the last ping is throttled too.
PingDue(done, total) == {FALSE, TRUE}

\* on_progress: nothing for one page; at most one ping a second, but the one
\* that says all is done goes out.
Sends(done, total) ==
    CASE total <= 1 -> {FALSE}
      [] total > 1 /\ done = total -> {TRUE}
      [] OTHER -> {FALSE, TRUE}

Ping ==
    /\ pc = "ping"
    /\ pc' = "loop"
    /\ cur' = None
    /\ \E due \in Sends(pages, Total) :
           sent' = IF due THEN [done |-> pages, total |-> Total] ELSE sent
    /\ UNCHANGED <<kind, frontier, found_on, counts, fetch>>

\* The handler returns its result; an empty list of pages is an error.
Finish ==
    /\ pc = "loop"
    /\ ~MorePages
    /\ pc' = IF pages = 0 THEN "raised" ELSE "done"
    /\ UNCHANGED <<kind, frontier, cur, found_on, counts, sent, fetch>>

Ended == pc \in {"done", "raised"} /\ UNCHANGED vars

Step == \/ NextUrl
        \/ GetPage \/ TryVariant \/ GetAgain \/ GetAfterWait
        \/ FetchFails \/ FetchEmpty \/ FetchPage
        \/ EndOfLinks \/ Ping \/ Finish

Next == Step \/ (\E href \in Href : Follow(href)) \/ Ended

SafeSpec == Init /\ [][Next]_vars

\* Fetches return, and a page has an end (its body is cut at 3 MB), so its
\* links do too.
Spec == SafeSpec /\ WF_vars(Step)

----------------------------------------------------------------------------
\* Properties.

\* full_crawl fetches no page twice and forgets none: what is queued is new
\* and queued once, and every link it kept is fetched or queued
\* (executor.py:512-534).
EachOnce ==
    kind = "all" =>
        /\ IsInjective(queue)
        /\ ToSet(queue) \cap seen = {}
        /\ discovered = seen \cup ToSet(queue)

\* Nor does it fetch a page under two spellings of one scheme: what
\* _normalize_url leaves apart are different pages to the site
\* (executor.py:140-150, 382-410).
OneSpelling ==
    kind = "all" => \A u, v \in seen \cup ToSet(queue) : SamePage(u, v) => u = v

\* Between two pages every page of the list is in exactly one of the
\* worker's counts, an error, or a page nobody counts; and the pages_saved
\* the handler reports are never more than the server said it saved.
CountsAddUp ==
    pc \in {"loop", "done"} =>
        /\ pages = errors + stats["saved"] + stats["rejected"] + stats["spooled"] + silent
        /\ kind = "all" => pages = Cardinality(seen) /\ pages <= MaxPages
        /\ saved <= stats["saved"]

\* What one page costs the site: with the fallback ladder and the wait after
\* a rate limit at most six requests, and at most two for a page of
\* full_crawl other than the seed, which gets no ladder (executor.py:520-522).
RequestsBounded ==
    /\ requests <= Variants + 3
    /\ requests > 2 /\ kind = "all" => cur = Start

\* The first good answer is the one that counts, under whatever spelling it
\* came: a page that ends in a bad status never had a good one, and a healthy
\* site costs one request (executor.py:276-277).
FirstGoodAnswerKept ==
    /\ pc \in {"fetch", "ladder", "wait"} => ~good
    /\ pc = "body" => (answer = "good" <=> good)

\* A crawl that stops short of max_pages has fetched every page of the site
\* that the pages it fetched link to by an href without a "#", under the URL
\* that _normalize_url gives it ("crawl every same-host page",
\* executor.py:40, 491-492).
WholeSite == kind = "all" /\ pc = "done" /\ pages < MaxPages => linked \subseteq seen

\* The monitor sees progress that only goes forward, and never more done
\* than there is to do.
ProgressForward ==
    [][sent' # sent => /\ sent'.done > sent.done
                       /\ sent'.total >= sent.total
                       /\ sent'.done <= sent'.total]_vars

\* The last ping of a task of several pages says that all of them are done.
LastPing == pc = "done" /\ pages > 1 => sent = [done |-> pages, total |-> pages]

\* How many steps a handler has left at most: its pages to come, and how far it
\* is with the one at hand.
Stage ==
    CASE pc = "fetch" -> Variants + 7
      [] pc = "ladder" -> left + 6
      [] pc = "wait" -> 5
      [] pc = "body" -> 4
      [] pc = "links" -> 3
      [] pc = "ping" -> 2
      [] pc = "loop" -> 1
      [] OTHER -> 0

PagesToCome == IF kind = "all" THEN MaxPages - Cardinality(seen) ELSE Len(queue)

Budget == (Variants + 8) * PagesToCome + Stage

\* No site keeps a handler busy for ever: each step it takes brings it nearer to
\* its end, whatever is found, fails or is queued on the way
\* (executor.py:276-297, 512-539).
StepsRunOut == [][0 <= Budget' /\ Budget' <= Budget /\ (Step => Budget' < Budget)]_vars

\* Every handler ends, on any site.
Terminates == <>(pc \in {"done", "raised"})
=============================================================================
