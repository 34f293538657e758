----------------------------- MODULE PageSpool -----------------------------
(***************************************************************************)
(* The page path of a node: crawlfast_external_worker/page_spool.py and    *)
(* the calls the worker makes on it (process_one's on_page, main's flush), *)
(* for several worker processes that share one spool directory, as the     *)
(* replicas of docker-compose.yml and the workers of                       *)
(* docker-compose.multi.yml do.                                            *)
(*                                                                         *)
(* A Task here is one claim of a task: once the server has taken it away   *)
(* (deleted, or reassigned to someone else) it does not come back.         *)
(***************************************************************************)
EXTENDS Naturals, FiniteSets, FiniteSetsExt

CONSTANTS
    Worker,         \* worker processes sharing the spool directory
    Key,            \* worker API keys: an identity at the server
    KeyOf,          \* the key each worker is configured with
    Task,           \* claims
    Page,           \* pages
    TaskOf,         \* the claim each page is crawled for
    Keepable,       \* pages whose content the server persists
    Retries,        \* submit_with_retry's retries, 3 in the code
    MaxFiles,       \* flush's max_files, 100 in the code
    TransportTexts, \* error texts of a POST that got no verdict
    RefusalTexts,   \* error texts of a POST for a task that is not the key's
    MaxCrashes,     \* bound: how often a worker process dies
    None            \* no task, no page

\* The substrings flush looks for. An error text is modelled by the set of
\* those that occur in it.
DropMarkers == {"not assigned", "not found", "404"}

ASSUME ConstantsType ==
    /\ KeyOf \in [Worker -> Key]
    /\ TaskOf \in [Page -> Task]
    /\ Keepable \subseteq Page
    /\ Retries \in Nat \ {0}
    /\ MaxFiles \in Nat \ {0}
    /\ TransportTexts \subseteq SUBSET DropMarkers
    /\ RefusalTexts \subseteq SUBSET DropMarkers
    /\ MaxCrashes \in Nat
    /\ None \notin Task \cup Page

\* The two states of a claim at the server that are not a key.
Free == "free"
Lost == "lost"

ASSUME KeyNames == Free \notin Key /\ Lost \notin Key

VARIABLES
    pc,         \* what each worker is doing
    task,       \* the claim it works on
    cur,        \* the page it submits or re-posts
    attempt,    \* submit_with_retry's attempt
    files,      \* flush's listing, less what it has been through
    spool,      \* pages with a file in the spool directory
    outcome,    \* what became of each page in the worker that crawled it
    owner,      \* server: the key a claim is assigned to
    stored,     \* server: pages persisted
    refused,    \* server: pages received and not persisted
    dropped,    \* history: pages whose file flush gave up on
    unread,     \* history: pages whose file flush could not read and removed
    crashes

vars == <<pc, task, cur, attempt, files, spool, outcome, owner, stored,
          refused, dropped, unread, crashes>>

server == <<owner, stored, refused>>
history == <<dropped, unread, crashes>>

Outcomes == {"new", "held", "saved", "rejected", "spooled", "unspooled", "abandoned"}
Steps == {"idle", "crawl", "submit", "shelve", "flush", "post", "landed", "barred"}

TypeOK ==
    /\ pc \in [Worker -> Steps]
    /\ task \in [Worker -> Task \cup {None}]
    /\ cur \in [Worker -> Page \cup {None}]
    /\ attempt \in [Worker -> 0 .. Retries - 1]
    /\ files \in [Worker -> SUBSET Page]
    /\ spool \subseteq Page
    /\ outcome \in [Page -> Outcomes]
    /\ owner \in [Task -> Key \cup {Free, Lost}]
    /\ stored \subseteq Page
    /\ refused \subseteq Page
    /\ dropped \subseteq Page
    /\ unread \subseteq Page
    /\ crashes \in 0 .. MaxCrashes

Init ==
    /\ pc = [w \in Worker |-> "idle"]
    /\ task = [w \in Worker |-> None]
    /\ cur = [w \in Worker |-> None]
    /\ attempt = [w \in Worker |-> 0]
    /\ files = [w \in Worker |-> {}]
    /\ spool = {}
    /\ outcome = [p \in Page |-> "new"]
    /\ owner = [t \in Task |-> Free]
    /\ stored = {}
    /\ refused = {}
    /\ dropped = {}
    /\ unread = {}
    /\ crashes = 0

Goto(w, step) == pc' = [pc EXCEPT ![w] = step]

----------------------------------------------------------------------------
\* The server, as the code in src/ sees it.

\* It accepts a page only from the key its claim is assigned to.
Assigned(w, p) == owner[TaskOf[p]] = KeyOf[w]

\* It takes a page in: persists it, or answers that it will not.
Receive(p) ==
    /\ stored' = IF p \in Keepable THEN stored \cup {p} ELSE stored
    /\ refused' = IF p \in Keepable THEN refused ELSE refused \cup {p}
    /\ UNCHANGED owner

\* A request that brings no verdict back may have been received all the same.
MaybeReceive(w, p) ==
    \/ UNCHANGED server
    \/ Assigned(w, p) /\ Receive(p)

\* The POST times out, is cut off, or meets a server or proxy in trouble.
NoVerdict(w, p, text) == text \in TransportTexts /\ MaybeReceive(w, p)

\* The server says that the claim is not this worker's.
Disowned(w, p, text) == text \in RefusalTexts /\ ~Assigned(w, p) /\ UNCHANGED server

\* A claim is deleted or reassigned.
LoseTask(t) ==
    /\ owner[t] \in Key
    /\ owner' = [owner EXCEPT ![t] = Lost]
    /\ UNCHANGED <<pc, task, cur, attempt, files, spool, outcome, stored, refused, history>>

----------------------------------------------------------------------------
\* Crawling: process_one and submit_with_retry.

Claim(w, t) ==
    /\ pc[w] = "idle"
    /\ owner[t] = Free
    /\ owner' = [owner EXCEPT ![t] = KeyOf[w]]
    /\ task' = [task EXCEPT ![w] = t]
    /\ Goto(w, "crawl")
    /\ UNCHANGED <<cur, attempt, files, spool, outcome, stored, refused, history>>

\* The handler has fetched a page and calls on_page.
Hand(w, p) ==
    /\ pc[w] = "crawl"
    /\ TaskOf[p] = task[w]
    /\ outcome[p] = "new"
    /\ outcome' = [outcome EXCEPT ![p] = "held"]
    /\ cur' = [cur EXCEPT ![w] = p]
    /\ attempt' = [attempt EXCEPT ![w] = 0]
    /\ Goto(w, "submit")
    /\ UNCHANGED <<task, files, spool, server, history>>

\* on_page returns and the crawl goes on.
PageDone(w, how) ==
    /\ outcome' = [outcome EXCEPT ![cur[w]] = how]
    /\ cur' = [cur EXCEPT ![w] = None]
    /\ attempt' = [attempt EXCEPT ![w] = 0]
    /\ Goto(w, "crawl")
    /\ UNCHANGED <<task, files, history>>

\* Slip: any HTTP 200 counts as saved, as it once did (page_spool.py:55-56).
SavedIfAnswered(p) == "saved"

\* The server's verdict on a page of the crawl.
Verdict(p) == IF p \in Keepable THEN "saved" ELSE "rejected"

SubmitAnswered(w) ==
    /\ pc[w] = "submit"
    /\ Assigned(w, cur[w])
    /\ Receive(cur[w])
    /\ PageDone(w, Verdict(cur[w]))
    /\ UNCHANGED spool

\* Slip: the last attempt is not recognised.
SubmitNeverEnds(w) ==
    /\ pc[w] = "submit"
    /\ \E text \in TransportTexts \cup RefusalTexts :
           NoVerdict(w, cur[w], text) \/ Disowned(w, cur[w], text)
    /\ IF attempt[w] = Retries
       THEN Goto(w, "shelve") /\ UNCHANGED attempt
       ELSE attempt' = [attempt EXCEPT ![w] = @ + 1] /\ UNCHANGED pc
    /\ UNCHANGED <<task, cur, files, spool, outcome, history>>

\* Any exception is taken for transient here, a refusal too; the last one
\* sends the page to the spool.
SubmitFails(w) ==
    /\ pc[w] = "submit"
    /\ \E text \in TransportTexts \cup RefusalTexts :
           NoVerdict(w, cur[w], text) \/ Disowned(w, cur[w], text)
    /\ IF attempt[w] = Retries - 1
       THEN Goto(w, "shelve") /\ UNCHANGED attempt
       ELSE attempt' = [attempt EXCEPT ![w] = @ + 1] /\ UNCHANGED pc
    /\ UNCHANGED <<task, cur, files, spool, outcome, history>>

\* _spool: the temporary file is written and renamed into the queue.
Shelve(w) ==
    /\ pc[w] = "shelve"
    /\ spool' = spool \cup {cur[w]}
    /\ PageDone(w, "spooled")
    /\ UNCHANGED server

\* _spool raises (disk full): _persist swallows it and the crawl goes on.
ShelveFails(w) ==
    /\ pc[w] = "shelve"
    /\ PageDone(w, "unspooled")
    /\ UNCHANGED <<spool, server>>

\* The handler returns, having fetched all the pages of the claim or not.
EndTask(w) ==
    /\ pc[w] = "crawl"
    /\ task' = [task EXCEPT ![w] = None]
    /\ Goto(w, "idle")
    /\ UNCHANGED <<cur, attempt, files, spool, outcome, server, history>>

----------------------------------------------------------------------------
\* Flushing.

\* pending()[:max_files]: os.listdir promises no order, so any MaxFiles of
\* the files can come first.
FlushStart(w) ==
    /\ pc[w] = "idle"
    /\ \E batch \in kSubset(IF Cardinality(spool) < MaxFiles
                            THEN Cardinality(spool) ELSE MaxFiles, spool) :
           files' = [files EXCEPT ![w] = batch]
    /\ Goto(w, "flush")
    /\ UNCHANGED <<task, cur, attempt, spool, outcome, server, history>>

\* The next file of the listing is read, if another worker has not removed
\* it meanwhile.
FlushOpen(w, p) ==
    /\ pc[w] = "flush"
    /\ p \in files[w]
    /\ files' = [files EXCEPT ![w] = @ \ {p}]
    /\ IF p \in spool
       THEN cur' = [cur EXCEPT ![w] = p] /\ Goto(w, "post")
       ELSE UNCHANGED <<cur, pc>>
    /\ UNCHANGED <<task, attempt, spool, outcome, server, history>>

\* Reading it fails: whatever the error, the file is taken for corrupt and
\* removed, and not counted as dropped.
FlushUnreadable(w, p) ==
    /\ pc[w] = "flush"
    /\ p \in files[w] \cap spool
    /\ files' = [files EXCEPT ![w] = @ \ {p}]
    /\ spool' = spool \ {p}
    /\ unread' = unread \cup {p}
    /\ UNCHANGED <<pc, task, cur, attempt, outcome, server, dropped, crashes>>

\* The server answers: the body is not looked at, saved or not.
PostAnswered(w, p) ==
    /\ pc[w] = "post"
    /\ cur[w] = p
    /\ Assigned(w, p)
    /\ Receive(p)
    /\ Goto(w, "landed")
    /\ UNCHANGED <<task, cur, attempt, files, spool, outcome, history>>

\* Slips: a failed POST removes the file as a good one does; every error is
\* taken for a refusal; a refusal is taken for a transient error.
RemoveAnyway(w, text) ==
    /\ Goto(w, "landed")
    /\ UNCHANGED <<task, cur, attempt, files, spool, outcome, history>>
GiveUpAlways(w, text) ==
    /\ Goto(w, "barred")
    /\ UNCHANGED <<task, cur, attempt, files, spool, outcome, history>>
KeepAlways(w, text) ==
    /\ Goto(w, "flush")
    /\ cur' = [cur EXCEPT ![w] = None]
    /\ UNCHANGED <<task, attempt, files, spool, outcome, history>>

\* The POST raises: the file is given up if the text has one of the markers,
\* and kept for the next flush if not.
GiveUpOrKeep(w, text) ==
    /\ IF text \cap DropMarkers # {}
       THEN Goto(w, "barred") /\ UNCHANGED cur
       ELSE Goto(w, "flush") /\ cur' = [cur EXCEPT ![w] = None]
    /\ UNCHANGED <<task, attempt, files, spool, outcome, history>>

PostDisowned(w, p) ==
    /\ pc[w] = "post"
    /\ cur[w] = p
    /\ \E text \in RefusalTexts : Disowned(w, p, text) /\ GiveUpOrKeep(w, text)

PostFails(w) ==
    /\ pc[w] = "post"
    /\ \E text \in TransportTexts : NoVerdict(w, cur[w], text) /\ GiveUpOrKeep(w, text)

\* _safe_remove of the file just posted or given up; it may be gone already.
RemoveFile(w) ==
    /\ spool' = spool \ {cur[w]}
    /\ cur' = [cur EXCEPT ![w] = None]
    /\ Goto(w, "flush")
    /\ UNCHANGED <<task, attempt, files, outcome, server, unread, crashes>>

FlushRecovered(w) ==
    /\ pc[w] = "landed"
    /\ RemoveFile(w)
    /\ UNCHANGED dropped

FlushDropped(w) ==
    /\ pc[w] = "barred"
    /\ dropped' = dropped \cup ({cur[w]} \cap spool)
    /\ RemoveFile(w)

FlushEnd(w) ==
    /\ pc[w] = "flush"
    /\ files[w] = {}
    /\ Goto(w, "idle")
    /\ UNCHANGED <<task, cur, attempt, files, spool, outcome, server, history>>

----------------------------------------------------------------------------
\* A worker process dies (power cut, kill, the watchdog's exit) and is
\* started again; what it had in memory is gone.
Crash(w) ==
    /\ pc[w] # "idle"
    /\ crashes < MaxCrashes
    /\ crashes' = crashes + 1
    /\ outcome' = [p \in Page |->
           IF pc[w] \in {"submit", "shelve"} /\ p = cur[w] THEN "abandoned" ELSE outcome[p]]
    /\ task' = [task EXCEPT ![w] = None]
    /\ cur' = [cur EXCEPT ![w] = None]
    /\ attempt' = [attempt EXCEPT ![w] = 0]
    /\ files' = [files EXCEPT ![w] = {}]
    /\ Goto(w, "idle")
    /\ UNCHANGED <<spool, server, dropped, unread>>

CrawlStep(w) ==
    \/ \E p \in Page : Hand(w, p)
    \/ SubmitAnswered(w)
    \/ SubmitFails(w)
    \/ Shelve(w)
    \/ ShelveFails(w)
    \/ EndTask(w)

FlushStep(w) ==
    \/ \E p \in Page : FlushOpen(w, p) \/ FlushUnreadable(w, p)
    \/ \E p \in Page : PostAnswered(w, p) \/ PostDisowned(w, p)
    \/ PostFails(w)
    \/ FlushRecovered(w)
    \/ FlushDropped(w)
    \/ FlushEnd(w)

Next ==
    \/ \E w \in Worker :
        \/ \E t \in Task : Claim(w, t)
        \/ CrawlStep(w)
        \/ FlushStart(w)
        \/ FlushStep(w)
        \/ Crash(w)
    \/ \E t \in Task : LoseTask(t)

SafeSpec == Init /\ [][Next]_vars

\* A process that runs goes on running; main's loop comes back to flush at
\* every heartbeat interval; the server does not fail the same page for ever.
Fairness ==
    \A w \in Worker :
        /\ WF_vars(CrawlStep(w) \/ FlushStep(w))
        /\ SF_vars(FlushStart(w))
        /\ \A p \in Page : SF_vars(PostAnswered(w, p) \/ PostDisowned(w, p))

Spec == SafeSpec /\ Fairness

----------------------------------------------------------------------------
\* Properties.

\* Custody: a page reported as spooled (worker.py's "spooled" outcome: "the
\* page is never lost") is on disk until the server has decided about it or
\* flush has given it up, whatever workers flush or crash at the same time.
Custody ==
    \A p \in Page : outcome[p] = "spooled" =>
        p \in spool \cup stored \cup refused \cup dropped \cup unread

\* The outcome submit_with_retry returns is the server's: a page counted as
\* saved is persisted, a page counted as rejected was seen and refused by
\* the server, and neither is kept on disk (page_spool.py:46-56).
TrueOutcome ==
    \A p \in Page :
        /\ outcome[p] = "saved" => p \in stored \ spool
        /\ outcome[p] = "rejected" => p \in refused \ (spool \cup stored)

\* flush gives a page up only when its task is gone or reassigned (README,
\* "Never lose a page"; page_spool.py:77-78).
DropOnlyWhenTaskLost == \A p \in dropped : owner[TaskOf[p]] = Lost

\* Which deployments that is true of: the workers that share the directory
\* share their key too, and no failure text has a marker in it by accident.
OneKey == \A w, v \in Worker : KeyOf[w] = KeyOf[v]
PlainTexts == \A text \in TransportTexts : text \cap DropMarkers = {}

\* Every buffered page leaves the disk in the end (page_spool.py:9,
\* "re-POSTing buffered pages until they land").
SpoolDrains == \A p \in Page : p \in spool ~> p \notin spool

\* A copy is on disk, or has been read back and its POST is not over.
OnDisk(p) == p \in spool \/ \E w \in Worker : pc[w] = "post" /\ cur[w] = p

\* The worker that crawled the page is through with it.
Over(p) == ~OnDisk(p) /\ outcome[p] \notin {"new", "held"}

Received(p) == p \in stored \cup refused

\* Where a page is, in the terms of PageCustody.
Place(p) ==
    CASE OnDisk(p) -> "disk"
      [] ~OnDisk(p) /\ outcome[p] = "new" -> "site"
      [] ~OnDisk(p) /\ outcome[p] = "held" -> "memory"
      [] Over(p) /\ Received(p) -> "server"
      [] Over(p) /\ ~Received(p) /\ p \in dropped -> "dropped"
      [] Over(p) /\ ~Received(p) /\ p \in unread \ dropped -> "unreadable"
      [] Over(p) /\ ~Received(p) /\ p \notin unread \cup dropped -> "lost"

Custodian == INSTANCE PageCustody WITH
    place <- [p \in Page |-> Place(p)],
    lostTask <- {t \in Task : owner[t] = Lost}

\* The page path implements the promise of PageCustody: no flush, crash or
\* lost answer takes a page that can be read from the disk before the server
\* has it, or its task is lost (page_spool.py:76-101).
KeepsCustody == Custodian!Spec
=============================================================================
