# Verification of crawlfast-external-worker

The repository is the program a *crawl node* runs: a Python process that claims crawl tasks from a
crawlfast server over HTTP, fetches the pages from its own network, ships every page back, and
reports what happened. Nodes are unattended machines on bad links, so almost all of the code that is
hard to get right is about failure: the link is cut, the server answers and does not store, the
process is killed, the disk is full, several processes share one directory, a script reads and
deletes a file another process still writes.

This directory holds TLA+ models of that code, the TLC configurations that check them on small
instances, and TLAPS proofs of the properties that matter most for instances of any size.
`PROJECT.json` lists the runs, the slips (mutations of a modelled definition, one per property, that
TLC must catch), the source lines behind each definition, the hazards and the findings.

## 1. The system

A node runs one or more **worker processes** (`docker-compose.yml`: replicas with one API key;
`docker-compose.multi.yml`: workers with a key each). They share two directories, the page spool and
the task logs, and nothing else. Beside them run a **log pusher** (`post_logs.py`: by hand, or by a cron job the
operator adds; the service that is to run it cannot, divergence 3) and a cron job (`self-update.sh`). Everything else is the **server**, which is not in this
repository.

```
              claim / heartbeat / page / progress / result
   worker.py  ------------------ client.py -------------------->  server
     |   |  \__ executor.py  (handlers: fetch, crawl)                ^
     |   |         on_page, on_progress callbacks                    |
     |   +-> page_spool.py --> .page-spool/  <-- other workers       |
     +-> task_log.py ------> logs/ <-- other workers                 |
                              ^-- post_logs.py ----------------------+
```

| Component | State | Operations | What is hard | What makes it correct |
|---|---|---|---|---|
| **page spool** `page_spool.py` | one JSON file per spooled page, under a random name, in the shared directory; in memory, the page being submitted | `submit_with_retry`, `_spool`, `pending`, `flush`, `_safe_remove` | several processes flush one directory; the answer to a POST is lost; the server answers 200 and stores nothing; a process dies between a POST and the removal of the file | a page reported as spooled stays until the server has decided, `saved` means saved, a page is given up only when its task is lost, the spool drains |
| **worker loop** `worker.py` | `now`, `last_hb`, `last_progress`, `idle`; the task at hand | heartbeat, flush, claim, `process_one`, report, back-off, watchdog exit | every call can fail or take longer than the watchdog's window; the report's answer is lost | progress is a reported task, no claim before a heartbeat, exits neither too early nor never, the report is true |
| **crawl handlers** `executor.py` | `queue`, `seen`, `discovered`, the result list, `errors`, `saved` | `lite_fetch`, `crawl_pages`, `full_crawl`, `_persist`, URL ladder | sites link in any order and spelling; a page fails; `on_page` raises; hosts move | each page once, under one spelling, none forgotten, numbers add up, progress goes forward to its end, every crawl ends |
| **API client** `client.py` | session, whether the server knows compressed pages | one method per endpoint, discovery of the compressed route, fallback | timeouts after the effect; a 404 that may mean two things; a server deployed and rolled back meanwhile | a call is one request to its caller, lands once, is refused only for the task; the route is found |
| **task log** `task_log.py` | an open handle per task | `open_task`, `page`, `summary`, `close` | the file is shared, taken away while open, and can end in a broken line | no line is lost |
| **log pusher** `post_logs.py` | a listing, the records of one file | read, upload, remove or archive | runs beside the workers and beside itself | a file goes only after its lines are stored |
| **configuration** `config.py` | none | reads the environment and a file, once | – | – |
| **headers, charset, metadata** `executor.py` | none | string functions of one page | – | – |
| **deployment, self-update** `docker-compose*.yml`, `*.sh` | checked-out commit, built image, running containers | pull, rebuild, restart | a build fails; runs overlap; a run finds nothing to pull; an operator scales | the node comes to run the newest commit, with as many workers as asked for |
| **server** (external) | owner of each claim, pages, results, log objects | claim, page, result, logs | reclaims and deletes tasks at any time | – |

### Interactions

- The loop calls `flush` after each heartbeat (a fresh process's first turn, then every
  `max(10, poll_interval_seconds)`), so a spool is drained only between tasks, by whichever worker
  beats first, not by the one that wrote the page.
- A handler calls `on_page` for each page it has a body for; `on_page` calls `submit_with_retry`,
  counts the outcome and writes a log line. `_persist` swallows whatever `on_page` raises.
- All failures of a turn end in the loop's one `except`, which makes the next turn begin with a
  heartbeat, and asks the watchdog.
- The watchdog ends the process with `os._exit`; the container's restart policy starts a new one.
- Workers and pusher meet only in the log directory: a path can lose its file while a handle is open.
- `self-update.sh` and `bootstrap.sh` replace the worker containers. A process that is replaced, or
  restarted by the watchdog, forgets what it knew of the server.

### The hazards

`PROJECT.json` lists them, each at its line, with the properties that would catch it going wrong.
A hazard with no property, or that the properties named only allow for, has a note that says why.

## 2. The modules

| Module | Models | Lines up with |
|---|---|---|
| `PageCustody` | the promise about pages: where the copy of a page that matters is | README, "Never lose a page" |
| `PageSpool` | `page_spool.py`, the calls `worker.py` makes on it, the server as they see it; any number of workers | implements `PageCustody` |
| `WorkerLoop` | `worker.py`: `main`'s loop and `process_one` of one process, with time | – |
| `Links` | `_normalize_url`, `_same_host_links`: which hrefs are pages of the site, under which URL | – |
| `SiteCrawl` | the three handlers of `executor.py`, with the callbacks of `worker.py` and both sides' counts | uses `Links` |
| `TaskLogs` | `task_log.py` by several workers, `post_logs.py` by several runs | – |
| `PagePost` | the promise of `submit_page`: one call is one request | what `PageSpool` takes for granted of the client |
| `Transport` | `client.py`: `submit_page`, the discovery of the compressed route, the fallback, a server that changes | implements `PagePost` |
| `SelfUpdate` | `self-update.sh`, `bootstrap.sh`, compose: commit, image, containers, worker count | – |
| `Rollout` | `Transport` in a container that `SelfUpdate` replaces, stops and starts | composes the two |
| `MC*` | the instances for TLC | – |
| `PageSpoolProofs`, `PageCustodyProofs`, `WorkerLoopProofs`, `LinksProofs`, `SiteCrawlProofs`, `TaskLogsProofs`, `TransportProofs`, `RolloutProofs` | theorems; the last is about `SelfUpdate` too | – |

### PageCustody

A page is at the `site`, in `memory`, on `disk`, at the `server`, `lost`, `unreadable` or `dropped`, and moves
one step at a time. It has the three exits the code really has besides the server. A page is `lost` only from
memory: the process that holds its only copy dies, or the disk refuses it. It becomes `unreadable` only from the
disk, when its file cannot be read back (the code removes such a file). It is `dropped` only from the disk, and
only when its task is gone or reassigned. So a page on disk whose file can be read and whose task is held leaves
for the server or not at all; the slip that breaks it, `RemoveAnyway`, is a flush that removes a file after any
failure.

### PageSpool

`pc[w]` is what a worker is doing: `crawl` inside `process_one`, `submit`/`shelve` inside
`submit_with_retry` and `_spool`, `flush`/`post`/`landed`/`barred` inside `flush`. The steps are cut
where the code does I/O another process or the server can see, so that everything between may
interleave: between listing and opening a file, between reading it and the answer to its POST, between
the answer and `os.remove`.

| Action | Code |
|---|---|
| `Claim`, `Hand`, `EndTask` | the task's frame: the claim, the handler's call of `on_page`, the return |
| `SubmitAnswered`, `SubmitFails` | one attempt of `submit_with_retry`; any exception counts as transient, a refusal too; the last one goes to the spool |
| `Shelve`, `ShelveFails` | `_spool`: temporary file and rename, or the exception that `_persist` swallows |
| `FlushStart`, `FlushOpen`, `FlushUnreadable` | `pending()[:max_files]`, reading a file, the `except` that deletes it |
| `PostAnswered`, `PostDisowned`, `PostFails` | the POST of a spooled page: any answer removes the file; an exception whose text has one of the three markers gives it up, any other keeps it |
| `FlushRecovered`, `FlushDropped`, `FlushEnd` | `_safe_remove` and the counts; the file may be gone already |
| `Crash` | the process dies anywhere and starts again with what is on disk |
| `LoseTask` | the server deletes or reassigns a claim |

A `Task` is one claim: after `LoseTask` it does not come back (a new claim of the same crawl is
another `Task`, its pages other pages). `NoVerdict` is every POST without an answer, with or without
effect at the server: retries and re-posts can therefore deliver a page twice. A request takes effect
before the caller's timeout or not at all; a request that arrives later is not modelled. An error text
is the set of `flush`'s markers that occur in it.

A `Page` is one page crawled once, so that a page has at most one spool file; its name is a fresh
random one, so no two writers meet. The temporary file of `_spool` has no state: its name does not end in
`.json` and nothing reads it. A POST is one step here, whichever routes it takes: that is what `PagePost`
promises and `Transport` is shown to keep.

### WorkerLoop

Time is in ticks, and each blocking call takes any of `Durations`. The code's `now - last_progress`,
`now - last_hb` and the time since `now` was read are kept as ages that saturate where the code's
comparisons stop telling them apart (`Age`), so the state space is finite without a bound on
time. Each call of a turn is an action with a failing twin (`BeatFails`, `FlushFails`, `ClaimFails`,
`OpenLogFails`, `ReportFails`, `SummaryFails`, `ReportFailureFails`) that goes where the code's
exception goes: the loop's `except` (`Error`), or `process_one`'s (`reportFailed`). `status` is what the
server has on record; a failed report may or may not have changed it. `Die` and `Restart` are a kill
and the restart policy; `mode = "once"` is `--once`.

All of the loop's times are `time.time()`. `ClockStep(d)` sets the wall clock forward or back at any
moment: it shifts what the next reading gives (`nowAge`) and not the time that goes by (`stalled`).
How far it is set back in all is bounded by `Slack`, which also lowers the ages' range and raises their
cap. Forward steps are not bounded; `ahead` keeps their sum since the last processed task, which
`ExitsNoEarlier` has to allow for. Steps back only make the watchdog later, by a bounded amount.

### Links and SiteCrawl

A URL has its parts, and a path is the sequence that `split("/")` makes of it, so that an empty segment at
its end is a slash. `NormalizeUrl` does to it what `_normalize_url` does: the `;parameters` of the last segment
go (`urlparse` splits them off, and the function does not put them back), then a segment that repeats the one
before, then all slashes at the end, then the fragment. A segment is a text, and `Bare` says what is left of one
without its parameters. `_HREF_RE` finds no href with a `#` in it: `Matched` is the guard of `Follow`, and such an
href is no link at all. An href may lack scheme and host and be relative; `UrlJoin` is `urljoin` as far as `Href`
needs it (no `..`). `Assets` stands for the skip lists: last segments by which `_SKIP_EXT` and `_SKIP_PREFIXES`
reject a path, and queries by which the hints do; the path is the one `urlparse` gives once more, without
parameters. `Text` is what the parts are made of. The loop over the segments is the recursive function in
`Collapse`. `SamePage` says without the code's loop which URLs mean one page: those that have the same words when
the last empty segments are left out and each run of one word counts once. An empty segment between two words does
count, as it does in the code: `/a//b` is another page than `/a/b`. Parameters count too: that the code ignores them
is divergence 8, not a spelling.

`SiteCrawl` is one handler run. `NextUrl` takes a page from the queue; `GetPage`, `TryVariant`,
`GetAgain` and `GetAfterWait` are the requests of `_fetch` (the page, the other spellings of its URL, the
page again, and once more after a rate limit), with status codes abstracted to `good` (below 400),
`busy` (429, 503) and `bad`; `FetchFails` is an exception of any of them but the ladder's own, or of
reading the body, and `FetchEmpty`/`FetchPage` a body that is none or HTML. The site is chosen as the crawl
goes: each request is answered in any way, and a page has any hrefs in any order (`Follow`, repeated until
`EndOfLinks`). A 404 page is a page too: `_fetch` raises nothing for it, and the server decides whether to
keep it. `Home` is the scheme and host the site answers under and `Landings` other places, on the site or off it,
where a redirect of any page may end; `found_on` is the page's `final_url`, one of these (`Finals`), against which
its links are resolved. `linked` is a history of the pages of the site (under the host that was asked
for or the one that answers) that fetched pages link to. `stats` is the worker's `page_stats`,
`saved`/`errors`/`pages` the handler's result, `sent` the last ping that the throttle let through, `silent`
a history count of pages in nobody's outcome count.

### TaskLogs

A worker writes through its handle: `at[w]` says whether that file still is the one at the path, is in
the archive, or has no name. A pusher reads a path, posts, and removes or moves the path, each a step
of its own; it takes the files of its listing in sorted order (`Rank`). `late` and `replaced` are
history: lines written when a pusher was at the file or the handle had no path, and lines the server had
until a later upload overwrote the object. `CloseTorn` breaks the file's last line off (`tail`). Inside a
character (`piece`), the file cannot be decoded any more: a pusher that comes to it ends there, in an exception
nothing catches, and so leaves all files sorted after it. Between two (`fragment`), the next open appends to it,
and the first line written then is glued to what is left (`Glues`, `glued`): `json.loads` rejects the two together,
`read_records` skips them without a word, and they go with the file. `Readable` is what a pusher gets.
Part of a line that lacks only its line break is a record, hence the choice in `AfterRead`. `Contained` are the runs
the log-pusher service starts: the image it is built from has no `post_logs.py` (`Dockerfile:20`), so they end
before they begin.

### PagePost and Transport

`PagePost` has no routes: a call of `submit_page` is one request, whose page the server takes in at most
once, which is refused only if the task is not the worker's, and which ends otherwise with a verdict or
an error. `Transport` is how `client.py` makes the call: unless the process has made up its mind
(`support`), it asks `/health`; then it posts to the compressed route or the old one, and a 404 or 405
from the first makes it post to the second at once and never ask for the first again. The server gains
and loses the route (`Deploy`, `RollBack`) and takes the task away at any moment, so that a 404 has two
meanings. `refusals` (the 404s and 405s of the compressed route in this process's life), `withRoute` and `misled` are
history. A process that starts has forgotten everything
(`StartProcess`).

### SelfUpdate and Rollout

A commit is its number on the branch. `head` is what is checked out, `image` what the worker image was
built from, `live` what the containers were created from, `up` how many there are, `file` what
`.worker-replicas` says. A run of `self-update.sh` has two steps: it reads the count and pulls (`PullNew`,
`PullNothing`), then builds and starts (`RebuildOk`, `RebuildFails`) or only starts (`EnsureOk`,
`EnsureFails`). Cron has no lock, so `Run` runs go on at once. `Trouble` is what happens to a node: the
operator writes the file or runs `bootstrap.sh --scale n`, the power fails, the containers are stopped or
removed. Commits that do not build are chosen at the start (`broken`); any build can also fail for a
passing reason. `slipped` is history: commits whose one rebuild was spoilt by a failure, a power cut or an
older build that ended after it.

`Rollout` puts one worker process's `Transport` in these containers: compose replaces the process when the
image is another one, the power cut restarts it, while nothing is up no call is made, and the restart
policy starts it again at any time.

## 3. What is checked

"States" are distinct states TLC visits.

| Run | Instance | Properties | Shows |
|---|---|---|---|
| `page_spool` | 2 replicas, 1 key, 2 pages of 2 claims, 2 attempts, 1 file per flush, 1 crash; 48 800 states | `TypeOK`, `Custody`, `TrueOutcome`, `DropOnlyWhenTaskLost`, `SpoolDrains`, `KeepsCustody` | pages survive every interleaving of two crawling, flushing, crashing processes; the page path implements `PageCustody`; what is on disk leaves it |
| `spool_two_keys` | 2 workers, 2 keys | `DropOnlyWhenTaskLost` **violated** | finding 1 |
| `spool_task_id_text` | 1 worker, an error text with `404` in it | `DropOnlyWhenTaskLost` **violated** | finding 2 |
| `worker_loop` | watchdog 3 ticks, beat every 2, calls of 0, 1 or 4, clock set forward 4 or back 2; loop and `--once`; 340 412 states | `TypeOK`, `BeatsBeforeClaim`, `ProgressIsReported`, `NoFalseSuccess`, `ExitsNoEarlier`, `ExitsInTime`, `NoZombie` | the loop under every failure of every call and a clock that is set |
| `worker_report` | watchdog 4, beat 3, calls of 0, 1 or 5, a steady clock, loop only | `FailedMeansFailed` **violated** | finding 3 |
| `site_crawl` | a site of five pages with ten hrefs, seed under http with a fragment, answers under https, redirects to a folder and to another site, at most 3 pages crawled; lists of up to 3 of 2 pages; 107 929 states | `TypeOK`, `EachOnce`, `OneSpelling`, `CountsAddUp`, `RequestsBounded`, `FirstGoodAnswerKept`, `WholeSite`, `LastPing`, `ProgressForward`, `StepsRunOut`, `Terminates` | every answer to every request, every choice and order of links, every redirect of a page |
| `site_moved` | same, the site answers under another host and redirects no single page | `WholeSite` **violated** | finding 4 |
| `task_logs` | 1 worker, 2 tasks (one opened twice, with 2 lines, sorted first; one empty), a pusher, a `--keep` pusher and the service; 278 423 states | `TypeOK`, `OnlyLateLinesLost`, `LinesLeave` | what pushers beside a worker can lose and what not; what a broken line costs; that, if runs go on, all that can be read leaves |
| `task_logs_open` | 1 worker, 1 pusher, 1 task | `NothingLost` **violated** | finding 5 |
| `self_update` | 2 overlapping runs, 3 commits of which the second may be broken, counts 1 and 2, 2 troubles; 24 953 states | `UpdateTypeOK`, `NothingForgotten`, `CatchesUp`, `KeepsReplicas` | no commit is forgotten between two runs, so the node catches up and keeps its count, with the exceptions `slipped` names |
| `update_retry` | 1 run, 2 commits, no trouble | `RetriesRebuild` **violated** | finding 6 |
| `rollout` | opted in, 1 run, 2 commits, 1 trouble; 85 920 states | `TypeOK`, `OneRefusal`, `OneRequestEach`, `FindsRoute` | the transport under a changing server and a node that updates itself; implements `PagePost` |

### The bounds, and why they are enough

- *Two workers* in the page path: all conflicts over a file are between the one that crawled the page or
  lists it, and one other that flushes it. Workers share only the directory and the server. The
  theorems do not need the bound.
- *Two pages of one claim and one of another*: a worker can hold one page, have one on disk from the same
  claim and one from a claim since lost. One page is not `Keepable` in each instance where it matters, so
  `rejected` happens.
- *`Retries = 2`* has a first attempt, a last attempt and a transition between them; 3 adds nothing
  new. *`MaxFiles`* is below the number of pages, so the listing is cut off. `os.listdir` promises no
  order, so the batch is any set of that size.
- *One crash* of any worker at any step: a second finds a state that a first can find, since a restart
  leaves nothing but the disk. `MaxCrashes` counts the crashes of all workers together.
- *Watchdog 3, heartbeat 2, calls 0/1/4*: one duration is longer than the window, one is shorter than
  everything, and the sum of two sleeps crosses the heartbeat interval; the quick-sleep threshold
  (`QuickTries = 2`) is crossed in two turns. One clock step forward crosses the window by itself, one back
  undoes a whole heartbeat interval. The theorems need none of these bounds.
- *Ten hrefs, `MaxPages = 3`*: the hrefs name four pages beside the seed, two of them under several spellings,
  beside two assets, another site, a mail address and a page named only with a fragment; the relative one gives
  a repeated segment when it is met on its own page or in the folder that a redirect leads to. The limit bites
  with a page left in the queue, and is not reached on smaller sites. A queue can hold a duplicate only if the
  same link is met twice, which three pages do.
- *One worker, three pushers, one of them `--keep`, one in the image*: every pair of
  read/post/remove/move is interleaved; two opens give a file that is removed and made anew under a
  pusher's feet; the second task is behind the first in the listing, so that its file is held up by an undecodable one;
  the first task's second line can be glued to a broken first one. Workers
  do not meet but at the files of one task; the theorem holds for any number of them.
- *Two runs, three commits, two troubles* in `SelfUpdate`: an older build can end after a newer one, a broken
  commit can lie between two good ones, and an operator can act twice, or once before a power cut. More
  runs at once only make more of the same pairs. *One run, two commits, one trouble* in `Rollout`, where only
  the replacement of the process matters.

### Fairness, and why the code justifies it

- `PageSpool`: weak fairness of a worker's crawl and flush steps, since every HTTP call has a timeout and
  every loop is over a finite list. *Strong* fairness of `FlushStart`: the worker is at the top of the
  loop again and again and beats, then flushes, each heartbeat interval. A turn is not always a
  flush, hence strong and not weak. Strong fairness of `PostAnswered \/ PostDisowned`, for each page: the
  server does not fail the same page for ever. It is an assumption about the server, and `SpoolDrains`
  is false without it. No fairness of `Claim`, `LoseTask`, `Crash`.
- `WorkerLoop`: every call ends (weak fairness of the turn), and something restarts what exited.
  Nothing is said about which way calls end: `NoZombie` holds with a server that never answers, and
  with a clock that is set. It does need that a handler returns (section 5, divergence 2).
- `SiteCrawl`: weak fairness of `Step`, which has all steps but `Follow`: a page's links end because its
  body is cut at 3 MB.
- `TaskLogs`: weak fairness of the steps of a run once it has been started, and strong fairness of `PushSaved` for
  each file (the server does not turn the same file away for ever). None of `StartRun`: what the repository
  schedules is the log-pusher service alone, and that ends before it begins; `bootstrap.sh` and `setup-node.sh`
  install no such cron job, and the `push-logs-cron.sh` of `post_logs.py:18` does not exist. `LinesLeave` is
  therefore conditional: it starts from `KeepsRunning`, that runs on the host go on for ever, by an operator's hand or
  cron job. Without that no line ever leaves a node, as nothing obliges it to (divergence 3).
- `SelfUpdate`: weak fairness of each cron run (cron starts them for ever, and pulls and builds end), strong
  fairness of `PullNew`, `RebuildOk` and `EnsureOk` (the network and docker are there now and then: what is
  tried time and again succeeds in the end). A commit is rebuilt once, so the fairness of `RebuildOk` does
  not make that one rebuild succeed. None of the operator, the power or the pushes.
- `Rollout`: as `SelfUpdate`, weak fairness of the calls (pages keep coming, calls end by their timeout) and
  strong fairness of the health answer. None of the server's deployments.

Deadlock is checked in all runs. `SiteCrawl` ends, and says so with `Ended`.

## 4. What is proved

The proofs hold for every value of the constants that satisfies the modules' assumptions
(`ConstantsType`, `KeyNames`, `LoopConstants`, `LinkConstants`, `CrawlConstants`, `LogConstants`,
`TransportConstants`, `UpdateConstants`): any number of workers, pages, claims, retries, crashes, lines, runs
and commits, paths of any length, any durations, windows and clock steps. Every invariant and every action
property of the runs that pass is proved, under the two extra assumptions named where they are needed.

**`PageSpoolProofs`.** `SafeSpec => []TypeOK`, `[]Custody`, `[]TrueOutcome` (`Invariance`), and under
`OneKey` and `PlainTexts`, `SafeSpec => []DropOnlyWhenTaskLost`. `Custody` is not inductive as it stands. A
worker about to remove a file has to be known to remove one the server has decided about, and never one
of a page that is counted as saved, so `Inv` adds `Flushing`: what is listed, on disk, re-posted or given
up was spooled, and in `landed` the page at hand has been received. A worker whose `submit_with_retry`
returns must be the only one that holds the page, so `Inv` adds `Holding`. `OneVerdict` says that the server
does not both keep and refuse one page, whatever copies of it arrive. `DropOnlyWhenTaskLost` further needs `Ownership`: with one key, a claim that has been
worked on is owned by that key or lost, so a refusal means that it is lost. `PlainTexts` excludes
finding 2, `OneKey` finding 1; the runs show that both are needed.

**`PageCustodyProofs`.** `SafeSpec => KeepsCustody` under the same two assumptions: every step of the page
path is a step of `PageCustody` or a stutter under the mapping `Place`, in which the only pages that go from the
disk to nowhere are unreadable ones and those of lost tasks. A POST of a page that another
worker also has in hand does not move the page; its last copy on disk does (`FlushedGoes`). The argument
goes by cases on the action, with `Concerns`, the one page an action can move.

**`WorkerLoopProofs`.** `[]TypeOK`, `[]BeatsBeforeClaim`, `[]ProgressIsReported`, `[]NoFalseSuccess` and
the action properties `ExitsNoEarlier` and `ExitsInTime`. The invariant has three independent parts.
`Control`: which `crawl`/`status` go with which step (`OnRecord`). `Beating`: after an error or a start the
heartbeat is due when the top is reached, or has gone through (`BeatDue`). `Clocks`: the age the
watchdog measures is at most the time since the last processed task plus the length of that turn plus
what the clock was set forward since (`Measured`), and at least that time less what the clock was set back
(`Noticed`). The two allowances in `ExitsNoEarlier` are divergence 1 of
section 5 and the clock; the instance of `worker_loop` violates the property without either. `ExitsInTime` is
the safety half of `NoZombie`: a worker whose claims fail or find nothing does not sleep on past the window.
After an empty claim the code compares with the time of the turn's start (`worker.py:200`), after an error with
the time of the error (`worker.py:212`), so only the former allows for the turn itself. The ages' cap leaves
room for the steps back that `Slack` still allows, so that saturation never hides an exit.

**`LinksProofs`.** Two theorems about `_normalize_url`. `NormalizeIdempotent`: the form it makes of a URL is left
alone when it is normalized again exactly when the last segment that is left has no parameters; the docstring's
"Idempotent", with its one exception (divergence 8). `SamePageIsSameURL`: two URLs have the same normal form exactly
when, their last segments' parameters put aside (`WithoutParams`), they are the same page in the sense of
`SamePage`; so the function leaves no page under two URLs, and the only different pages it merges are those that
differ in parameters. Both are about a loop over the path's segments. The library's
induction theorems cannot be used (their parameter is an operator), so the lemmas about the loop are proved by
the least counterexample: `Least` gets a least element of any set of naturals from `WFMin`, and the step at which
a claim about `out[n]` first fails is refuted by the loop's body (`RunSteps`, `RunListed`, `RunExtends`). That the
recursive function exists at all is proved in the same way (`RunExists`). What the loop keeps is said by the set
of the positions that stay (`KeptTo`), and two paths with the same words keep the same ones.

**`SiteCrawlProofs`.** `[]EachOnce`, `[]CountsAddUp`, `[]RequestsBounded`, `[]FirstGoodAnswerKept`,
`[]LastPing`, `[]OneSpelling`, `[]TypeOK` and the action properties `ProgressForward` and `StepsRunOut`, for
any site, any hrefs, any list of pages and any `MaxPages`; and under `Home.host = Host`, which excludes finding 4, `[]WholeSite`. The invariant's parts:
`Frontier` (`EachOnce`, and the page at hand is seen); `Numbers` (`CountsAddUp` at every step: while a page
is being fetched there is one more seen than in the result); `Requests` (how many requests each step of
`_fetch` has behind it, and that the ladder is only for `full_crawl`'s first page, which is its start
because the queue holds nothing else by then); `Answered`; `Progress` (the last ping's total is at most
what is known now, as taking a page from the queue adds it to `seen`); `LastWord`. That pings never go back
rests on `Frontier`: a page skipped because it was seen would shrink the total, and `NextIsNew` says that
`full_crawl`'s test for it never succeeds. `WholeSite` needs besides that each link met is kept (`Kept`). Its pages are those that an href
without a `#` names (divergence 12), on the host the site was asked for.
`TypeOK` and `OneSpelling` rest on a second invariant, `Addresses`: what is queued or seen is a URL, and for
`full_crawl` a normal one. A link is normalized before it is queued (`LinksAreNormal`), wherever the page it is on
was found (`FinalIsUrl`), and two normal URLs of one page are one URL (`NormalIsUnique`, from `LinksProofs`). `StepsRunOut` says why every crawl ends: `Budget`, eleven
for each page still to come and up to ten for the page at hand, is a natural number that each `Step` lowers and
`Follow` leaves alone. It uses `Frontier` again, as a page taken from the queue lowers the budget only if it
was not in `seen`, and `Numbers`, which keeps `seen` below `MaxPages`. Only that `Step` happens at all, and that
a page has finitely many links, is left to `Terminates` and its fairness.

**`TaskLogsProofs`.** `SafeSpec => []TypeOK` and `[]OnlyLateLinesLost`. The invariant says of a pusher between reading and
removing that each line of the path is among its records, late or glued (`ReadOrLate`), that its records are
confirmed when it removes (`Confirmed`), and that the archive holds nothing the server has not had
(`ArchiveConfirmed`), which is what makes moving over an archived file harmless.

**`TransportProofs`.** `[]TransportTypeOK`, `[]OneRefusal` and the refinement `OneRequestEach`, for
`TransportSafeSpec`. `OneRefusal` says that a 404 or 405 of the compressed route is the last a process gets, and
that it asks neither that route nor `/health` afterwards; it does not say that a missing route costs one request
(divergence 13). It needs that a refusal has settled the matter for this process
(`refusals > 0 => support = "no"`) and that the compressed route is asked only by one that believes in it;
the refinement needs that nothing has landed while a call goes on, so that a fallback after a request that
might have landed would break it.

**`RolloutProofs`.** Of `SelfUpdate`: `[]UpdateTypeOK` and `[]NothingForgotten`, from an invariant that
adds two facts. What a run builds has been checked out (`Building`), without which the image could be of a commit
the node never had. If the containers are of the newest commit, so is the image, unless an older build ended since
(`Newest`), without which a start of the containers could put an older image in place of what was caught up with. Of `Rollout`: `Composition`,
that a behaviour of the whole is one of `Transport` and one of `SelfUpdate`, fairness included (`StepOfBoth`: each
step is a step or a stutter of either). With it `RolloutTypeCorrect`, `RolloutOneRefusal` and
`RolloutOneRequestEach` follow from the theorems about the parts: replacing, stopping or restarting the process
does not break the transport's promise.

What stays with TLC is all liveness: `SpoolDrains`, `NoZombie`, `LinesLeave`, `Terminates`, `CatchesUp`,
`KeepsReplicas`, `FindsRoute`. The prover does not reason about fairness and `ENABLED`. Of three of them a safety
half is proved: `ExitsInTime` of `NoZombie`, `StepsRunOut` of `Terminates`, `NothingForgotten` of `CatchesUp`.

## 5. Findings

1. **Two keys, one spool** (`page_spool.py:94`). In `docker-compose.multi.yml` two workers with
   different keys mount one `.page-spool`. When one flushes a page of the other's task, the server
   answers that the task is not assigned to it, and `flush` deletes the page.
2. **A task id with `404` in it** (`page_spool.py:94`). The text of a timeout carries the path of the
   request, hence the id. `flush` takes it for a refusal and deletes the page at the first timeout. A
   proxy's 404 page has the same effect.
3. **A success reported as failed** (`worker.py:109`). The report of success and the summary line stand in
   the `try` whose `except` reports failure; a lost answer or a full disk overwrites the success.
4. **A site that answers under its other host name** (`executor.py:498`). Links are compared with the host
   of the task's URL, not of the URL the ladder or a redirect settled on: the crawl ends after a page.
5. **The pusher removes logs that are still open** (`post_logs.py:90`). Lines written after the file was
   read, and all that follow through the open handle, are lost; an empty file is removed at once.
6. **A failed rebuild is not retried** (`self-update.sh:36`). The pull has moved `HEAD`, so the next run finds
   nothing new and starts the containers without building; the message promises a retry.

`PROJECT.json` quotes, for each, the line of the repository it contradicts.

Other places where the code and what is said of it differ. They have no run of their own: the models have
them, and the properties of the passing runs allow for exactly that much, as named.

1. *The watchdog measures from the start of the turn* (`worker.py:193`; `179-180`, README:317-318). After a task longer than the window, the next error or empty claim ends the process although a task was just
   processed: `lastTurn` in `ExitsNoEarlier`. Nor is it asked whether the queue is empty, as
   `worker.py:180` has it: an idle node restarts every ten minutes.
2. *A hung handler is not healed* (`worker.py:191`; `177-181` lists "a hung task"). The watchdog runs in the
   thread that hangs. `NoZombie` assumes that calls return.
3. *Nothing in the repository pushes the logs* (`Dockerfile:20` copies the package alone; README:286-288,
   `docker-compose.yml:30-33` say that the log-pusher service does). The service fails each time for want of
   `post_logs.py`; neither `bootstrap.sh` nor `setup-node.sh` installs a cron job for it, and the
   `push-logs-cron.sh` of `post_logs.py:18` does not exist. `Contained` in `TaskLogs`; lines leave by the runs that
   somebody starts on the host, hence `KeepsRunning` in `LinesLeave`.
4. *A running process does not discover the route when it appears* (`client.py:170`; `160` "simply keep using the
   old route until the new one appears"). The answer "no" is kept for its life: `withRoute` in
   `FindsRoute`.
5. *A task's 404 is taken for the route's* (`client.py:142`). A worker whose task was deleted stops to
   compress: `misled` in `FindsRoute`. No page is lost by it.
6. *`bootstrap.sh --scale N` does not last* (`bootstrap.sh:97`; README:183, :221). The next cron run goes back to the count of
   `.worker-replicas`, or 1. `KeepsReplicas` is about the file's count.
7. *An older build can win* (`self-update.sh:33`). Cron's runs are not exclusive; `slipped` in `CatchesUp`.
8. *`_normalize_url` drops parameters, and so is not idempotent on every URL* (`executor.py:142`, `149`; `137`,
   `141` "Idempotent"). `urlparse` takes `;params` off the last segment and the function does not put them back:
   `/a;x=1` and `/a;x=2` are one page to the crawl, and `/a;p/` becomes `/a;p`, and that, met again, `/a`.
   `NormalizeIdempotent` and `SamePageIsSameURL` say exactly when.
9. *One page under two schemes is crawled twice* (`executor.py:394`; `137` "doesn't double-crawl"). Host is
   compared, scheme is not; `OneSpelling` speaks of one scheme.
10. *Slashes within a path stay* (`executor.py:146`; `137` as above). Only `/` at the end goes and only repeated
   segments that are not empty: `/a//b` and `/a/b` are two pages to the crawl. `SamePage` counts them as two.
11. *A line after a broken one is lost* (`post_logs.py:46-49`; `9-10` "nothing is lost if the server is
   unreachable"). `open(path, "a")` (`task_log.py:80`) goes on where a line broke off, the pusher skips what
   `json.loads` rejects, whole line included, and removes the file: `glued` in `OnlyLateLinesLost`.
12. *A page linked only with a fragment is not found* (`executor.py:40`; `491` "crawl every same-host page").
   `[^"'#]+` does not match `href="/about#team"` at all, and `.split("#")[0]` (`392`) finds something to split
   only where the markup has `&num;`. The same goes for the numeric entities that `386-389` says are handled: `&#38;` has a `#`. `Matched` in
   `Follow`, and so in `WholeSite`.
13. *A missing route can cost more than one request* (`client.py:138-139`, `147-152`; `62-64` "an older backend costs
   exactly one wasted request"). A request to it whose answer is lost, or is an error other than 404 and 405, settles
   nothing, and the next page is sent there again. `OneRefusal` counts 404s and 405s.

## 6. How to read the slips

A definition introduced as a *Slip* beside an action is the form that action would take with a plausible
bug: a retry bound off by one, an HTTP 200 taken for a saved page, an exception swallowed too early. A
slip is not part of any specification. Each property of each passing run has a slip that violates it.

## 7. Running

```
tlc -config PageSpool.cfg MCPageSpool      # and so on, see PROJECT.json
tlapm PageSpoolProofs.tla
```

## 8. What is not modelled, and why

- **Configuration**: read once, before anything runs; its values are the constants here. That the
  watchdog's window is longer than a poll interval is *not* assumed.
- **Headers, charset, metadata**: string functions of one page; no property of the system depends on what
  they return.
- **What a URL can have besides**: `..`, ports, upper case, entities (among them `&num;`, which becomes a `#` only
  after the match), the empty segments inside a relative href that `urljoin` drops. `Links` has what makes one page
  two URLs in ordinary markup.
- **The delay between pages** changes nothing but the time a crawl takes.
- **`CRAWLFAST_WORKER_NO_URL_VARIANTS`, `CRAWLFAST_WORKER_NO_RETRY`**: taken to be unset, as they are by
  default; each only takes requests away.
- **`--health`, `--dry-run`**: change no state of the running node. **`setup-node.sh`, `setup-ssh.sh`** and what
  `bootstrap.sh` does before it starts the containers: run once, on an empty machine. A run of
  `self-update.sh` whose `git pull` cannot fast-forward is one that cannot reach the network.
- **Between reading `HEAD` and the pull** of `self-update.sh` is one step in `SelfUpdate`: the two readings of `HEAD`
  and the pull between them are taken as one, so that of two runs only one finds a given commit new.
- **The server**: only as the client sees it. It is taken to claim atomically, to accept pages only from
  the key that owns the claim (also after the task's result was reported, as a spool needs), and to say
  of each page and log whether it stored it. `submit_with_retry` counts an answer that is no object as
  saved (`page_spool.py:62`): `TrueOutcome` speaks of servers that send the flag. The server's lease and
  its storage are not modelled.
- **Power loss below the file system**: a rename or a whole line that was written is taken to be durable. What is
  modelled is a log whose last line breaks off (`CloseTorn`), and a spool file that cannot be read. A pusher that
  reads a line of an open file of which only the first part has been written yet is not.
- **The order of a flush's listing** is arbitrary, as `os.listdir` says. On a file system that always lists
  the same way, files the server neither takes nor refuses in known words, `max_files` of them at the
  head, keep all others from being flushed; `SpoolDrains` assumes such a server away.

## 9. Plan

Order is by what the behaviour is worth to the node.

Done: the page path and its abstract promise; the worker loop, with clock steps; the handlers and the URLs they
follow; the logs, with broken lines and the service; the client's transport and its promise; self-update, and
both together. Theorems for every invariant and action property of them.

Left:

1. **`Fleet`**: `WorkerLoop`'s `crawl` and `flush` steps composed with `PageSpool`, so that the strong
   fairness of `FlushStart` becomes a consequence of the loop, and `PageSpool`'s POST with `Transport`; with the
   theorem that its behaviours are behaviours of the parts, as `Composition` has it for `Rollout`.
2. A fixed listing order and a server whose refusals `flush` does not know in `PageSpool`.
