------------------------------ MODULE TaskLogs ------------------------------
(***************************************************************************)
(* The task logs of a node: the files the workers append to                *)
(* (crawlfast_external_worker/task_log.py) and the log pusher that reads,  *)
(* uploads and removes them at the same time (post_logs.py, from cron, by  *)
(* hand, or as the log-pusher service of docker-compose.yml).              *)
(*                                                                         *)
(* A path stands for the task it is named after.  A worker writes through  *)
(* its handle, which stays with the file when the path is removed.         *)
(***************************************************************************)
EXTENDS Naturals, FiniteSets

CONSTANTS
    Worker,     \* worker processes sharing the log directory
    Pusher,     \* runs of post_logs.py that can go on at the same time
    Keeper,     \* those started with --keep
    Contained,  \* those started in the image, as the log-pusher service is
    Task,
    Rank,       \* where a task's path comes in the sorted listing
    MaxOpens,   \* bound: how often each task is worked on by the node
    MaxLines,   \* bound: lines written about each task
    None

ASSUME LogConstants ==
    /\ Keeper \subseteq Pusher
    /\ Contained \subseteq Pusher
    /\ Rank \in [Task -> Nat]
    /\ \A t, u \in Task : Rank[t] = Rank[u] => t = u
    /\ MaxOpens \in [Task -> Nat]
    /\ MaxLines \in [Task -> Nat]
    /\ None \notin Task

VARIABLES
    task,       \* the task whose log a worker has open
    at,         \* where that file is now
    opens,      \* how often each task's log was opened
    written,    \* how many lines were written about each task
    exists,     \* tasks with a file in the log directory
    tail,       \* how each task's file ends
    file,       \* the lines of those files
    glued,      \* those written to the end of a line that was broken off
    archive,    \* the lines of the files set aside by --keep
    stored,     \* server: the lines of each task's object
    pc,         \* what each pusher is doing
    todo,       \* the files of its listing still to be looked at
    cur,        \* the file it deals with
    recs,       \* the records it has read from it
    late,       \* history: lines written when a pusher had read the path, or it was gone
    replaced    \* history: lines the server had, until the object was overwritten

vars == <<task, at, opens, written, exists, tail, file, glued, archive, stored, pc, todo, cur, recs,
          late, replaced>>

handles == <<task, at>>
writes == <<opens, written, glued, late>>
directory == <<exists, tail, file, archive>>
server == <<stored, replaced>>

\* A file ends with a line break, after part of a line, or inside a character.
Tails == {"whole", "fragment", "piece"}

Line == UNION {1 .. MaxLines[t] : t \in Task}

TypeOK ==
    /\ task \in [Worker -> Task \cup {None}]
    /\ at \in [Worker -> {"none", "file", "archive", "gone"}]
    /\ \A w \in Worker : task[w] = None <=> at[w] = "none"
    /\ opens \in [Task -> Nat]
    /\ written \in [Task -> Nat]
    /\ \A t \in Task : opens[t] <= MaxOpens[t] /\ written[t] <= MaxLines[t]
    /\ exists \subseteq Task
    /\ tail \in [Task -> Tails]
    /\ \A t \in Task : tail[t] # "whole" => t \in exists
    /\ file \in [Task -> SUBSET Line]
    /\ glued \in [Task -> SUBSET Line]
    /\ archive \in [Task -> SUBSET Line]
    /\ stored \in [Task -> SUBSET Line]
    /\ pc \in [Pusher -> {"off", "run", "post", "remove", "move"}]
    /\ todo \in [Pusher -> SUBSET Task]
    /\ cur \in [Pusher -> Task \cup {None}]
    /\ recs \in [Pusher -> SUBSET Line]
    /\ late \in [Task -> SUBSET Line]
    /\ replaced \in [Task -> SUBSET Line]

Init ==
    /\ task = [w \in Worker |-> None]
    /\ at = [w \in Worker |-> "none"]
    /\ opens = [t \in Task |-> 0]
    /\ written = [t \in Task |-> 0]
    /\ exists = {}
    /\ tail = [t \in Task |-> "whole"]
    /\ file = [t \in Task |-> {}]
    /\ glued = [t \in Task |-> {}]
    /\ archive = [t \in Task |-> {}]
    /\ stored = [t \in Task |-> {}]
    /\ pc = [p \in Pusher |-> "off"]
    /\ todo = [p \in Pusher |-> {}]
    /\ cur = [p \in Pusher |-> None]
    /\ recs = [p \in Pusher |-> {}]
    /\ late = [t \in Task |-> {}]
    /\ replaced = [t \in Task |-> {}]

----------------------------------------------------------------------------
\* The workers.

\* open(path, "a"): a file that is there is added to.
OpenTask(w, t) ==
    /\ task[w] = None
    /\ opens[t] < MaxOpens[t]
    /\ opens' = [opens EXCEPT ![t] = @ + 1]
    /\ task' = [task EXCEPT ![w] = t]
    /\ at' = [at EXCEPT ![w] = "file"]
    /\ exists' = exists \cup {t}
    /\ UNCHANGED <<written, tail, file, glued, archive, server, pc, todo, cur, recs, late>>

\* A pusher has looked at the path and is not through with it.
Pushing(t) == \E p \in Pusher : cur[p] = t

\* The next line comes to the end of one that was broken off.
Glues(w, t) == at[w] = "file" /\ tail[t] = "fragment"

\* page or summary: one line, flushed, wherever the file is by now.
WriteLine(w, t, n) ==
    /\ task[w] = t
    /\ n = written[t] + 1
    /\ n <= MaxLines[t]
    /\ written' = [written EXCEPT ![t] = n]
    /\ file' = IF at[w] = "file" THEN [file EXCEPT ![t] = @ \cup {n}] ELSE file
    /\ glued' = IF Glues(w, t) THEN [glued EXCEPT ![t] = @ \cup {n}] ELSE glued
    /\ tail' = IF Glues(w, t) THEN [tail EXCEPT ![t] = "whole"] ELSE tail
    /\ archive' = IF at[w] = "archive" THEN [archive EXCEPT ![t] = @ \cup {n}] ELSE archive
    /\ late' = IF at[w] # "file" \/ Pushing(t) THEN [late EXCEPT ![t] = @ \cup {n}] ELSE late
    /\ UNCHANGED <<handles, opens, exists, server, pc, todo, cur, recs>>

\* Slip: the handle is left open.
CloseForgotten(w) ==
    /\ task[w] # None
    /\ task' = [task EXCEPT ![w] = None]
    /\ UNCHANGED <<at, writes, directory, server, pc, todo, cur, recs>>

\* The task ends, or the worker dies.
CloseTask(w) ==
    /\ task[w] # None
    /\ task' = [task EXCEPT ![w] = None]
    /\ at' = [at EXCEPT ![w] = "none"]
    /\ UNCHANGED <<writes, directory, server, pc, todo, cur, recs>>

\* The last line breaks off, inside a character (ensure_ascii is off) or
\* between two: a power cut, or a disk that is full until the file is closed.
\* After a piece of a character nothing that follows makes the file decodable.
CloseTorn(w) ==
    /\ task[w] # None
    /\ task' = [task EXCEPT ![w] = None]
    /\ at' = [at EXCEPT ![w] = "none"]
    /\ \E end \in {"fragment", "piece"} :
           tail' = IF at[w] = "file" /\ tail[task[w]] # "piece"
                   THEN [tail EXCEPT ![task[w]] = end]
                   ELSE tail
    /\ UNCHANGED <<writes, exists, file, archive, server, pc, todo, cur, recs>>

----------------------------------------------------------------------------
\* The pusher.

Goto(p, step) == pc' = [pc EXCEPT ![p] = step]

\* The run ends, or an exception that nothing catches ends it.
Stop(p) ==
    /\ Goto(p, "off")
    /\ todo' = [todo EXCEPT ![p] = {}]
    /\ cur' = [cur EXCEPT ![p] = None]
    /\ recs' = [recs EXCEPT ![p] = {}]

\* On to the next file of the listing.
NextFile(p) ==
    /\ Goto(p, "run")
    /\ cur' = [cur EXCEPT ![p] = None]
    /\ recs' = [recs EXCEPT ![p] = {}]
    /\ UNCHANGED todo

\* What the service starts ends before it begins, and is started again after a
\* sleep: there is no post_logs.py in the image (Dockerfile).
StartInImage(p) ==
    /\ pc[p] = "off"
    /\ p \in Contained
    /\ UNCHANGED vars

\* os.walk; the archive is left out.
StartRun(p) ==
    /\ pc[p] = "off"
    /\ p \notin Contained
    /\ Goto(p, "run")
    /\ todo' = [todo EXCEPT ![p] = exists]
    /\ UNCHANGED <<handles, writes, directory, server, cur, recs>>

\* What json.loads takes: a line glued to part of another is skipped.
Readable(t) == file[t] \ glued[t]

\* What follows read_records: a file with records is posted, one without is
\* removed, or left alone by --keep. Part of a line is a record too when only
\* its line break is missing.
AfterRead(p, t) ==
    /\ todo' = [todo EXCEPT ![p] = @ \ {t}]
    /\ \E found \in {Readable(t) # {}, Readable(t) # {} \/ tail[t] = "fragment"} :
           IF ~found /\ p \in Keeper
           THEN UNCHANGED <<pc, cur, recs>>
           ELSE /\ Goto(p, IF found THEN "post" ELSE "remove")
                /\ cur' = [cur EXCEPT ![p] = t]
                /\ recs' = [recs EXCEPT ![p] = Readable(t)]

\* Slip: the files are taken in any order.
AnyFile(p, t) == t \in todo[p]

\* The files are taken in sorted order.
IsNext(p, t) == t \in todo[p] /\ \A u \in todo[p] : Rank[t] <= Rank[u]

\* A file that another run has removed since it was listed, or that cannot be
\* decoded, ends this run.
ReadFile(p, t) ==
    /\ pc[p] = "run"
    /\ IsNext(p, t)
    /\ IF t \in exists /\ tail[t] # "piece" THEN AfterRead(p, t) ELSE Stop(p)
    /\ UNCHANGED <<handles, writes, directory, server>>

\* The server makes what it is sent the task's object.
Store(p) ==
    /\ stored' = [stored EXCEPT ![cur[p]] = recs[p]]
    /\ replaced' = [replaced EXCEPT ![cur[p]] = @ \cup (stored[cur[p]] \ recs[p])]

PushSaved(p, t) ==
    /\ pc[p] = "post"
    /\ cur[p] = t
    /\ Store(p)
    /\ Goto(p, IF p \in Keeper THEN "move" ELSE "remove")
    /\ UNCHANGED <<handles, writes, directory, todo, cur, recs>>

\* Slip: an answer is taken for a confirmation.
AnyAnswerWillDo(p) ==
    /\ pc[p] = "post"
    /\ Goto(p, IF p \in Keeper THEN "move" ELSE "remove")
    /\ UNCHANGED <<handles, writes, directory, server, todo, cur, recs>>

\* The server answers that it has stored nothing: the file stays.
PushSkipped(p) ==
    /\ pc[p] = "post"
    /\ NextFile(p)
    /\ UNCHANGED <<handles, writes, directory, server>>

\* The request or its answer is lost: the file stays.
PushFails(p) ==
    /\ pc[p] = "post"
    /\ Store(p) \/ UNCHANGED server
    /\ NextFile(p)
    /\ UNCHANGED <<handles, writes, directory>>

\* What becomes of the open handles when the path is taken from their file,
\* and when something else is moved over the file they have in the archive.
Removed(where) == IF where = "file" THEN "gone" ELSE where
Moved(where) == IF where = "file" THEN "archive" ELSE IF where = "archive" THEN "gone" ELSE where

\* os.remove of the path; it may be gone already.
RemoveFile(p) ==
    /\ pc[p] = "remove"
    /\ exists' = exists \ {cur[p]}
    /\ tail' = [tail EXCEPT ![cur[p]] = "whole"]
    /\ file' = [file EXCEPT ![cur[p]] = {}]
    /\ at' = [w \in Worker |-> IF task[w] = cur[p] THEN Removed(at[w]) ELSE at[w]]
    /\ NextFile(p)
    /\ UNCHANGED <<task, writes, archive, server>>

\* shutil.move to the archive, over what an earlier run has put there; if
\* the path is gone, the exception ends the run.
MoveFile(p) ==
    /\ pc[p] = "move"
    /\ IF cur[p] \in exists
       THEN /\ exists' = exists \ {cur[p]}
            /\ tail' = [tail EXCEPT ![cur[p]] = "whole"]
            /\ file' = [file EXCEPT ![cur[p]] = {}]
            /\ archive' = [archive EXCEPT ![cur[p]] = file[cur[p]]]
            /\ at' = [w \in Worker |-> IF task[w] = cur[p] THEN Moved(at[w]) ELSE at[w]]
            /\ NextFile(p)
       ELSE Stop(p) /\ UNCHANGED <<directory, at>>
    /\ UNCHANGED <<task, writes, server>>

EndRun(p) ==
    /\ pc[p] = "run"
    /\ todo[p] = {}
    /\ Stop(p)
    /\ UNCHANGED <<handles, writes, directory, server>>

WorkerStep(w) ==
    \/ \E t \in Task : OpenTask(w, t)
    \/ \E t \in Task, n \in Line : WriteLine(w, t, n)
    \/ CloseTask(w)
    \/ CloseTorn(w)

\* A step of a run that has been started.
RunStep(p) ==
    \/ \E t \in Task : ReadFile(p, t) \/ PushSaved(p, t)
    \/ PushSkipped(p)
    \/ PushFails(p)
    \/ RemoveFile(p)
    \/ MoveFile(p)
    \/ EndRun(p)

PusherStep(p) == StartInImage(p) \/ StartRun(p) \/ RunStep(p)

Next ==
    \/ \E w \in Worker : WorkerStep(w)
    \/ \E p \in Pusher : PusherStep(p)

SafeSpec == Init /\ [][Next]_vars

\* A run goes on to its end, and the server does not turn the same file away
\* for ever. Nothing is said of StartRun: the repository schedules only the
\* log-pusher service, which ends before it begins (StartInImage).
Fairness ==
    /\ \A p \in Pusher \ Contained : WF_vars(RunStep(p))
    /\ \A t \in Task : SF_vars(\E p \in Pusher \ Contained : PushSaved(p, t))

Spec == SafeSpec /\ Fairness

----------------------------------------------------------------------------
\* Properties.

Lines(t) == 1 .. written[t]

\* A line the node or the server still has.
Kept(t) == file[t] \cup archive[t] \cup stored[t]

\* The only lines that are ever lost are those written while a pusher was at
\* the file, or to a file without a path, those the server had and replaced,
\* and those written to the end of a broken line, which no pusher can read
\* (post_logs.py:46-49): whatever the pushers and the workers do, a line that
\* could be read when the file was stays until it is stored (post_logs.py:9-10).
OnlyLateLinesLost ==
    \A t \in Task : Lines(t) \subseteq Kept(t) \cup late[t] \cup replaced[t] \cup glued[t]

\* A file that cannot be decoded is in the way of t's.
HeldUp(t) == \E u \in exists : tail[u] = "piece" /\ Rank[u] <= Rank[t]

\* Runs are started on the host again and again, as by the cron job of
\* post_logs.py:18; nothing in the repository does so.
KeepsRunning == []<>(\E p \in Pusher \ Contained : pc[p] = "run")

\* If so, every readable line leaves the log directory, with one pusher or
\* several, some of which set the files aside: a file that cannot be decoded
\* holds up only those that are sorted after it (post_logs.py:40-50, 65).
LinesLeave ==
    KeepsRunning =>
        \A t \in Task : \A n \in 1 .. MaxLines[t] :
            n \in Readable(t) ~> n \notin Readable(t) \/ HeldUp(t)

\* "Nothing is lost" (post_logs.py:9-10, task_log.py:10-11): every line written
\* is in the log directory, in the archive, or at the server.
NothingLost == \A t \in Task : Lines(t) \subseteq Kept(t)
=============================================================================
