--------------------------- MODULE TaskLogsProofs ---------------------------
(***************************************************************************)
(* Theorems about TaskLogs, for every number of workers, pushers, tasks,   *)
(* openings and lines.                                                     *)
(***************************************************************************)
EXTENDS TaskLogs, TLAPS

\* A pusher deals with a file from the reading to the removal.
Busy == \A p \in Pusher : pc[p] \in {"post", "remove", "move"} <=> cur[p] \in Task

\* What is in a file that a pusher has read is among its records, or was not in
\* it then and is late, or cannot be read.
ReadOrLate ==
    \A p \in Pusher, t \in Task :
        cur[p] = t => file[t] \subseteq recs[p] \cup late[t] \cup glued[t]

\* The server has, or had, what a pusher is about to take away.
Confirmed ==
    \A p \in Pusher, t \in Task :
        cur[p] = t /\ pc[p] \in {"remove", "move"} => recs[p] \subseteq stored[t] \cup replaced[t]

\* So has it what was set aside, but for late and unreadable lines.
ArchiveConfirmed ==
    \A t \in Task : archive[t] \subseteq stored[t] \cup replaced[t] \cup late[t] \cup glued[t]

\* A handle at the path's file means that there is one.
PathsAndFiles ==
    /\ \A t \in Task : t \notin exists => file[t] = {}
    /\ \A w \in Worker : at[w] = "file" => task[w] \in exists

Inv ==
    /\ TypeOK
    /\ Busy
    /\ ReadOrLate
    /\ Confirmed
    /\ ArchiveConfirmed
    /\ PathsAndFiles
    /\ OnlyLateLinesLost

----------------------------------------------------------------------------
LEMMA InitInv == Init => Inv
BY LogConstants DEF Init, Inv, TypeOK, Tails, Line, Busy, ReadOrLate, Confirmed, ArchiveConfirmed,
    PathsAndFiles, OnlyLateLinesLost, Lines, Kept

LEMMA WorkerInv ==
    ASSUME Inv, NEW w \in Worker, WorkerStep(w)
    PROVE  Inv'
<1> USE LogConstants DEF Inv, TypeOK, Tails
<1>1. ASSUME NEW t \in Task, OpenTask(w, t) PROVE Inv'
  <2> USE <1>1 DEF OpenTask, server
  <2>1. TypeOK'
    OBVIOUS
  <2>2. Busy' /\ ReadOrLate' /\ Confirmed' /\ ArchiveConfirmed'
    BY DEF Busy, ReadOrLate, Confirmed, ArchiveConfirmed
  <2>3. PathsAndFiles' /\ OnlyLateLinesLost'
    BY DEF PathsAndFiles, OnlyLateLinesLost, Lines, Kept
  <2> QED
    BY <2>1, <2>2, <2>3
<1>2. ASSUME NEW t \in Task, NEW n \in Line, WriteLine(w, t, n) PROVE Inv'
  <2> USE <1>2 DEF WriteLine, Glues, handles, server
  <2>1. TypeOK'
    OBVIOUS
  <2>2. Busy' /\ Confirmed'
    BY DEF Busy, Confirmed
  <2>3. ReadOrLate'
    BY DEF ReadOrLate, Pushing
  <2>4. ArchiveConfirmed'
    BY DEF ArchiveConfirmed
  <2>5. PathsAndFiles'
    BY DEF PathsAndFiles
  <2>6. n \in file'[t] \cup archive'[t] \cup late'[t]
    OBVIOUS
  <2>7. \A s \in Task : /\ file[s] \subseteq file'[s]
                       /\ archive[s] \subseteq archive'[s]
                       /\ late[s] \subseteq late'[s]
                       /\ glued[s] \subseteq glued'[s]
    OBVIOUS
  <2>8. \A s \in Task : \A k \in 1 .. written'[s] : k \in 1 .. written[s] \/ (s = t /\ k = n)
    OBVIOUS
  <2>9. stored' = stored /\ replaced' = replaced
    OBVIOUS
  <2>10. OnlyLateLinesLost'
    BY <2>6, <2>7, <2>8, <2>9 DEF OnlyLateLinesLost, Lines, Kept
  <2> QED
    BY <2>1, <2>2, <2>3, <2>4, <2>5, <2>10
<1>3. ASSUME CloseTask(w) PROVE Inv'
  BY <1>3 DEF CloseTask, writes, directory, server, Busy, ReadOrLate, Confirmed,
      ArchiveConfirmed, PathsAndFiles, OnlyLateLinesLost, Lines, Kept
<1>4. ASSUME CloseTorn(w) PROVE Inv'
  BY <1>4 DEF CloseTorn, writes, server, Busy, ReadOrLate, Confirmed, ArchiveConfirmed,
      PathsAndFiles, OnlyLateLinesLost, Lines, Kept
<1> QED
  BY <1>1, <1>2, <1>3, <1>4 DEF WorkerStep

\* Storing a file keeps all that the server has or had.
LEMMA StoreKeeps ==
    ASSUME Inv, NEW p \in Pusher, cur[p] \in Task, Store(p)
    PROVE  /\ stored' \in [Task -> SUBSET Line]
           /\ replaced' \in [Task -> SUBSET Line]
           /\ \A t \in Task : stored[t] \cup replaced[t] \subseteq stored'[t] \cup replaced'[t]
           /\ \A t \in Task : replaced[t] \subseteq replaced'[t]
           /\ recs[p] \subseteq stored'[cur[p]]
BY DEF Inv, TypeOK, Store

LEMMA StutterInv == Inv /\ UNCHANGED vars => Inv'
BY DEF vars, Inv, TypeOK, Tails, Busy, ReadOrLate, Confirmed, ArchiveConfirmed, PathsAndFiles,
    OnlyLateLinesLost, Lines, Kept

LEMMA PusherInv ==
    ASSUME Inv, NEW p \in Pusher, PusherStep(p)
    PROVE  Inv'
<1>0. None \notin Task
  BY LogConstants
<1> USE <1>0 DEF Inv, TypeOK, Tails
<1>1. CASE StartRun(p)
  BY <1>1 DEF StartRun, Goto, handles, writes, directory, server, Busy, ReadOrLate, Confirmed,
      ArchiveConfirmed, PathsAndFiles, OnlyLateLinesLost, Lines, Kept
<1>2. ASSUME NEW t \in Task, ReadFile(p, t) PROVE Inv'
  <2>0. pc[p] = "run" /\ UNCHANGED <<handles, writes, directory, server>>
    BY <1>2 DEF ReadFile
  <2>1. cur[p] = None
    BY <2>0 DEF Busy
  <2> USE <2>0, <2>1 DEF Goto, handles, writes, directory, server
  <2>2. CASE Stop(p)
    BY <2>2 DEF Stop, Busy, ReadOrLate, Confirmed, ArchiveConfirmed, PathsAndFiles,
        OnlyLateLinesLost, Lines, Kept
  <2>3. CASE AfterRead(p, t)
    <3>1. /\ todo' = [todo EXCEPT ![p] = @ \ {t}]
          /\ \/ UNCHANGED <<pc, cur, recs>>
             \/ /\ \/ pc' = [pc EXCEPT ![p] = "post"]
                   \/ pc' = [pc EXCEPT ![p] = "remove"] /\ Readable(t) = {}
                /\ cur' = [cur EXCEPT ![p] = t]
                /\ recs' = [recs EXCEPT ![p] = Readable(t)]
      <4>1. PICK found \in {Readable(t) # {}, Readable(t) # {} \/ tail[t] = "fragment"} :
                IF ~found /\ p \in Keeper
                THEN UNCHANGED <<pc, cur, recs>>
                ELSE /\ Goto(p, IF found THEN "post" ELSE "remove")
                     /\ cur' = [cur EXCEPT ![p] = t]
                     /\ recs' = [recs EXCEPT ![p] = Readable(t)]
        BY <2>3 DEF AfterRead
      <4> QED
        BY <2>3, <4>1 DEF AfterRead
    <3>2. Readable(t) \subseteq Line /\ file[t] \subseteq Readable(t) \cup glued[t]
      BY DEF Readable
    <3>3. TypeOK' /\ Busy'
      BY <3>1, <3>2 DEF Busy
    <3>4. ReadOrLate'
      BY <3>1, <3>2 DEF ReadOrLate, Busy
    <3>5. Confirmed'
      BY <3>1, <3>2 DEF Confirmed, Busy
    <3>6. ArchiveConfirmed' /\ PathsAndFiles' /\ OnlyLateLinesLost'
      BY <3>1 DEF ArchiveConfirmed, PathsAndFiles, OnlyLateLinesLost, Lines, Kept
    <3> QED
      BY <3>3, <3>4, <3>5, <3>6
  <2> QED
    BY <1>2, <2>2, <2>3 DEF ReadFile
<1>3. ASSUME NEW t \in Task, PushSaved(p, t) PROVE Inv'
  <2> USE <1>3 DEF PushSaved, Goto, handles, writes, directory
  <2>1. /\ stored' \in [Task -> SUBSET Line]
        /\ replaced' \in [Task -> SUBSET Line]
        /\ \A s \in Task : stored[s] \cup replaced[s] \subseteq stored'[s] \cup replaced'[s]
        /\ recs[p] \subseteq stored'[t]
    BY StoreKeeps
  <2>2. TypeOK' /\ Busy'
    BY <2>1 DEF Busy
  <2>3. ReadOrLate'
    BY DEF ReadOrLate
  <2>4. Confirmed'
    BY <2>1 DEF Confirmed
  <2>5. ArchiveConfirmed' /\ PathsAndFiles'
    BY <2>1 DEF ArchiveConfirmed, PathsAndFiles
  <2>6. OnlyLateLinesLost'
    BY <2>1 DEF OnlyLateLinesLost, Lines, Kept
  <2> QED
    BY <2>1, <2>2, <2>3, <2>4, <2>5, <2>6
<1>4. CASE PushSkipped(p)
  <2> USE <1>4 DEF PushSkipped, NextFile, Goto, handles, writes, directory, server
  <2>1. TypeOK' /\ Busy'
    BY DEF Busy
  <2>2. ReadOrLate' /\ Confirmed'
    BY DEF ReadOrLate, Confirmed
  <2>3. ArchiveConfirmed' /\ PathsAndFiles' /\ OnlyLateLinesLost'
    BY DEF ArchiveConfirmed, PathsAndFiles, OnlyLateLinesLost, Lines, Kept
  <2> QED
    BY <2>1, <2>2, <2>3
<1>5. CASE PushFails(p)
  <2> USE <1>5 DEF PushFails, NextFile, Goto, handles, writes, directory
  <2>1. cur[p] \in Task
    BY DEF Busy
  <2>2. /\ stored' \in [Task -> SUBSET Line]
        /\ replaced' \in [Task -> SUBSET Line]
        /\ \A s \in Task : stored[s] \cup replaced[s] \subseteq stored'[s] \cup replaced'[s]
    BY <2>1, StoreKeeps DEF server
  <2>3. TypeOK' /\ Busy'
    BY <2>2 DEF Busy
  <2>4. ReadOrLate'
    BY DEF ReadOrLate
  <2>5. Confirmed'
    BY <2>2 DEF Confirmed
  <2>6. ArchiveConfirmed' /\ PathsAndFiles'
    BY <2>2 DEF ArchiveConfirmed, PathsAndFiles
  <2>7. OnlyLateLinesLost'
    BY <2>2 DEF OnlyLateLinesLost, Lines, Kept
  <2> QED
    BY <2>2, <2>3, <2>4, <2>5, <2>6, <2>7
<1>6. CASE RemoveFile(p)
  <2> USE <1>6 DEF RemoveFile, Removed, NextFile, Goto, writes, server
  <2>1. cur[p] \in Task
    BY DEF Busy
  <2>2. TypeOK'
    BY <2>1
  <2>3. Busy' /\ ReadOrLate' /\ Confirmed'
    BY <2>1 DEF Busy, ReadOrLate, Confirmed
  <2>4. ArchiveConfirmed' /\ PathsAndFiles'
    BY <2>1 DEF ArchiveConfirmed, PathsAndFiles
  <2>5. file[cur[p]] \subseteq
            stored[cur[p]] \cup replaced[cur[p]] \cup late[cur[p]] \cup glued[cur[p]]
    BY <2>1 DEF ReadOrLate, Confirmed
  <2>6. OnlyLateLinesLost'
    BY <2>1, <2>5 DEF OnlyLateLinesLost, Lines, Kept
  <2> QED
    BY <2>2, <2>3, <2>4, <2>6
<1>7. CASE MoveFile(p)
  <2> USE <1>7 DEF MoveFile, writes, server
  <2>1. cur[p] \in Task
    BY DEF Busy
  <2>2. file[cur[p]] \subseteq
            stored[cur[p]] \cup replaced[cur[p]] \cup late[cur[p]] \cup glued[cur[p]]
    BY <2>1 DEF ReadOrLate, Confirmed
  <2>3. CASE cur[p] \in exists
    <3> USE <2>1, <2>3 DEF Moved, NextFile, Goto, directory
    <3>1. TypeOK'
      <4>1. \A v \in Worker : /\ at'[v] \in {"none", "file", "archive", "gone"}
                             /\ at'[v] = "none" <=> at[v] = "none"
        OBVIOUS
      <4>2. at' \in [Worker -> {"none", "file", "archive", "gone"}]
        BY <4>1
      <4>3. /\ pc' \in [Pusher -> {"off", "run", "post", "remove", "move"}]
            /\ todo' = todo
            /\ cur' \in [Pusher -> Task \cup {None}]
            /\ recs' \in [Pusher -> SUBSET Line]
        OBVIOUS
      <4>4. /\ exists' \subseteq Task
            /\ tail' \in [Task -> Tails]
            /\ \A t \in Task : tail'[t] # "whole" => t \in exists'
        OBVIOUS
      <4>5. file[cur[p]] \in SUBSET Line /\ {} \in SUBSET Line
        OBVIOUS
      <4>6. file' \in [Task -> SUBSET Line]
        BY <4>5
      <4>7. archive' \in [Task -> SUBSET Line]
        BY <4>5
      <4> QED
        BY <4>1, <4>2, <4>3, <4>4, <4>6, <4>7
    <3>2. Busy' /\ Confirmed'
      BY DEF Busy, Confirmed
    <3>3. ReadOrLate'
      BY DEF ReadOrLate
    <3>4. ArchiveConfirmed'
      BY <2>2 DEF ArchiveConfirmed
    <3>5. PathsAndFiles'
      BY DEF PathsAndFiles
    <3>6. OnlyLateLinesLost'
      BY <2>2 DEF OnlyLateLinesLost, ArchiveConfirmed, Lines, Kept
    <3> QED
      BY <3>1, <3>2, <3>3, <3>4, <3>5, <3>6
  <2>4. CASE cur[p] \notin exists
    <3> USE <2>4 DEF Stop, Goto, directory
    <3>1. TypeOK'
      OBVIOUS
    <3>2. Busy'
      BY DEF Busy
    <3>3. ReadOrLate' /\ Confirmed'
      BY DEF ReadOrLate, Confirmed
    <3>4. ArchiveConfirmed' /\ PathsAndFiles' /\ OnlyLateLinesLost'
      BY DEF ArchiveConfirmed, PathsAndFiles, OnlyLateLinesLost, Lines, Kept
    <3> QED
      BY <3>1, <3>2, <3>3, <3>4
  <2> QED
    BY <2>3, <2>4
<1>8. CASE EndRun(p)
  BY <1>8 DEF EndRun, Stop, Goto, handles, writes, directory, server, Busy, ReadOrLate,
      Confirmed, ArchiveConfirmed, PathsAndFiles, OnlyLateLinesLost, Lines, Kept
<1>9. CASE StartInImage(p)
  BY <1>9, StutterInv DEF StartInImage
<1> QED
  BY <1>1, <1>2, <1>3, <1>4, <1>5, <1>6, <1>7, <1>8, <1>9 DEF PusherStep, RunStep

\* The inductive invariant holds in every behaviour: what a pusher is about to
\* take away the server has, but for late lines (post_logs.py:84-125).
THEOREM Invariance == SafeSpec => []Inv
<1>1. Inv /\ [Next]_vars => Inv'
  BY WorkerInv, PusherInv, StutterInv DEF Next
<1> QED
  BY InitInv, <1>1, PTL DEF SafeSpec

\* Every variable keeps its type, whatever workers and pushers share the
\* directory; a file that ends in a broken line is there (task_log.py:76-96).
THEOREM TypeCorrect == SafeSpec => []TypeOK
BY Invariance, PTL DEF Inv

\* A line that could be read when a pusher read its file, and whose object at
\* the server is not overwritten, is on the node or at the server, for any
\* number of workers and pushers that share the log directory; a line written
\* to the end of a broken one cannot be read (post_logs.py:46-49, 84-125).
THEOREM OnlyLateLinesLostHolds == SafeSpec => []OnlyLateLinesLost
BY Invariance, PTL DEF Inv
=============================================================================
