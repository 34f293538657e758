-------------------------- MODULE PageSpoolProofs --------------------------
(***************************************************************************)
(* Theorems about PageSpool, for every number of workers, claims, pages,   *)
(* retries and files per flush.                                            *)
(***************************************************************************)
EXTENDS PageSpool, TLAPS

\* The workers that hold a page of their crawl, and those that re-post one.
Holds(w) == pc[w] \in {"submit", "shelve"}
Reposts(w) == pc[w] \in {"post", "landed", "barred"}

\* Between Hand and the page's outcome one worker, and only one, has it.
Holding ==
    /\ \A w \in Worker : Holds(w) => cur[w] \in Page /\ outcome[cur[w]] = "held"
    /\ \A w, v \in Worker : Holds(w) /\ Holds(v) /\ cur[w] = cur[v] => w = v

\* Flush deals with pages that were spooled, and only with those.
Flushing ==
    /\ \A p \in spool \cup dropped \cup unread : outcome[p] = "spooled"
    /\ \A w \in Worker : files[w] \subseteq {p \in Page : outcome[p] = "spooled"}
    /\ \A w \in Worker : Reposts(w) => cur[w] \in Page /\ outcome[cur[w]] = "spooled"
    /\ \A w \in Worker : pc[w] = "landed" => cur[w] \in stored \cup refused

\* The server's decision about a page is always the same.
OneVerdict == stored \subseteq Keepable /\ refused \cap Keepable = {}

Inv == TypeOK /\ Holding /\ Flushing /\ OneVerdict /\ Custody /\ TrueOutcome

----------------------------------------------------------------------------
LEMMA InitInv == Init => Inv
BY ConstantsType DEF Init, Inv, TypeOK, Holding, Holds, Flushing, Reposts, OneVerdict,
    Custody, TrueOutcome, Outcomes, Steps

\* Taking a page in changes nothing but the server's two sets.
LEMMA ReceiveInv ==
    ASSUME NEW p \in Page, stored \subseteq Page, refused \subseteq Page, OneVerdict, Receive(p)
    PROVE  /\ stored \subseteq stored' /\ refused \subseteq refused'
           /\ stored' \subseteq Page /\ refused' \subseteq Page
           /\ OneVerdict'
           /\ p \in stored' \cup refused'
           /\ p \in Keepable => p \in stored'
           /\ p \notin Keepable => p \in refused'
           /\ owner' = owner
BY DEF Receive, OneVerdict

\* So does a request without a verdict.
LEMMA NoVerdictInv ==
    ASSUME NEW w \in Worker, NEW p \in Page, NEW text, stored \subseteq Page, refused \subseteq Page,
           OneVerdict, NoVerdict(w, p, text) \/ Disowned(w, p, text)
    PROVE  /\ stored \subseteq stored' /\ refused \subseteq refused'
           /\ stored' \subseteq Page /\ refused' \subseteq Page
           /\ OneVerdict'
           /\ owner' = owner
<1>1. CASE UNCHANGED server
  BY <1>1 DEF server, OneVerdict
<1>2. CASE Receive(p)
  BY <1>2, ReceiveInv
<1> QED
  BY <1>1, <1>2 DEF NoVerdict, MaybeReceive, Disowned

LEMMA CrawlInv ==
    ASSUME Inv, NEW w \in Worker, CrawlStep(w)
    PROVE  Inv'
<1> USE ConstantsType DEF Inv, TypeOK
<1>1. ASSUME NEW p \in Page, Hand(w, p) PROVE Inv'
  <2> USE <1>1 DEF Hand, Goto, server, history
  <2>1. TypeOK'
    BY DEF Outcomes, Steps
  <2>2. Holding'
    BY DEF Holding, Holds
  <2>3. Flushing' /\ OneVerdict'
    BY DEF Flushing, Reposts, OneVerdict
  <2>4. Custody' /\ TrueOutcome'
    BY DEF Custody, TrueOutcome
  <2> QED
    BY <2>1, <2>2, <2>3, <2>4
<1>2. ASSUME SubmitAnswered(w) PROVE Inv'
  <2> USE <1>2 DEF SubmitAnswered, PageDone, Goto, history
  <2>1. cur[w] \in Page /\ outcome[cur[w]] = "held" /\ Verdict(cur[w]) \in {"saved", "rejected"}
    BY DEF Holding, Holds, Verdict
  <2>2. /\ stored \subseteq stored' /\ refused \subseteq refused'
        /\ stored' \subseteq Page /\ refused' \subseteq Page
        /\ OneVerdict' /\ owner' = owner
        /\ cur[w] \in Keepable => cur[w] \in stored'
        /\ cur[w] \notin Keepable => cur[w] \in refused'
    BY <2>1, ReceiveInv
  <2>3. TypeOK'
    BY <2>1, <2>2 DEF Outcomes, Steps
  <2>4. Holding'
    BY <2>1 DEF Holding, Holds
  <2>5. Flushing'
    BY <2>1, <2>2 DEF Flushing, Reposts
  <2>6. Custody'
    BY <2>1, <2>2 DEF Custody
  <2>7. TrueOutcome'
    BY <2>1, <2>2 DEF TrueOutcome, Flushing, Verdict, OneVerdict
  <2> QED
    BY <2>2, <2>3, <2>4, <2>5, <2>6, <2>7
<1>3. ASSUME SubmitFails(w) PROVE Inv'
  <2> USE <1>3 DEF SubmitFails, Goto, history
  <2>1. cur[w] \in Page
    BY DEF Holding, Holds
  <2>2. /\ stored \subseteq stored' /\ refused \subseteq refused'
        /\ stored' \subseteq Page /\ refused' \subseteq Page
        /\ OneVerdict' /\ owner' = owner
    BY <2>1, NoVerdictInv
  <2>3. TypeOK'
    BY <2>2 DEF Outcomes, Steps
  <2>4. Holding'
    BY DEF Holding, Holds
  <2>5. Flushing'
    BY <2>2 DEF Flushing, Reposts
  <2>6. Custody' /\ TrueOutcome'
    BY <2>2 DEF Custody, TrueOutcome, OneVerdict
  <2> QED
    BY <2>2, <2>3, <2>4, <2>5, <2>6
<1>4. ASSUME Shelve(w) PROVE Inv'
  <2> USE <1>4 DEF Shelve, PageDone, Goto, server, history
  <2>1. cur[w] \in Page /\ outcome[cur[w]] = "held"
    BY DEF Holding, Holds
  <2>2. TypeOK'
    BY <2>1 DEF Outcomes, Steps
  <2>3. Holding'
    BY <2>1 DEF Holding, Holds
  <2>4. Flushing' /\ OneVerdict'
    BY <2>1 DEF Flushing, Reposts, OneVerdict
  <2>5. Custody' /\ TrueOutcome'
    BY <2>1 DEF Custody, TrueOutcome
  <2> QED
    BY <2>2, <2>3, <2>4, <2>5
<1>5. ASSUME ShelveFails(w) PROVE Inv'
  <2> USE <1>5 DEF ShelveFails, PageDone, Goto, server, history
  <2>1. cur[w] \in Page /\ outcome[cur[w]] = "held"
    BY DEF Holding, Holds
  <2>2. TypeOK'
    BY <2>1 DEF Outcomes, Steps
  <2>3. Holding'
    BY <2>1 DEF Holding, Holds
  <2>4. Flushing' /\ OneVerdict'
    BY <2>1 DEF Flushing, Reposts, OneVerdict
  <2>5. Custody' /\ TrueOutcome'
    BY <2>1 DEF Custody, TrueOutcome
  <2> QED
    BY <2>2, <2>3, <2>4, <2>5
<1>6. ASSUME EndTask(w) PROVE Inv'
  BY <1>6 DEF EndTask, Goto, server, history, Holding, Holds, Flushing, Reposts, OneVerdict,
      Custody, TrueOutcome, Outcomes, Steps
<1> QED
  BY <1>1, <1>2, <1>3, <1>4, <1>5, <1>6 DEF CrawlStep

LEMMA FlushInv ==
    ASSUME Inv, NEW w \in Worker, FlushStep(w)
    PROVE  Inv'
<1> USE ConstantsType DEF Inv, TypeOK
<1>1. ASSUME NEW p \in Page, FlushOpen(w, p) PROVE Inv'
  <2> USE <1>1 DEF FlushOpen, Goto, server, history
  <2>1. TypeOK'
    BY DEF Steps
  <2>2. Holding'
    BY DEF Holding, Holds
  <2>3. Flushing' /\ OneVerdict'
    BY DEF Flushing, Reposts, OneVerdict
  <2>4. Custody' /\ TrueOutcome'
    BY DEF Custody, TrueOutcome
  <2> QED
    BY <2>1, <2>2, <2>3, <2>4
<1>2. ASSUME NEW p \in Page, FlushUnreadable(w, p) PROVE Inv'
  <2> USE <1>2 DEF FlushUnreadable, server
  <2>1. TypeOK' /\ Holding'
    BY DEF Holding, Holds
  <2>2. Flushing' /\ OneVerdict'
    BY DEF Flushing, Reposts, OneVerdict
  <2>3. Custody' /\ TrueOutcome'
    BY DEF Custody, TrueOutcome
  <2> QED
    BY <2>1, <2>2, <2>3
<1>3. ASSUME NEW p \in Page, PostAnswered(w, p) PROVE Inv'
  <2> USE <1>3 DEF PostAnswered, Goto, history
  <2>1. /\ stored \subseteq stored' /\ refused \subseteq refused'
        /\ stored' \subseteq Page /\ refused' \subseteq Page
        /\ OneVerdict' /\ owner' = owner
        /\ p \in stored' \cup refused'
    BY ReceiveInv
  <2>2. TypeOK'
    BY <2>1 DEF Steps
  <2>3. Holding'
    BY DEF Holding, Holds
  <2>4. Flushing'
    BY <2>1 DEF Flushing, Reposts
  <2>5. Custody' /\ TrueOutcome'
    BY <2>1 DEF Custody, TrueOutcome, OneVerdict
  <2> QED
    BY <2>1, <2>2, <2>3, <2>4, <2>5
<1>4. ASSUME NEW text, cur[w] \in Page, pc[w] = "post", GiveUpOrKeep(w, text),
             NoVerdict(w, cur[w], text) \/ Disowned(w, cur[w], text)
      PROVE  Inv'
  <2> USE <1>4 DEF GiveUpOrKeep, Goto, history
  <2>1. /\ stored \subseteq stored' /\ refused \subseteq refused'
        /\ stored' \subseteq Page /\ refused' \subseteq Page
        /\ OneVerdict' /\ owner' = owner
    BY NoVerdictInv
  <2>2. TypeOK'
    BY <2>1 DEF Steps
  <2>3. Holding'
    BY DEF Holding, Holds
  <2>4. Flushing'
    BY <2>1 DEF Flushing, Reposts
  <2>5. Custody' /\ TrueOutcome'
    BY <2>1 DEF Custody, TrueOutcome, OneVerdict
  <2> QED
    BY <2>1, <2>2, <2>3, <2>4, <2>5
<1>5. ASSUME NEW p \in Page, PostDisowned(w, p) PROVE Inv'
  BY <1>4, <1>5 DEF PostDisowned
<1>6. ASSUME PostFails(w) PROVE Inv'
  <2>1. cur[w] \in Page
    BY <1>6 DEF PostFails, Flushing, Reposts
  <2> QED
    BY <1>4, <1>6, <2>1 DEF PostFails
<1>7. ASSUME FlushRecovered(w) PROVE Inv'
  <2> USE <1>7 DEF FlushRecovered, RemoveFile, Goto, server
  <2>1. cur[w] \in stored \cup refused
    BY DEF Flushing
  <2>2. TypeOK'
    BY DEF Steps
  <2>3. Holding'
    BY DEF Holding, Holds
  <2>4. Flushing' /\ OneVerdict'
    BY DEF Flushing, Reposts, OneVerdict
  <2>5. Custody' /\ TrueOutcome'
    BY <2>1 DEF Custody, TrueOutcome
  <2> QED
    BY <2>2, <2>3, <2>4, <2>5
<1>8. ASSUME FlushDropped(w) PROVE Inv'
  <2> USE <1>8 DEF FlushDropped, RemoveFile, Goto, server
  <2>1. TypeOK'
    BY DEF Steps
  <2>2. Holding'
    BY DEF Holding, Holds
  <2>3. Flushing' /\ OneVerdict'
    BY DEF Flushing, Reposts, OneVerdict
  <2>4. Custody' /\ TrueOutcome'
    BY DEF Custody, TrueOutcome
  <2> QED
    BY <2>1, <2>2, <2>3, <2>4
<1>9. ASSUME FlushEnd(w) PROVE Inv'
  BY <1>9 DEF FlushEnd, Goto, server, history, Holding, Holds, Flushing, Reposts, OneVerdict,
      Custody, TrueOutcome, Steps
<1> QED
  BY <1>1, <1>2, <1>3, <1>5, <1>6, <1>7, <1>8, <1>9 DEF FlushStep

LEMMA ClaimInv ==
    ASSUME Inv, NEW w \in Worker, NEW t \in Task, Claim(w, t)
    PROVE  Inv'
<1> USE ConstantsType DEF Inv, TypeOK, Claim, Goto, history
<1>1. TypeOK'
  BY DEF Steps
<1>2. Holding'
  BY DEF Holding, Holds
<1>3. Flushing' /\ OneVerdict'
  BY DEF Flushing, Reposts, OneVerdict
<1>4. Custody' /\ TrueOutcome'
  BY DEF Custody, TrueOutcome
<1> QED
  BY <1>1, <1>2, <1>3, <1>4

LEMMA FlushStartInv ==
    ASSUME Inv, NEW w \in Worker, FlushStart(w)
    PROVE  Inv'
<1> USE ConstantsType DEF Inv, TypeOK, FlushStart, Goto, server, history
<1>1. PICK batch \in SUBSET spool : files' = [files EXCEPT ![w] = batch]
  BY DEF kSubset
<1>2. TypeOK'
  BY <1>1 DEF Steps
<1>3. Holding'
  BY DEF Holding, Holds
<1>4. Flushing' /\ OneVerdict'
  BY <1>1 DEF Flushing, Reposts, OneVerdict
<1>5. Custody' /\ TrueOutcome'
  BY DEF Custody, TrueOutcome
<1> QED
  BY <1>2, <1>3, <1>4, <1>5

LEMMA CrashInv ==
    ASSUME Inv, NEW w \in Worker, Crash(w)
    PROVE  Inv'
<1> USE ConstantsType DEF Inv, TypeOK, Crash, Goto, server
<1>1. TypeOK'
  BY DEF Steps, Outcomes
<1>2. \A v \in Worker : Holds(v)' => v # w /\ Holds(v) /\ cur'[v] = cur[v]
  BY DEF Holds
<1>3. \A v \in Worker : Holds(v)' => outcome'[cur[v]] = "held" /\ cur[v] \in Page
  BY <1>2 DEF Holding, Holds
<1>4. Holding'
  BY <1>2, <1>3 DEF Holding
<1>5. \A p \in Page : outcome[p] # "held" => outcome'[p] = outcome[p]
  BY DEF Holding, Holds
<1>6. Flushing' /\ OneVerdict'
  BY <1>5 DEF Flushing, Reposts, OneVerdict
<1>7. Custody' /\ TrueOutcome'
  BY DEF Custody, TrueOutcome
<1> QED
  BY <1>1, <1>4, <1>6, <1>7

LEMMA LoseTaskInv ==
    ASSUME Inv, NEW t \in Task, LoseTask(t)
    PROVE  Inv'
BY ConstantsType DEF Inv, TypeOK, LoseTask, history, Holding, Holds, Flushing, Reposts, OneVerdict,
    Custody, TrueOutcome

LEMMA StutterInv == Inv /\ UNCHANGED vars => Inv'
BY DEF vars, Inv, TypeOK, Holding, Holds, Flushing, Reposts, OneVerdict, Custody, TrueOutcome

LEMMA NextInv == Inv /\ [Next]_vars => Inv'
BY CrawlInv, FlushInv, ClaimInv, FlushStartInv, CrashInv, LoseTaskInv, StutterInv DEF Next

\* The inductive invariant holds in every behaviour: one worker holds a page
\* at a time, flush deals only with spooled pages (page_spool.py:45-101).
THEOREM Invariance == SafeSpec => []Inv
BY InitInv, NextInv, PTL DEF SafeSpec

\* Every variable keeps its type, attempt never runs past retries - 1.
THEOREM TypeCorrect == SafeSpec => []TypeOK
BY Invariance, PTL DEF Inv

\* A page reported as spooled is on disk, decided by the server, or given up
\* by flush, for any number of workers that share the directory and crash.
THEOREM CustodyHolds == SafeSpec => []Custody
BY Invariance, PTL DEF Inv

\* The outcome submit_with_retry returns is the server's.
THEOREM TrueOutcomeHolds == SafeSpec => []TrueOutcome
BY Invariance, PTL DEF Inv

----------------------------------------------------------------------------
\* With one key, a claim that was ever crawled for is the workers' or lost,
\* and flush gives up only on lost ones.
Owned(w, t) == owner[t] \in {KeyOf[w], Lost}

Ownership ==
    /\ \A w \in Worker : pc[w] = "crawl" => task[w] \in Task /\ Owned(w, task[w])
    /\ \A w \in Worker : Holds(w) => task[w] \in Task /\ Owned(w, task[w])
    /\ \A w \in Worker, p \in Page : outcome[p] # "new" => Owned(w, TaskOf[p])
    /\ \A w \in Worker : pc[w] = "barred" => owner[TaskOf[cur[w]]] = Lost
    /\ DropOnlyWhenTaskLost

DropInv == Inv /\ Ownership

LEMMA InitOwnership == Init => Ownership
BY ConstantsType DEF Init, Ownership, Holds, DropOnlyWhenTaskLost

\* Steps that leave the owners alone and only make a worker go on.
LEMMA CrawlOwnership ==
    ASSUME OneKey, DropInv, NEW w \in Worker, CrawlStep(w)
    PROVE  Ownership'
<1> USE ConstantsType DEF DropInv, Inv, TypeOK, OneKey
<1>1. owner' = owner
  BY DEF CrawlStep, Hand, SubmitAnswered, SubmitFails, Shelve, ShelveFails, EndTask, Receive,
      NoVerdict, MaybeReceive, Disowned, server
<1>2. dropped' = dropped
  BY DEF CrawlStep, Hand, SubmitAnswered, SubmitFails, Shelve, ShelveFails, EndTask, PageDone,
      history
<1>3. \A p \in Page : outcome'[p] # "new" =>
          outcome[p] # "new" \/ (pc[w] = "crawl" /\ TaskOf[p] = task[w])
  BY DEF CrawlStep, Hand, SubmitAnswered, SubmitFails, Shelve, ShelveFails, EndTask, PageDone,
      history, Holding, Holds
<1>4. \A v \in Worker, p \in Page : outcome'[p] # "new" => Owned(v, TaskOf[p])'
  BY <1>1, <1>3 DEF Ownership, Owned
<1>5. \A v \in Worker : pc'[v] = "barred" => pc[v] = "barred" /\ cur'[v] = cur[v]
  BY DEF CrawlStep, Hand, SubmitAnswered, SubmitFails, Shelve, ShelveFails, EndTask, PageDone,
      Goto, history
<1>6. \A v \in Worker : pc'[v] \in {"crawl", "submit", "shelve"} =>
          pc[v] \in {"crawl", "submit", "shelve"} /\ task'[v] = task[v]
  BY DEF CrawlStep, Hand, SubmitAnswered, SubmitFails, Shelve, ShelveFails, EndTask, PageDone,
      Goto, history
<1> QED
  BY <1>1, <1>2, <1>4, <1>5, <1>6 DEF Ownership, Owned, Holds, DropOnlyWhenTaskLost

LEMMA FlushOwnership ==
    ASSUME OneKey, PlainTexts, DropInv, NEW w \in Worker, FlushStep(w)
    PROVE  Ownership'
<1> USE ConstantsType DEF DropInv, Inv, TypeOK
<1>1. owner' = owner
  BY DEF FlushStep, FlushOpen, FlushUnreadable, PostAnswered, PostDisowned, PostFails,
      FlushRecovered, FlushDropped, RemoveFile, FlushEnd, Receive, NoVerdict, MaybeReceive,
      Disowned, server
<1>2. outcome' = outcome /\ task' = task
  BY DEF FlushStep, FlushOpen, FlushUnreadable, PostAnswered, PostDisowned, PostFails,
      FlushRecovered, FlushDropped, RemoveFile, FlushEnd, GiveUpOrKeep
<1>3. \A v \in Worker : pc'[v] \in {"crawl", "submit", "shelve"} => pc'[v] = pc[v]
  BY DEF FlushStep, FlushOpen, FlushUnreadable, PostAnswered, PostDisowned, PostFails,
      FlushRecovered, FlushDropped, RemoveFile, FlushEnd, GiveUpOrKeep, Goto
<1>4. DropOnlyWhenTaskLost'
  <2>1. dropped' = dropped \/ (pc[w] = "barred" /\ dropped' \subseteq dropped \cup {cur[w]})
    BY DEF FlushStep, FlushOpen, FlushUnreadable, PostAnswered, PostDisowned, PostFails,
        FlushRecovered, FlushDropped, RemoveFile, FlushEnd, GiveUpOrKeep, history
  <2> QED
    BY <1>1, <2>1 DEF Ownership, DropOnlyWhenTaskLost
<1>5. ASSUME NEW v \in Worker, pc'[v] = "barred" PROVE owner[TaskOf[cur'[v]]] = Lost
  <2>1. CASE pc[v] = "barred" /\ cur'[v] = cur[v]
    BY <2>1 DEF Ownership
  <2>2. CASE \E p \in Page : PostDisowned(w, p) /\ v = w
    <3>1. PICK p \in Page : PostDisowned(w, p)
      BY <2>2
    <3>2. ~Assigned(w, p) /\ cur'[w] = p
      BY <1>5, <2>2, <3>1 DEF PostDisowned, Disowned, GiveUpOrKeep, Goto
    <3>3. outcome[p] # "new"
      BY <3>1 DEF PostDisowned, Flushing, Reposts
    <3> QED
      BY <2>2, <3>2, <3>3 DEF Ownership, Owned, Assigned
  <2>3. PostFails(w) /\ v = w => FALSE
    BY <1>5 DEF PostFails, GiveUpOrKeep, PlainTexts, Goto
  <2>4. \/ pc[v] = "barred" /\ cur'[v] = cur[v]
        \/ \E p \in Page : PostDisowned(w, p) /\ v = w
        \/ PostFails(w) /\ v = w
    BY <1>5 DEF FlushStep, FlushOpen, FlushUnreadable, PostAnswered, PostDisowned, PostFails,
        FlushRecovered, FlushDropped, RemoveFile, FlushEnd, GiveUpOrKeep, Goto
  <2> QED
    BY <2>1, <2>2, <2>3, <2>4
<1> QED
  BY <1>1, <1>2, <1>3, <1>4, <1>5 DEF Ownership, Owned, Holds

LEMMA OtherOwnership ==
    ASSUME OneKey, DropInv, NEW w \in Worker,
           FlushStart(w) \/ Crash(w) \/ \E t \in Task : Claim(w, t)
    PROVE  Ownership'
<1> USE ConstantsType, KeyNames DEF DropInv, Inv, TypeOK
<1>1. CASE FlushStart(w)
  BY <1>1 DEF FlushStart, Goto, server, history, Ownership, Owned, Holds, DropOnlyWhenTaskLost
<1>2. CASE Crash(w)
  <2> USE <1>2 DEF Crash, Goto, server
  <2>1. \A p \in Page : outcome'[p] # "new" => outcome[p] # "new"
    BY DEF Holding, Holds
  <2> QED
    BY <2>1 DEF Ownership, Owned, Holds, DropOnlyWhenTaskLost
<1>3. ASSUME NEW t \in Task, Claim(w, t) PROVE Ownership'
  <2> USE <1>3 DEF Claim, Goto, history
  <2>1. \A s \in Task : s # t => owner'[s] = owner[s]
    OBVIOUS
  <2>2. \A v \in Worker : Owned(v, t)' /\ ~Owned(v, t)
    BY DEF Owned, OneKey, Free, Lost
  <2>3. \A v \in Worker, s \in Task : Owned(v, s) => Owned(v, s)'
    BY <2>1, <2>2 DEF Owned
  <2>4. owner[t] # Lost
    BY DEF Free, Lost
  <2>5. \A s \in Task : owner[s] = Lost => owner'[s] = Lost
    BY <2>1, <2>4
  <2>6. \A v \in Worker : pc'[v] = "barred" => cur[v] \in Page /\ owner'[TaskOf[cur'[v]]] = Lost
    BY <2>5 DEF Ownership, Flushing, Reposts
  <2>7. \A v \in Worker : pc'[v] \in {"crawl", "submit", "shelve"} =>
            task'[v] \in Task /\ Owned(v, task[v])'
    BY <2>2, <2>3 DEF Ownership, Holds, Owned
  <2>8. DropOnlyWhenTaskLost'
    BY <2>5 DEF Ownership, DropOnlyWhenTaskLost
  <2> QED
    BY <2>3, <2>6, <2>7, <2>8 DEF Ownership, Owned, Holds
<1> QED
  BY <1>1, <1>2, <1>3

LEMMA LoseTaskOwnership ==
    ASSUME DropInv, NEW t \in Task, LoseTask(t)
    PROVE  Ownership'
BY ConstantsType DEF DropInv, Inv, TypeOK, LoseTask, history, Ownership, Owned, Holds,
    Flushing, Reposts, DropOnlyWhenTaskLost

LEMMA NextDropInv ==
    ASSUME OneKey, PlainTexts, DropInv, [Next]_vars
    PROVE  DropInv'
<1>1. CASE UNCHANGED vars
  BY <1>1, NextInv DEF vars, DropInv, Ownership, Owned, Holds, DropOnlyWhenTaskLost
<1>2. CASE Next
  BY <1>2, NextInv, CrawlOwnership, FlushOwnership, OtherOwnership, LoseTaskOwnership
     DEF Next, DropInv
<1> QED
  BY <1>1, <1>2

\* Where the workers that share a spool directory share their key, and no
\* transport error happens to contain one of the markers, flush gives a page
\* up only when its task is gone or reassigned (page_spool.py:94).
THEOREM DropOnlyWhenTaskLostHolds ==
    ASSUME OneKey, PlainTexts
    PROVE  SafeSpec => []DropOnlyWhenTaskLost
<1>1. Init => DropInv
  BY InitInv, InitOwnership DEF DropInv
<1>2. DropInv /\ [Next]_vars => DropInv'
  BY NextDropInv
<1>3. DropInv => DropOnlyWhenTaskLost
  BY DEF DropInv, Ownership
<1> QED
  BY <1>1, <1>2, <1>3, PTL DEF SafeSpec
=============================================================================
