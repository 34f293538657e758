-------------------------- MODULE PageCustodyProofs --------------------------
(***************************************************************************)
(* PageSpool implements PageCustody, for every number of workers, claims   *)
(* and pages, where the workers share their key and no transport error's   *)
(* text has a marker in it.                                                *)
(***************************************************************************)
EXTENDS PageSpoolProofs

LostTasks == {t \in Task : owner[t] = Lost}

\* Place, one case at a time.
LEMMA PlaceCases ==
    ASSUME NEW p \in Page
    PROVE  /\ OnDisk(p) => Place(p) = "disk"
           /\ ~OnDisk(p) /\ outcome[p] = "new" => Place(p) = "site"
           /\ ~OnDisk(p) /\ outcome[p] = "held" => Place(p) = "memory"
           /\ Over(p) /\ Received(p) => Place(p) = "server"
           /\ Over(p) /\ ~Received(p) /\ p \in dropped => Place(p) = "dropped"
           /\ Over(p) /\ ~Received(p) /\ p \in unread \ dropped => Place(p) = "unreadable"
           /\ Over(p) /\ ~Received(p) /\ p \notin unread \cup dropped => Place(p) = "lost"
BY DEF Place, Over

\* What a page's place depends on.
LEMMA SamePlace ==
    ASSUME NEW p \in Page, outcome'[p] = outcome[p], (OnDisk(p))' <=> OnDisk(p),
           (Received(p))' <=> Received(p), p \in dropped' <=> p \in dropped,
           p \in unread' <=> p \in unread
    PROVE  Place(p)' = Place(p)
BY DEF Place, Over

\* The places that one page can go to from one place.
Goes(p) ==
    \/ Place(p)' = Place(p)
    \/ Place(p) = "site" /\ Place(p)' = "memory"
    \/ Place(p) = "memory" /\ Place(p)' \in {"disk", "server", "lost"}
    \/ Place(p) = "disk" /\ Place(p)' \in {"server", "unreadable"}
    \/ Place(p) = "disk" /\ Place(p)' = "dropped" /\ owner[TaskOf[p]] = Lost

\* When one page goes and the others stay, PageCustody makes a step.
LEMMA OneGoes ==
    ASSUME ConstantsType, NEW p \in Page, Goes(p), owner' = owner,
           \A q \in Page : q # p => Place(q)' = Place(q)
    PROVE  [Custodian!Next]_(Custodian!vars)
<1> DEFINE place == [q \in Page |-> Place(q)]
<1>1. place' = [place EXCEPT ![p] = Place(p)']
  OBVIOUS
<1>2. LostTasks' = LostTasks
  BY DEF LostTasks
<1>3. place[p] = Place(p)
  OBVIOUS
<1>4. CASE Place(p)' = Place(p)
  <2>1. place' = place
    BY <1>1, <1>4
  <2> QED
    BY <1>2, <2>1 DEF Custodian!vars, LostTasks
<1>5. CASE Place(p) = "site" /\ Place(p)' = "memory"
  <2>1. Custodian!Fetch(p)
    BY <1>1, <1>2, <1>3, <1>5 DEF Custodian!Fetch, Custodian!Move, LostTasks
  <2> QED
    BY <2>1 DEF Custodian!Next
<1>6. CASE Place(p) = "memory" /\ Place(p)' = "disk"
  <2>1. Custodian!Shelve(p)
    BY <1>1, <1>2, <1>3, <1>6 DEF Custodian!Shelve, Custodian!Move, LostTasks
  <2> QED
    BY <2>1 DEF Custodian!Next
<1>7. CASE Place(p) \in {"memory", "disk"} /\ Place(p)' = "server"
  <2>1. Custodian!Settle(p)
    BY <1>1, <1>2, <1>3, <1>7 DEF Custodian!Settle, Custodian!Move, LostTasks
  <2> QED
    BY <2>1 DEF Custodian!Next
<1>8. CASE Place(p) = "memory" /\ Place(p)' = "lost"
  <2>1. Custodian!Lose(p)
    BY <1>1, <1>2, <1>3, <1>8 DEF Custodian!Lose, Custodian!Move, LostTasks
  <2> QED
    BY <2>1 DEF Custodian!Next
<1>9. CASE Place(p) = "disk" /\ Place(p)' = "dropped" /\ owner[TaskOf[p]] = Lost
  <2>1. Custodian!Drop(p)
    BY <1>1, <1>2, <1>3, <1>9 DEF Custodian!Drop, Custodian!Move, LostTasks, ConstantsType
  <2> QED
    BY <2>1 DEF Custodian!Next
<1>10. CASE Place(p) = "disk" /\ Place(p)' = "unreadable"
  <2>1. Custodian!Spoil(p)
    BY <1>1, <1>2, <1>3, <1>10 DEF Custodian!Spoil, Custodian!Move, LostTasks
  <2> QED
    BY <2>1 DEF Custodian!Next
<1> QED
  BY <1>4, <1>5, <1>6, <1>7, <1>8, <1>9, <1>10 DEF Goes

----------------------------------------------------------------------------
\* Steps of worker w that concern page p, and no other.
Concerns(w, p) ==
    /\ owner' = owner
    /\ \A v \in Worker : v # w => pc'[v] = pc[v] /\ cur'[v] = cur[v]
    /\ pc[w] = "post" => cur[w] = p
    /\ pc'[w] = "post" => cur'[w] = p
    /\ \A q \in Page : q # p =>
        /\ outcome'[q] = outcome[q]
        /\ q \in spool' <=> q \in spool
        /\ q \in stored' <=> q \in stored
        /\ q \in refused' <=> q \in refused
        /\ q \in dropped' <=> q \in dropped
        /\ q \in unread' <=> q \in unread

LEMMA ConcernedGoes ==
    ASSUME ConstantsType, NEW w \in Worker, NEW p \in Page, Concerns(w, p), Goes(p)
    PROVE  [Custodian!Next]_(Custodian!vars)
<1>1. ASSUME NEW q \in Page, q # p PROVE Place(q)' = Place(q)
  <2>1. (OnDisk(q))' <=> OnDisk(q)
    BY <1>1 DEF Concerns, OnDisk
  <2>2. (Received(q))' <=> Received(q)
    BY <1>1 DEF Concerns, Received
  <2> QED
    BY <1>1, <2>1, <2>2, SamePlace DEF Concerns
<1> QED
  BY <1>1, OneGoes DEF Concerns

\* Steps that concern no page.
LEMMA NoneGoes ==
    ASSUME UNCHANGED <<spool, outcome, stored, refused, dropped, unread>>,
           \A v \in Worker, q \in Page :
               (pc'[v] = "post" /\ cur'[v] = q) <=> (pc[v] = "post" /\ cur[v] = q),
           LostTasks' = LostTasks
    PROVE  UNCHANGED Custodian!vars
<1>1. ASSUME NEW q \in Page PROVE Place(q)' = Place(q)
  <2>1. (OnDisk(q))' <=> OnDisk(q)
    BY DEF OnDisk
  <2>2. (Received(q))' <=> Received(q)
    BY DEF Received
  <2> QED
    BY <2>1, <2>2, SamePlace
<1> QED
  BY <1>1 DEF Custodian!vars, LostTasks

\* A page of a crawl has no copy on disk.
LEMMA HeldOffDisk ==
    ASSUME Inv, NEW p \in Page, outcome[p] # "spooled"
    PROVE  ~OnDisk(p)
BY DEF Inv, Flushing, Reposts, OnDisk

\* A spooled page leaves the disk for the server, or with an unreadable file,
\* or because it was given up, and does not move again.
LEMMA SpooledGoes ==
    ASSUME NEW p \in Page, outcome[p] = "spooled", outcome'[p] = "spooled",
           (OnDisk(p))' => OnDisk(p),
           ~OnDisk(p) => /\ (Received(p))' <=> Received(p)
                         /\ p \in dropped' <=> p \in dropped
                         /\ p \in unread' <=> p \in unread,
           Custody',
           p \in dropped' => owner[TaskOf[p]] = Lost
    PROVE  Goes(p)
<1>1. CASE (OnDisk(p))' /\ OnDisk(p)
  BY <1>1 DEF Place, Goes
<1>2. CASE ~(OnDisk(p))' /\ OnDisk(p)
  <2>1. Place(p) = "disk"
    BY <1>2, PlaceCases
  <2>2. p \notin spool'
    BY <1>2 DEF OnDisk
  <2>3. p \in stored' \cup refused' \cup dropped' \cup unread'
    BY <2>2 DEF Custody
  <2>4. Place(p)' \in {"server", "unreadable"} \/ (Place(p)' = "dropped" /\ p \in dropped')
    BY <1>2, <2>3 DEF Place, Over, Received
  <2> QED
    BY <2>1, <2>4 DEF Goes
<1>3. CASE ~(OnDisk(p))' /\ ~OnDisk(p)
  BY <1>3, SamePlace DEF Goes
<1> QED
  BY <1>1, <1>2, <1>3

----------------------------------------------------------------------------
LEMMA CrawlCustody ==
    ASSUME Inv, Inv', NEW w \in Worker, CrawlStep(w)
    PROVE  [Custodian!Next]_(Custodian!vars)
<1> USE ConstantsType DEF Inv, TypeOK
<1>1. ASSUME NEW p \in Page, Hand(w, p) PROVE [Custodian!Next]_(Custodian!vars)
  <2> USE <1>1 DEF Hand, Goto, server, history
  <2>1. Concerns(w, p)
    BY DEF Concerns
  <2>2. Place(p) = "site"
    BY HeldOffDisk, PlaceCases
  <2>3. outcome'[p] = "held" /\ ~(OnDisk(p))'
    <3>1. outcome'[p] = "held"
      OBVIOUS
    <3> QED
      BY <3>1 DEF OnDisk, Flushing, Reposts
  <2>4. Place(p)' = "memory"
    BY <2>3 DEF Place, Over
  <2> QED
    BY <2>1, <2>2, <2>4, ConcernedGoes DEF Goes
<1>2. ASSUME NEW p \in Page, Holds(w), cur[w] = p, owner' = owner,
             \A v \in Worker : v # w => pc'[v] = pc[v] /\ cur'[v] = cur[v],
             pc'[w] # "post", dropped' = dropped, unread' = unread, stored \subseteq stored', refused \subseteq refused',
             \A q \in Page : q # p =>
                 /\ outcome'[q] = outcome[q]
                 /\ q \in spool' <=> q \in spool
                 /\ q \in stored' <=> q \in stored
                 /\ q \in refused' <=> q \in refused,
             \/ outcome'[p] = "held"
             \/ outcome'[p] \in {"saved", "rejected", "unspooled"}
             \/ outcome'[p] = "spooled" /\ p \in spool'
      PROVE  [Custodian!Next]_(Custodian!vars)
  <2>1. outcome[p] = "held"
    BY <1>2 DEF Holding
  <2>2. Concerns(w, p)
    BY <1>2 DEF Concerns, Holds
  <2>3. Place(p) = "memory"
    BY <2>1, HeldOffDisk, PlaceCases
  <2>4. Place(p)' \in {"memory", "disk", "server", "lost"}
    <3>1. CASE outcome'[p] = "held"
      <4>1. ~(OnDisk(p))'
        BY <2>1, <3>1 DEF OnDisk, Flushing, Reposts
      <4> QED
        BY <3>1, <4>1 DEF Place, Over
    <3>2. CASE outcome'[p] \in {"saved", "rejected", "unspooled"}
      <4>1. p \notin dropped' \cup unread'
        BY <1>2, <2>1 DEF Flushing
      <4> QED
        BY <3>2, <4>1 DEF Place, Over
    <3>3. CASE outcome'[p] = "spooled" /\ p \in spool'
      <4>1. (OnDisk(p))'
        BY <3>3 DEF OnDisk
      <4> QED
        BY <4>1 DEF Place, Over
    <3> QED
      BY <1>2, <3>1, <3>2, <3>3
  <2>5. Goes(p)
    BY <2>3, <2>4 DEF Goes
  <2> QED
    BY <2>1, <2>2, <2>5, ConcernedGoes
<1>3. ASSUME SubmitAnswered(w) PROVE [Custodian!Next]_(Custodian!vars)
  <2>1. cur[w] \in Page
    BY <1>3 DEF SubmitAnswered, Holding, Holds
  <2> QED
    BY <1>2, <1>3, <2>1 DEF SubmitAnswered, PageDone, Goto, Receive, Verdict, Holds, history
<1>4. ASSUME SubmitFails(w) PROVE [Custodian!Next]_(Custodian!vars)
  <2>1. cur[w] \in Page /\ outcome[cur[w]] = "held"
    BY <1>4 DEF SubmitFails, Holding, Holds
  <2>2. /\ owner' = owner /\ stored \subseteq stored' /\ refused \subseteq refused'
        /\ \A q \in Page : q # cur[w] =>
               /\ q \in stored' <=> q \in stored
               /\ q \in refused' <=> q \in refused
    BY <1>4 DEF SubmitFails, NoVerdict, MaybeReceive, Receive, Disowned, server
  <2> QED
    BY <1>2, <1>4, <2>1, <2>2 DEF SubmitFails, Goto, Holds, history
<1>5. ASSUME Shelve(w) PROVE [Custodian!Next]_(Custodian!vars)
  <2>1. cur[w] \in Page
    BY <1>5 DEF Shelve, Holding, Holds
  <2> QED
    BY <1>2, <1>5, <2>1 DEF Shelve, PageDone, Goto, Holds, server, history
<1>6. ASSUME ShelveFails(w) PROVE [Custodian!Next]_(Custodian!vars)
  <2>1. cur[w] \in Page
    BY <1>6 DEF ShelveFails, Holding, Holds
  <2> QED
    BY <1>2, <1>6, <2>1 DEF ShelveFails, PageDone, Goto, Holds, server, history
<1>7. ASSUME EndTask(w) PROVE [Custodian!Next]_(Custodian!vars)
  BY <1>7, NoneGoes DEF EndTask, Goto, server, history, LostTasks
<1> QED
  BY <1>1, <1>3, <1>4, <1>5, <1>6, <1>7 DEF CrawlStep

\* One page of a flush.
LEMMA FlushedGoes ==
    ASSUME Inv, Custody', DropOnlyWhenTaskLost', NEW w \in Worker, NEW p \in Page,
           outcome[p] = "spooled", UNCHANGED <<outcome, owner>>, dropped \subseteq dropped',
           \A v \in Worker : v # w => pc'[v] = pc[v] /\ cur'[v] = cur[v],
           pc[w] = "post" => cur[w] = p,
           pc'[w] = "post" => cur'[w] = p /\ p \in spool,
           spool' \subseteq spool, spool \subseteq spool' \cup {p},
           ~OnDisk(p) => UNCHANGED <<stored, refused, dropped, unread>>,
           \A q \in Page : q # p =>
               /\ q \in stored' <=> q \in stored
               /\ q \in refused' <=> q \in refused
               /\ q \in dropped' <=> q \in dropped
               /\ q \in unread' <=> q \in unread
    PROVE  [Custodian!Next]_(Custodian!vars)
<1>1. Concerns(w, p)
  BY DEF Concerns
<1>2. (OnDisk(p))' => OnDisk(p)
  BY DEF OnDisk
<1>3. ~OnDisk(p) => /\ (Received(p))' <=> Received(p)
                    /\ p \in dropped' <=> p \in dropped
                    /\ p \in unread' <=> p \in unread
  BY DEF Received
<1>4. Goes(p)
  BY <1>2, <1>3, SpooledGoes DEF DropOnlyWhenTaskLost
<1> QED
  BY <1>1, <1>4, ConcernedGoes, ConstantsType

LEMMA FlushCustody ==
    ASSUME Inv, Custody', DropOnlyWhenTaskLost', NEW w \in Worker, FlushStep(w)
    PROVE  [Custodian!Next]_(Custodian!vars)
<1> USE ConstantsType DEF Inv, TypeOK
<1>1. ASSUME NEW p \in Page, FlushOpen(w, p) PROVE [Custodian!Next]_(Custodian!vars)
  <2>1. outcome[p] = "spooled"
    BY <1>1 DEF FlushOpen, Flushing
  <2> QED
    BY <1>1, <2>1, FlushedGoes DEF FlushOpen, Goto, server, history
<1>2. ASSUME NEW p \in Page, FlushUnreadable(w, p) PROVE [Custodian!Next]_(Custodian!vars)
  <2>1. outcome[p] = "spooled" /\ OnDisk(p)
    BY <1>2 DEF FlushUnreadable, Flushing, OnDisk
  <2> QED
    BY <1>2, <2>1, FlushedGoes DEF FlushUnreadable, server
<1>3. ASSUME NEW p \in Page, PostAnswered(w, p) PROVE [Custodian!Next]_(Custodian!vars)
  <2>1. outcome[p] = "spooled" /\ OnDisk(p)
    BY <1>3 DEF PostAnswered, Flushing, Reposts, OnDisk
  <2> QED
    BY <1>3, <2>1, FlushedGoes DEF PostAnswered, Goto, Receive, history
<1>4. ASSUME NEW text, pc[w] = "post", GiveUpOrKeep(w, text),
             NoVerdict(w, cur[w], text) \/ Disowned(w, cur[w], text)
      PROVE  [Custodian!Next]_(Custodian!vars)
  <2>1. cur[w] \in Page /\ outcome[cur[w]] = "spooled" /\ OnDisk(cur[w])
    BY <1>4 DEF Flushing, Reposts, OnDisk
  <2>2. /\ owner' = owner
        /\ \A q \in Page : q # cur[w] =>
               /\ q \in stored' <=> q \in stored
               /\ q \in refused' <=> q \in refused
    BY <1>4 DEF NoVerdict, MaybeReceive, Receive, Disowned, server
  <2>3. /\ UNCHANGED <<spool, outcome, dropped, unread>>
        /\ pc'[w] # "post"
        /\ \A v \in Worker : v # w => pc'[v] = pc[v] /\ cur'[v] = cur[v]
    BY <1>4 DEF GiveUpOrKeep, Goto, history
  <2> QED
    BY <2>1, <2>2, <2>3, FlushedGoes
<1>5. ASSUME NEW p \in Page, PostDisowned(w, p) PROVE [Custodian!Next]_(Custodian!vars)
  BY <1>4, <1>5 DEF PostDisowned
<1>6. ASSUME PostFails(w) PROVE [Custodian!Next]_(Custodian!vars)
  BY <1>4, <1>6 DEF PostFails
<1>7. ASSUME FlushRecovered(w) PROVE [Custodian!Next]_(Custodian!vars)
  <2>1. cur[w] \in Page /\ outcome[cur[w]] = "spooled"
    BY <1>7 DEF FlushRecovered, Flushing, Reposts
  <2> QED
    BY <1>7, <2>1, FlushedGoes DEF FlushRecovered, RemoveFile, Goto, server
<1>8. ASSUME FlushDropped(w) PROVE [Custodian!Next]_(Custodian!vars)
  <2>1. cur[w] \in Page /\ outcome[cur[w]] = "spooled"
    BY <1>8 DEF FlushDropped, Flushing, Reposts
  <2>2. ~OnDisk(cur[w]) => dropped' = dropped
    BY <1>8 DEF FlushDropped, OnDisk
  <2> QED
    BY <1>8, <2>1, <2>2, FlushedGoes DEF FlushDropped, RemoveFile, Goto, server
<1>9. ASSUME FlushEnd(w) PROVE [Custodian!Next]_(Custodian!vars)
  BY <1>9, NoneGoes DEF FlushEnd, Goto, server, history, LostTasks
<1> QED
  BY <1>1, <1>2, <1>3, <1>5, <1>6, <1>7, <1>8, <1>9 DEF FlushStep

\* A crash costs the page in the worker's memory, and no other: what it was
\* re-posting is still on disk or has been received.
LEMMA CrashCustody ==
    ASSUME Inv, Custody', DropOnlyWhenTaskLost', NEW w \in Worker, Crash(w)
    PROVE  [Custodian!Next]_(Custodian!vars)
<1> USE ConstantsType DEF Inv, TypeOK
<1> USE Crash(w) DEF Crash, Goto, server
<1>1. ASSUME NEW p \in Page, Holds(w), cur[w] = p PROVE [Custodian!Next]_(Custodian!vars)
  <2>1. outcome[p] = "held" /\ outcome'[p] = "abandoned" /\ p \notin dropped' \cup unread'
    BY <1>1 DEF Holding, Holds, Flushing
  <2>2. Concerns(w, p)
    BY <1>1 DEF Concerns, Holds
  <2>3. Place(p) = "memory"
    BY <2>1, HeldOffDisk, PlaceCases
  <2>4. ~(OnDisk(p))'
    BY <2>1 DEF OnDisk, Flushing, Reposts
  <2>5. Place(p)' \in {"server", "lost"}
    BY <2>1, <2>4 DEF Place, Over
  <2> QED
    BY <2>2, <2>3, <2>5, ConcernedGoes DEF Goes
<1>2. ASSUME NEW p \in Page, pc[w] = "post", cur[w] = p PROVE [Custodian!Next]_(Custodian!vars)
  <2>1. outcome[p] = "spooled"
    BY <1>2 DEF Flushing, Reposts
  <2>2. outcome' = outcome
    BY <1>2
  <2> QED
    BY <1>2, <2>1, <2>2, FlushedGoes
<1>3. ASSUME ~Holds(w), pc[w] # "post" PROVE [Custodian!Next]_(Custodian!vars)
  <2>1. outcome' = outcome
    BY <1>3 DEF Holds
  <2> QED
    BY <1>3, <2>1, NoneGoes DEF LostTasks
<1>4. Holds(w) \/ pc[w] = "post" => cur[w] \in Page
  BY DEF Holding, Flushing, Reposts
<1> QED
  BY <1>1, <1>2, <1>3, <1>4

LEMMA ClaimCustody ==
    ASSUME Inv, NEW w \in Worker, NEW t \in Task, Claim(w, t)
    PROVE  [Custodian!Next]_(Custodian!vars)
<1> USE ConstantsType, KeyNames DEF Inv, TypeOK, Claim, Goto, history
<1>1. KeyOf[w] # Lost
  BY ConstantsType, KeyNames
<1>2. Free # Lost
  BY DEF Free, Lost
<1>3. owner'[t] # Lost /\ owner[t] # Lost
  BY <1>1, <1>2
<1>4. \A s \in Task : owner'[s] = Lost <=> owner[s] = Lost
  BY <1>3
<1>5. LostTasks' = LostTasks
  BY <1>4 DEF LostTasks
<1> QED
  BY <1>5, NoneGoes

LEMMA FlushStartCustody ==
    ASSUME Inv, NEW w \in Worker, FlushStart(w)
    PROVE  [Custodian!Next]_(Custodian!vars)
BY NoneGoes DEF Inv, TypeOK, FlushStart, Goto, server, history, LostTasks

LEMMA LoseTaskCustody ==
    ASSUME Inv, NEW t \in Task, LoseTask(t)
    PROVE  [Custodian!Next]_(Custodian!vars)
<1> USE ConstantsType DEF Inv, TypeOK, LoseTask, history
<1>1. ASSUME NEW q \in Page PROVE Place(q)' = Place(q)
  BY DEF Place, Over, OnDisk, Received
<1>2. LostTasks' = LostTasks \cup {t}
  BY DEF LostTasks
<1>3. Custodian!LoseTask(t)
  BY <1>1, <1>2 DEF Custodian!LoseTask, LostTasks
<1> QED
  BY <1>3 DEF Custodian!Next

LEMMA NextCustody ==
    ASSUME Inv, Inv', DropOnlyWhenTaskLost', [Next]_vars
    PROVE  [Custodian!Next]_(Custodian!vars)
<1>1. CASE UNCHANGED vars
  BY <1>1, NoneGoes DEF vars, LostTasks
<1> QED
  BY <1>1, CrawlCustody, FlushCustody, CrashCustody, ClaimCustody, FlushStartCustody,
     LoseTaskCustody DEF Next, Inv

LEMMA InitCustody == Init => Custodian!Init
<1> SUFFICES ASSUME Init PROVE Custodian!Init
  OBVIOUS
<1>1. ASSUME NEW p \in Page PROVE Place(p) = "site"
  BY <1>1 DEF Init, Place, OnDisk, Over
<1>2. LostTasks = {}
  BY DEF Init, LostTasks, Free, Lost
<1> QED
  BY <1>1, <1>2 DEF Custodian!Init, LostTasks

\* Every behaviour of the page path is one of PageCustody: a page is in one
\* place at a time, comes back from nowhere, and leaves the disk only for the
\* server, or with a file that cannot be read, or given up because its task is
\* lost (page_spool.py:45-101), where the workers share a key and no transport
\* error's text has a marker in it.
THEOREM Refinement ==
    ASSUME OneKey, PlainTexts
    PROVE  SafeSpec => KeepsCustody
<1>1. Init => DropInv
  BY InitInv, InitOwnership DEF DropInv
<1>2. DropInv /\ [Next]_vars => DropInv'
  BY NextDropInv
<1>3. DropInv /\ DropInv' /\ [Next]_vars => [Custodian!Next]_(Custodian!vars)
  BY NextCustody DEF DropInv, Ownership
<1> QED
  BY <1>1, <1>2, <1>3, InitCustody, PTL DEF SafeSpec, KeepsCustody, Custodian!Spec
=============================================================================
