--------------------------- MODULE RolloutProofs ----------------------------
(***************************************************************************)
(* Theorems about SelfUpdate and about Rollout, for any number of          *)
(* overlapping runs, any commits of which any do not build, and any amount *)
(* of trouble.                                                             *)
(***************************************************************************)
EXTENDS Rollout, TransportProofs

----------------------------------------------------------------------------
\* SelfUpdate.

\* What a run builds has been checked out.
Building == \A r \in Run : tree[r] \in 0 .. head /\ (step[r] = "rebuild" => tree[r] # 0)

\* Containers of the newest commit are of the newest image, unless an older
\* build has ended since.
Newest == live = head => image = head \/ head \in slipped

UpdateInv == UpdateTypeOK /\ Building /\ Newest /\ NothingForgotten

\* The invariant holds after the first bootstrap.
LEMMA UpdateInitInv == UpdateInit => UpdateInv
<1> SUFFICES ASSUME UpdateInit PROVE UpdateInv
  OBVIOUS
<1>1. broken \subseteq 1 .. MaxCommit /\ 0 \notin broken
  BY UpdateConstants DEF UpdateInit
<1>2. UpdateTypeOK
  BY <1>1, UpdateConstants DEF UpdateInit, UpdateTypeOK, Commits
<1>3. Building /\ Newest /\ NothingForgotten
  BY DEF UpdateInit, Building, Newest, NothingForgotten
<1> QED
  BY <1>2, <1>3 DEF UpdateInv

\* A run that ends leaves the others as they are.
LEMMA Ended ==
    ASSUME UpdateInv, NEW r \in Run, NEW from, End(r, from)
    PROVE  /\ step[r] = from
           /\ UNCHANGED <<broken, upstream, head, file, trouble>>
           /\ step' \in [Run -> {"off", "rebuild", "ensure"}]
           /\ tree' \in [Run -> Commits]
           /\ want' \in [Run -> Scales]
           /\ \A q \in Run : q = r \/ (step'[q] = step[q] /\ tree'[q] = tree[q])
           /\ step'[r] = "off" /\ tree'[r] = 0
           /\ Building'
  BY UpdateConstants DEF End, UpdateInv, UpdateTypeOK, Commits, Building

\* The commit a run builds, and those its end may spoil.
LEMMA Built ==
    ASSUME UpdateInv, NEW r \in Run, step[r] = "rebuild"
    PROVE  /\ tree[r] \in 1 .. head
           /\ Spoilt(tree[r]) \subseteq 1 .. head
           /\ head \in Nat /\ 0 \notin broken /\ image \in 0 .. head /\ live \in 0 .. head
  BY UpdateConstants DEF UpdateInv, UpdateTypeOK, Building, Spoilt, Commits

\* Every step of cron, of the operator and of the node keeps the invariant.
LEMMA UpdateStepInv ==
    ASSUME UpdateInv, [UpdateNext]_uvars
    PROVE  UpdateInv'
<1> USE DEF UpdateInv, UpdateTypeOK, Building, Newest, NothingForgotten, containers
<1>1. CASE Push
  BY <1>1, UpdateConstants DEF Push, Commits
<1>2. ASSUME NEW r \in Run, PullNew(r)
      PROVE  UpdateInv'
  BY <1>2, UpdateConstants DEF PullNew, Start, Commits
<1>3. ASSUME NEW r \in Run, PullNothing(r)
      PROVE  UpdateInv'
  BY <1>3, UpdateConstants DEF PullNothing, Start, Commits
<1>4. ASSUME NEW r \in Run, RebuildOk(r)
      PROVE  UpdateInv'
  BY <1>4, Ended, Built DEF RebuildOk, ComposeUp, Overtaken
<1>5. ASSUME NEW r \in Run, RebuildFails(r)
      PROVE  UpdateInv'
  <2>1. /\ step[r] = "rebuild" /\ UNCHANGED <<broken, upstream, head, file, trouble, live, up>>
        /\ image' = image \/ (image' = tree[r] /\ tree[r] \notin broken)
        /\ slipped' = slipped \cup Spoilt(tree[r]) \cup Overtaken
        /\ step' \in [Run -> {"off", "rebuild", "ensure"}]
        /\ tree' \in [Run -> Commits] /\ want' \in [Run -> Scales]
        /\ \A q \in Run : q = r \/ (step'[q] = step[q] /\ tree'[q] = tree[q])
        /\ Building'
    BY <1>5, Ended DEF RebuildFails, Spoilt
  <2>2. /\ tree[r] \in 1 .. head
        /\ Spoilt(tree[r]) \subseteq 1 .. head
        /\ head \in Nat /\ 0 \notin broken /\ image \in 0 .. head /\ live \in 0 .. head
    BY <2>1, Built
  <2>3. image' \in (0 .. head) \ broken /\ Overtaken \subseteq 1 .. head
    BY <2>1, <2>2 DEF Overtaken
  <2>4. UpdateTypeOK'
    BY <2>1, <2>2, <2>3
  <2>5. Newest'
    BY <2>1, <2>2 DEF Overtaken
  <2>6. NothingForgotten'
    <3>1. CASE tree[r] = head
      BY <2>1, <3>1 DEF Spoilt
    <3>2. CASE tree[r] # head
      BY <2>1, <3>2
    <3> QED
      BY <3>1, <3>2
  <2> QED
    BY <2>1, <2>4, <2>5, <2>6
<1>6. ASSUME NEW r \in Run, EnsureOk(r)
      PROVE  UpdateInv'
  BY <1>6, Ended DEF EnsureOk, ComposeUp
<1>7. ASSUME NEW r \in Run, EnsureFails(r)
      PROVE  UpdateInv'
  BY <1>7, Ended DEF EnsureFails
<1>8. ASSUME NEW n \in Scales
      PROVE  /\ SetReplicas(n) => UpdateInv'
             /\ Bootstrap(n) => UpdateInv'
  <2>1. CASE SetReplicas(n)
    BY <1>8, <2>1, UpdateConstants DEF SetReplicas, Happens
  <2>2. CASE Bootstrap(n)
    BY <1>8, <2>2, UpdateConstants DEF Bootstrap, ComposeUp, Happens
  <2> QED
    BY <2>1, <2>2
<1>9. CASE PowerCut
  <2>1. /\ UNCHANGED <<broken, upstream, head, image, live, up, file>>
        /\ trouble' \in 0 .. MaxTrouble
        /\ step' = [r \in Run |-> "off"]
        /\ tree' = [r \in Run |-> 0]
        /\ want' = [r \in Run |-> 1]
        /\ slipped' = slipped \cup UNION {Spoilt(tree[r]) : r \in {q \in Run : step[q] = "rebuild"}}
    BY <1>9, UpdateConstants DEF PowerCut, Happens
  <2>2. \A c : c \in slipped' <=>
               c \in slipped \/ \E r \in Run : step[r] = "rebuild" /\ c \in Spoilt(tree[r])
    BY <2>1
  <2>3. \A r \in Run : step[r] = "rebuild" => Spoilt(tree[r]) \subseteq 1 .. head
    BY Built
  <2>4. slipped' \subseteq 1 .. head
    BY <2>2, <2>3
  <2>5. UpdateTypeOK' /\ Building' /\ Newest'
    BY <2>1, <2>2, <2>4, UpdateConstants DEF Commits
  <2>6. NothingForgotten'
    BY <2>1, <2>2 DEF Spoilt
  <2> QED
    BY <2>5, <2>6
<1>10. CASE Stopped
  BY <1>10, UpdateConstants DEF Stopped, Happens
<1>11. CASE UNCHANGED uvars
  BY <1>11 DEF uvars
<1> QED
  BY <1>1, <1>2, <1>3, <1>4, <1>5, <1>6, <1>7, <1>8, <1>9, <1>10, <1>11
  DEF UpdateNext, Trouble, CronStep

\* The invariant of the node, however many runs overlap (self-update.sh:25-44).
THEOREM UpdateInvariance == UpdateSpec => []UpdateInv
BY UpdateInitInv, UpdateStepInv, PTL DEF UpdateSpec

\* Every variable of the node keeps its type: image and containers are of a
\* commit that is checked out and builds, for any commits that do not
\* (self-update.sh:33, bootstrap.sh).
THEOREM UpdateTypeCorrect == UpdateSpec => []UpdateTypeOK
BY UpdateInvariance, PTL DEF UpdateInv

\* New code that is checked out and builds is running, is about to be built, or
\* its one rebuild was spoilt (self-update.sh:25-40).
THEOREM NothingForgottenHolds == UpdateSpec => []NothingForgotten
BY UpdateInvariance, PTL DEF UpdateInv

----------------------------------------------------------------------------
\* Rollout.

\* Each of its steps is one of the worker's transport, or of the node, or of both.
LEMMA StepOfBoth ==
    ASSUME [Next]_vars
    PROVE  [TransportNext]_tvars /\ [UpdateNext]_uvars
<1>1. CASE CallStep \/ ProcessRestart \/ ServerStep
  BY <1>1 DEF CallStep, ProcessRestart, ServerStep, TransportNext
<1>2. CASE NodeStep
  <2>1. UpdateNext
    BY <1>2 DEF NodeStep, UpdateNext
  <2>2. StartProcess \/ UNCHANGED tvars
    BY <1>2 DEF NodeStep
  <2> QED
    BY <2>1, <2>2 DEF TransportNext
<1>3. CASE UNCHANGED vars
  BY <1>3 DEF vars
<1> QED
  BY <1>1, <1>2, <1>3 DEF Next

\* The composition is both its parts: replacing, stopping and starting containers
\* (self-update.sh, bootstrap.sh) does to the client (client.py) nothing that
\* restarts of its process do not, and the node is as it is without the client,
\* its fairness included, so that what TLC finds of SelfUpdate holds here.
THEOREM Composition == Spec => TransportSafeSpec /\ UpdateSpec
<1>1. Init => TransportInit /\ UpdateInit
  BY DEF Init
<1> QED
  BY <1>1, StepOfBoth, PTL DEF Spec, Fairness, TransportSafeSpec, UpdateSpec

\* Every variable of process, server and node keeps its type.
THEOREM RolloutTypeCorrect == Spec => []TypeOK
<1>1. TransportTypeOK /\ UpdateTypeOK => TypeOK
  BY DEF TypeOK
<1> QED
  BY <1>1, Composition, TypeCorrect, UpdateTypeCorrect, PTL

\* Whatever self-update does to the container, a process that has been refused
\* the compressed route once does not ask for it again (client.py:140-146).
THEOREM RolloutOneRefusal == Spec => []OneRefusal
BY Composition, OneRefusalHolds, PTL

\* Whatever self-update does to the container, submit_page is one request to its
\* caller (client.py:124-153).
THEOREM RolloutOneRequestEach == Spec => OneRequestEach
BY Composition, Refinement, PTL
=============================================================================
