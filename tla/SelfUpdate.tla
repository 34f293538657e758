----------------------------- MODULE SelfUpdate -----------------------------
(***************************************************************************)
(* How a node keeps its worker containers on the newest code:              *)
(* self-update.sh, run by cron without a lock, bootstrap.sh, run by an     *)
(* operator, and docker compose, which builds images and starts            *)
(* containers.  A commit is its number in the history of the branch;       *)
(* whether it builds is a matter of the commit, but any build can also     *)
(* fail for a passing reason (network, disk).                              *)
(***************************************************************************)
EXTENDS Naturals

CONSTANTS
    Run,        \* cron runs that can overlap
    MaxCommit,  \* bound: the last commit that is pushed
    BrokenSets, \* which commits can be those whose image does not build
    Scales,     \* worker counts an operator may choose
    MaxTrouble  \* bound: what operators, power and docker do to the node

ASSUME UpdateConstants ==
    /\ MaxCommit \in Nat
    /\ BrokenSets \subseteq SUBSET (1 .. MaxCommit)
    /\ Scales \subseteq Nat \ {0}
    /\ 1 \in Scales
    /\ MaxTrouble \in Nat

VARIABLES
    broken,     \* the commits whose image does not build
    upstream,   \* the newest commit on the server of the repository
    head,       \* the commit checked out on the node
    image,      \* the commit the worker image was built from
    live,       \* the commit of the image the containers were created from
    up,         \* how many worker containers there are
    file,       \* .worker-replicas, 1 if there is none
    step,       \* what each run is at
    tree,       \* the commit the builder was given by a run, 0 if it builds none
    want,       \* the count a run read when it started, 1 if it is off
    trouble,    \* how much has happened to the node
    slipped     \* history: commits whose rebuild was spoilt, and not by the commit

uvars == <<broken, upstream, head, image, live, up, file, step, tree, want, trouble,
           slipped>>

containers == <<image, live, up>>

Commits == 0 .. MaxCommit

UpdateTypeOK ==
    /\ broken \in BrokenSets
    /\ upstream \in Commits
    /\ head \in 0 .. upstream
    /\ image \in (0 .. head) \ broken
    /\ live \in (0 .. head) \ broken
    /\ up \in Scales \cup {0}
    /\ file \in Scales
    /\ step \in [Run -> {"off", "rebuild", "ensure"}]
    /\ tree \in [Run -> Commits]
    /\ want \in [Run -> Scales]
    /\ trouble \in 0 .. MaxTrouble
    /\ slipped \subseteq 1 .. head

\* The node after its first bootstrap.
UpdateInit ==
    /\ broken \in BrokenSets
    /\ upstream = 0
    /\ head = 0
    /\ image = 0
    /\ live = 0
    /\ up \in Scales
    /\ file = 1
    /\ step = [r \in Run |-> "off"]
    /\ tree = [r \in Run |-> 0]
    /\ want = [r \in Run |-> 1]
    /\ trouble = 0
    /\ slipped = {}

Push ==
    /\ upstream < MaxCommit
    /\ upstream' = upstream + 1
    /\ UNCHANGED <<broken, head, containers, file, step, tree, want, trouble, slipped>>

----------------------------------------------------------------------------
\* One run of self-update.sh.

\* Slip: without the file there is no count.
StartWithoutDefault(r, to) ==
    /\ step[r] = "off"
    /\ step' = [step EXCEPT ![r] = to]
    /\ want' = [want EXCEPT ![r] = IF file = 1 THEN 0 ELSE file]
    /\ UNCHANGED <<broken, upstream, containers, file, trouble, slipped>>

\* REPLICAS is read first, 1 if there is no file; then git pull.
Start(r, to) ==
    /\ step[r] = "off"
    /\ step' = [step EXCEPT ![r] = to]
    /\ want' = [want EXCEPT ![r] = file]
    /\ UNCHANGED <<broken, upstream, containers, file, trouble, slipped>>

\* Slip: HEAD is read once, after the pull, so that nothing ever seems new.
PullUnnoticed(r) ==
    /\ upstream # head
    /\ Start(r, "ensure")
    /\ head' = upstream
    /\ UNCHANGED tree

\* The pull brings something new.
PullNew(r) ==
    /\ upstream # head
    /\ Start(r, "rebuild")
    /\ head' = upstream
    /\ tree' = [tree EXCEPT ![r] = upstream]

\* The pull brings nothing, or fails.
PullNothing(r) ==
    /\ Start(r, "ensure")
    /\ UNCHANGED <<head, tree>>

End(r, from) ==
    /\ step[r] = from
    /\ step' = [step EXCEPT ![r] = "off"]
    /\ tree' = [tree EXCEPT ![r] = 0]
    /\ want' = [want EXCEPT ![r] = 1]
    /\ UNCHANGED <<broken, upstream, head, file, trouble>>

\* dc up -d: as many containers of the image as asked for.
ComposeUp(i, n) ==
    /\ image' = i
    /\ live' = i
    /\ up' = n

\* A build that ends after that of a newer commit takes its place.
Overtaken == IF image' < image THEN {image} ELSE {}

RebuildOk(r) ==
    /\ tree[r] \notin broken
    /\ End(r, "rebuild")
    /\ ComposeUp(tree[r], want[r])
    /\ slipped' = slipped \cup Overtaken

Spoilt(c) == IF c \in broken THEN {} ELSE {c}

\* "REBUILD FAILED", by the commit or for a passing reason: what runs stays,
\* and nothing remembers that the rebuild is due.  A build may still have ended
\* well, and only the containers not have been replaced.
RebuildFails(r) ==
    /\ End(r, "rebuild")
    /\ image' \in {image} \cup Spoilt(tree[r])
    /\ slipped' = slipped \cup Spoilt(tree[r]) \cup Overtaken
    /\ UNCHANGED <<live, up>>

\* Slip: the count is forgotten, and compose goes back to one container.
EnsureOne(r) ==
    /\ End(r, "ensure")
    /\ ComposeUp(image, 1)
    /\ UNCHANGED slipped

\* dc up -d without --build.
EnsureOk(r) ==
    /\ End(r, "ensure")
    /\ ComposeUp(image, want[r])
    /\ UNCHANGED slipped

EnsureFails(r) == End(r, "ensure") /\ UNCHANGED <<containers, slipped>>

----------------------------------------------------------------------------
\* The operator, the power, and docker.

Happens == trouble < MaxTrouble /\ trouble' = trouble + 1

\* echo n > .worker-replicas
SetReplicas(n) ==
    /\ Happens
    /\ file' = n
    /\ UNCHANGED <<broken, upstream, head, containers, step, tree, want, slipped>>

\* bootstrap.sh --scale n on a node that is set up already: it builds what is
\* checked out and does not write .worker-replicas.
Bootstrap(n) ==
    /\ Happens
    /\ head \notin broken
    /\ ComposeUp(head, n)
    /\ UNCHANGED <<broken, upstream, head, file, step, tree, want, slipped>>

\* Runs and builds end; containers come back by their restart policy.
PowerCut ==
    /\ Happens
    /\ step' = [r \in Run |-> "off"]
    /\ tree' = [r \in Run |-> 0]
    /\ want' = [r \in Run |-> 1]
    /\ slipped' = slipped \cup UNION {Spoilt(tree[r]) : r \in {q \in Run : step[q] = "rebuild"}}
    /\ UNCHANGED <<broken, upstream, head, containers, file>>

\* All containers are stopped or removed, and docker does not restart them.
Stopped ==
    /\ Happens
    /\ up' = 0
    /\ UNCHANGED <<broken, upstream, head, image, live, file, step, tree, want, slipped>>

CronStep(r) ==
    \/ PullNew(r) \/ PullNothing(r)
    \/ RebuildOk(r) \/ RebuildFails(r)
    \/ EnsureOk(r) \/ EnsureFails(r)

Trouble == PowerCut \/ Stopped \/ \E n \in Scales : SetReplicas(n) \/ Bootstrap(n)

UpdateNext == Push \/ Trouble \/ \E r \in Run : CronStep(r)

\* Cron starts runs for ever and each ends.  The network is there now and then,
\* and so is what docker compose needs: what is tried time and again succeeds.
UpdateFairness ==
    \A r \in Run :
        /\ WF_uvars(CronStep(r))
        /\ SF_uvars(PullNew(r))
        /\ SF_uvars(RebuildOk(r))
        /\ SF_uvars(EnsureOk(r))

UpdateSpec == UpdateInit /\ [][UpdateNext]_uvars /\ UpdateFairness

----------------------------------------------------------------------------
\* Properties.

\* No new code is forgotten on the way to the containers (self-update.sh:25-40):
\* what is checked out and builds is what the containers run, or some run is
\* still to build it, or its one rebuild was spoilt; however runs overlap.
NothingForgotten ==
    head \notin broken \cup slipped =>
        live = head \/ \E r \in Run : step[r] = "rebuild" /\ tree[r] = head

\* "Push a fix and the NEXT cron run pulls it and recovers" (self-update.sh:6-9):
\* the containers come to run the newest commit, however many broken commits,
\* failed pulls and dead containers come before it; unless that commit does not
\* build, or its one rebuild was spoilt.
CatchesUp == <>[](upstream \in broken \cup slipped \/ live = upstream)

\* "will retry next run" (self-update.sh:36): the containers come to run the
\* newest commit if it builds, also when its first rebuild fails for a passing
\* reason.
RetriesRebuild == <>[](upstream \in broken \/ live = upstream)

\* "so the chosen count survives self-updates" (self-update.sh:21-23): there come
\* to be as many containers as .worker-replicas says, and no run changes that.
KeepsReplicas == <>[](up = file)
=============================================================================
