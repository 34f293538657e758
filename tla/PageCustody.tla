---------------------------- MODULE PageCustody ----------------------------
(***************************************************************************)
(* What a node promises about the pages it crawls, free of workers, files, *)
(* retries and crashes: where the only copy that matters of a page is.     *)
(*                                                                         *)
(* This is the promise of the README ("Never lose a page") with the three  *)
(* exits the code really has besides the server: a page held only in the   *)
(* memory of a process that dies, or that the disk refuses, is lost; one   *)
(* on disk goes with its file when that cannot be read back, and can be    *)
(* given up once its task is no longer the node's. A page on disk that can *)
(* be read leaves it in no other way than to the server.                   *)
(***************************************************************************)
CONSTANTS
    Page,       \* the pages the node crawls
    Task,       \* the claims the node works on
    TaskOf      \* the claim a page is crawled for

VARIABLES
    place,      \* where each page is
    lostTask    \* claims that are gone or reassigned at the server

vars == <<place, lostTask>>

Places == {"site", "memory", "disk", "server", "lost", "unreadable", "dropped"}

Init ==
    /\ place = [p \in Page |-> "site"]
    /\ lostTask = {}

\* One page goes from one place to another.
Move(p, from, to) ==
    /\ place[p] = from
    /\ place' = [place EXCEPT ![p] = to]
    /\ UNCHANGED lostTask

Fetch(p) == Move(p, "site", "memory")

\* The server decides about the page, from memory or from disk.
Settle(p) == \E from \in {"memory", "disk"} : Move(p, from, "server")

Shelve(p) == Move(p, "memory", "disk")

\* The process or the disk fails before the page is anywhere else.
Lose(p) == Move(p, "memory", "lost")

\* The page's file cannot be read back.
Spoil(p) == Move(p, "disk", "unreadable")

\* Giving up a page on disk is allowed only when its task is lost.
Drop(p) ==
    /\ TaskOf[p] \in lostTask
    /\ Move(p, "disk", "dropped")

LoseTask(t) ==
    /\ lostTask' = lostTask \cup {t}
    /\ UNCHANGED place

Next ==
    \/ \E p \in Page : Fetch(p) \/ Settle(p) \/ Shelve(p) \/ Lose(p) \/ Spoil(p) \/ Drop(p)
    \/ \E t \in Task : LoseTask(t)

Spec == Init /\ [][Next]_vars
=============================================================================
