---------------------------- MODULE MCPageSpool ----------------------------
(***************************************************************************)
(* Small instances of PageSpool: two workers, two claims.                  *)
(***************************************************************************)
EXTENDS PageSpool, TLC

CONSTANTS w1, w2, k1, k2, t1, t2, a, b, c

\* Replicas of docker-compose.yml: one key for all.
MCOneKey == [w \in Worker |-> k1]

\* Replicas are interchangeable.
MCReplicas == Permutations(Worker)

\* docker-compose.multi.yml: each worker its own key, one spool directory.
MCTwoKeys == [w \in Worker |-> IF w = w1 THEN k1 ELSE k2]

\* a and b are pages of t1, c is a page of t2.
MCTaskOf == [p \in Page |-> IF p = c THEN t2 ELSE t1]

\* What the server says of a claim that is not the key's.
MCRefused == {{"not assigned"}}

\* A failure text with none of the markers, as in "read timed out".
MCPlain == {{}}

\* The path of the request is part of the text, and the task's id of the path.
MCWithTaskId == {{"404"}}
=============================================================================
