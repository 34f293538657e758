------------------------------ MODULE PagePost ------------------------------
(***************************************************************************)
(* What submit_page promises its callers, free of routes and encodings:    *)
(* one call is one request to the server.  The server takes the page of a  *)
(* call at most once; a refusal means that the task is not this worker's;  *)
(* everything else is a verdict on the page or an error, behind which the  *)
(* page may have landed or not.  Module PageSpool builds on this.          *)
(***************************************************************************)
EXTENDS Naturals

VARIABLES
    calling,    \* submit_page has been called and has not ended
    held,       \* the task at hand is assigned to this worker
    landings,   \* how often the server took the page of this call in
    answer      \* how the call ended

vars == <<calling, held, landings, answer>>

Init ==
    /\ calling = FALSE
    /\ held = TRUE
    /\ landings = 0
    /\ answer = "none"

Submit ==
    /\ ~calling
    /\ calling' = TRUE
    /\ landings' = 0
    /\ answer' = "none"
    /\ UNCHANGED held

End(a) ==
    /\ calling
    /\ calling' = FALSE
    /\ answer' = a
    /\ UNCHANGED held

\* The server's verdict: the page is stored, or not.
Answered == held /\ End("answered") /\ landings' \in {landings, landings + 1}

Refused == ~held /\ End("refused") /\ UNCHANGED landings

\* The request or its answer is lost.
Fails ==
    /\ End("error")
    /\ landings' \in {landings, landings + 1}
    /\ landings' # landings => held

\* The worker dies, in a call or not.
Die ==
    /\ calling' = FALSE
    /\ answer' = "none"
    /\ landings' \in {landings, landings + 1}
    /\ landings' # landings => calling /\ held
    /\ UNCHANGED held

\* The server takes the task away; the worker comes by another.
LoseTask == held /\ held' = FALSE /\ UNCHANGED <<calling, landings, answer>>
NextTask == ~calling /\ held' = TRUE /\ UNCHANGED <<calling, landings, answer>>

Next == Submit \/ Answered \/ Refused \/ Fails \/ Die \/ LoseTask \/ NextTask

Spec == Init /\ [][Next]_vars
=============================================================================
