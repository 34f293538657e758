----------------------------- MODULE Transport ------------------------------
(***************************************************************************)
(* How one worker process ships a page (submit_page and                    *)
(* _compression_available, crawlfast_external_worker/client.py): gzipped   *)
(* to /page-compressed if the worker opted in and the server has said that *)
(* it knows the route, otherwise to /page.  The server gains and loses the *)
(* route as it is deployed and rolled back, and answers 404 also for a     *)
(* task that is not the worker's.                                          *)
(***************************************************************************)
EXTENDS Naturals

CONSTANTS
    CompressPages,  \* the worker's opt-in
    MaxRefusals     \* bound: refusals of the compressed route that are told apart

ASSUME TransportConstants == CompressPages \in BOOLEAN /\ MaxRefusals \in Nat \ {0}

VARIABLES
    route,      \* the server has /page-compressed and says so in /health
    held,       \* the task at hand is assigned to this worker
    support,    \* _server_supports_compression: None, True or False
    pc,         \* the request that submit_page waits for
    landings,   \* how often the server took the page of this call in
    answer,     \* how the last call ended
    refusals,   \* history: 404s and 405s that /page-compressed gave this process
    withRoute,  \* history: the route was there all through this process's life
    misled      \* history: this process took a task's 404 for the route's

tvars == <<route, held, support, pc, landings, answer, refusals, withRoute, misled>>

server == <<route, held>>
history == <<refusals, withRoute, misled>>

TransportTypeOK ==
    /\ route \in BOOLEAN
    /\ held \in BOOLEAN
    /\ support \in {"unknown", "yes", "no"}
    /\ pc \in {"idle", "health", "compressed", "page"}
    /\ landings \in 0 .. 1
    /\ answer \in {"none", "answered", "refused", "error"}
    /\ refusals \in 0 .. MaxRefusals
    /\ withRoute \in BOOLEAN
    /\ misled \in BOOLEAN

TransportInit ==
    /\ route \in BOOLEAN
    /\ held = TRUE
    /\ support = "unknown"
    /\ pc = "idle"
    /\ landings = 0
    /\ answer = "none"
    /\ refusals = 0
    /\ withRoute = route
    /\ misled = FALSE

----------------------------------------------------------------------------
\* submit_page.

RouteFor(s) == IF s = "yes" THEN "compressed" ELSE "page"

Submit ==
    /\ pc = "idle"
    /\ pc' = IF CompressPages /\ support = "unknown" THEN "health" ELSE RouteFor(support)
    /\ landings' = 0
    /\ answer' = "none"
    /\ UNCHANGED <<server, support, history>>

HealthAnswers ==
    /\ pc = "health"
    /\ support' = IF route THEN "yes" ELSE "no"
    /\ pc' = RouteFor(support')
    /\ UNCHANGED <<server, landings, answer, history>>

\* Slip: a blip of /health turns compression off for good.
HealthBlipPins ==
    /\ pc = "health"
    /\ support' = "no"
    /\ pc' = "page"
    /\ UNCHANGED <<server, landings, answer, history>>

\* A blip: the page goes the old way, the next one asks again.
HealthFails ==
    /\ pc = "health"
    /\ pc' = "page"
    /\ UNCHANGED <<server, support, landings, answer, history>>

Return(from, a) ==
    /\ pc = from
    /\ pc' = "idle"
    /\ answer' = a
    /\ UNCHANGED <<server, support, history>>

\* The server takes the request in and answers with its verdict.
Answered(from) == held /\ Return(from, "answered") /\ landings' \in {landings, landings + 1}

\* The request or the answer is lost, or the answer is no JSON, or an error.
Fails(from) ==
    /\ Return(from, "error")
    /\ \/ UNCHANGED landings
       \/ held /\ landings' = landings + 1

CompressedAnswered == route /\ Answered("compressed")

\* Slip: the fallback is for every failure.
FallBackOnFailure ==
    /\ pc = "compressed"
    /\ pc' = "page"
    /\ landings' \in IF route /\ held THEN {landings, landings + 1} ELSE {landings}
    /\ UNCHANGED <<server, support, answer, history>>

CompressedFails ==
    /\ Fails("compressed")
    /\ landings' # landings => route

Refused == IF refusals < MaxRefusals THEN refusals + 1 ELSE refusals

\* Slips: the fallback does not last; the 404 goes to the caller.
FallBackOnce ==
    /\ pc = "compressed"
    /\ ~(route /\ held)
    /\ pc' = "page"
    /\ refusals' = Refused
    /\ misled' = (misled \/ route)
    /\ UNCHANGED <<server, support, landings, answer, withRoute>>
NoFallBack ==
    /\ ~(route /\ held)
    /\ Return("compressed", "refused")
    /\ UNCHANGED landings

\* 404 or 405, of the route or of the task: /page-compressed is not asked again
\* in this process's life, and the page goes the old way.
FallBack ==
    /\ pc = "compressed"
    /\ ~(route /\ held)
    /\ pc' = "page"
    /\ support' = "no"
    /\ refusals' = Refused
    /\ misled' = (misled \/ route)
    /\ UNCHANGED <<server, landings, answer, withRoute>>

PageAnswered == Answered("page")

PageRefused == ~held /\ Return("page", "refused") /\ UNCHANGED landings

PageFails == Fails("page")

\* A process starts, and with it its client; the one before it may have died in
\* a call.
StartProcess ==
    /\ support' = "unknown"
    /\ pc' = "idle"
    /\ landings' \in {landings, landings + 1}
    /\ landings' # landings => held /\ (pc = "page" \/ (pc = "compressed" /\ route))
    /\ answer' = "none"
    /\ refusals' = 0
    /\ withRoute' = route
    /\ misled' = FALSE
    /\ UNCHANGED server

----------------------------------------------------------------------------
\* The server.

Deploy ==
    /\ ~route
    /\ route' = TRUE
    /\ UNCHANGED <<held, support, pc, landings, answer, history>>

RollBack ==
    /\ route
    /\ route' = FALSE
    /\ withRoute' = FALSE
    /\ UNCHANGED <<held, support, pc, landings, answer, refusals, misled>>

LoseTask ==
    /\ held
    /\ held' = FALSE
    /\ UNCHANGED <<route, support, pc, landings, answer, history>>

\* The worker has given the lost task up and claimed another.
NextTask ==
    /\ ~held
    /\ pc = "idle"
    /\ held' = TRUE
    /\ UNCHANGED <<route, support, pc, landings, answer, history>>

Call ==
    \/ Submit \/ HealthAnswers \/ HealthFails
    \/ CompressedAnswered \/ CompressedFails \/ FallBack
    \/ PageAnswered \/ PageRefused \/ PageFails

Server == Deploy \/ RollBack \/ LoseTask \/ NextTask

TransportNext == Call \/ StartProcess \/ Server

\* Module Rollout adds the fairness.
TransportSafeSpec == TransportInit /\ [][TransportNext]_tvars

----------------------------------------------------------------------------
\* Properties.

\* "Pinned to False if the route turns out not to exist" (client.py:62-65): one
\* 404 or 405 is the last that /page-compressed gives a process, which asks
\* neither it nor /health again, whatever the server loses and gains. Requests
\* that fail in another way, also those to a route that is missing, are not
\* counted: nothing is learnt from them (client.py:138-139, 147-152).
OneRefusal == refusals <= 1 /\ (refusals > 0 => pc \notin {"health", "compressed"})

\* "Never lose a page over a transport choice" (client.py:140-141): whatever
\* the routes do, a call is one request to its caller; the page is taken in at
\* most once, and a refusal, which makes flush give the page up, is about the
\* task and never about a route.
Posts == INSTANCE PagePost WITH calling <- pc # "idle"
OneRequestEach == Posts!Spec

\* The discovery succeeds (client.py:155-172): a process that starts after the
\* route is there for good comes to use it, though any single /health fails,
\* unless the 404 of a task that is gone makes it take the route for missing.
FindsRoute == CompressPages => []<>(~withRoute \/ misled \/ support = "yes")
=============================================================================
