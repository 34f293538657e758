-------------------------- MODULE TransportProofs ---------------------------
(***************************************************************************)
(* Theorems about Transport, with the opt-in or without, however the       *)
(* server gains and loses the route and the worker its tasks.              *)
(***************************************************************************)
EXTENDS Transport, TLAPS

\* A request to /page-compressed is made only by a process that believes in the
\* route, which a 404 ends for good; while a call goes on nothing of it has
\* landed yet.
Inv ==
    /\ TransportTypeOK
    /\ pc = "compressed" => support = "yes"
    /\ pc = "health" => support = "unknown"
    /\ refusals > 0 => support = "no"
    /\ refusals <= 1
    /\ pc # "idle" => landings = 0

LEMMA InitInv == TransportInit => Inv
<1> SUFFICES ASSUME TransportInit PROVE Inv
  OBVIOUS
<1> USE DEF TransportInit
<1>1. route \in BOOLEAN /\ held \in BOOLEAN /\ withRoute \in BOOLEAN /\ misled \in BOOLEAN
  BY Zenon
<1>2. /\ support = "unknown" /\ pc = "idle" /\ landings = 0 /\ answer = "none"
      /\ refusals = 0 /\ refusals \in 0 .. MaxRefusals
  BY TransportConstants
<1> QED
  BY <1>1, <1>2 DEF Inv, TransportTypeOK

LEMMA StepInv ==
    ASSUME Inv, [TransportNext]_tvars
    PROVE  Inv'
<1> USE TransportConstants DEF Inv, TransportTypeOK, server, history
<1>1. CASE Submit
  BY <1>1 DEF Submit, RouteFor
<1>2. CASE HealthAnswers
  BY <1>2 DEF HealthAnswers, RouteFor
<1>3. CASE HealthFails
  BY <1>3 DEF HealthFails
<1>4. CASE CompressedAnswered \/ PageAnswered
  BY <1>4 DEF CompressedAnswered, PageAnswered, Answered, Return
<1>5. CASE CompressedFails \/ PageFails
  BY <1>5 DEF CompressedFails, PageFails, Fails, Return
<1>6. CASE FallBack
  <2>1. refusals = 0
    BY <1>6 DEF FallBack
  <2>2. refusals' \in {0, 1} /\ support' = "no" /\ pc' = "page"
    BY <1>6, <2>1 DEF FallBack, Refused
  <2>3. misled' \in BOOLEAN
    BY <1>6, Zenon DEF FallBack
  <2>4. UNCHANGED <<route, held, landings, answer, withRoute>> /\ landings = 0
    BY <1>6 DEF FallBack
  <2> QED
    BY <2>2, <2>3, <2>4
<1>7. CASE PageRefused
  BY <1>7 DEF PageRefused, Return
<1>8. CASE StartProcess
  <2>1. withRoute' \in BOOLEAN /\ misled' \in BOOLEAN
    BY <1>8, Zenon DEF StartProcess
  <2>2. landings' \in 0 .. 1 /\ refusals' \in 0 .. MaxRefusals /\ refusals' = 0
    BY <1>8 DEF StartProcess
  <2>3. support' = "unknown" /\ pc' = "idle" /\ answer' = "none" /\ UNCHANGED <<route, held>>
    BY <1>8 DEF StartProcess
  <2> QED
    BY <2>1, <2>2, <2>3
<1>9. CASE Server
  BY <1>9 DEF Server, Deploy, RollBack, LoseTask, NextTask
<1>10. CASE UNCHANGED tvars
  BY <1>10 DEF tvars
<1> QED
  BY <1>1, <1>2, <1>3, <1>4, <1>5, <1>6, <1>7, <1>8, <1>9, <1>10 DEF TransportNext, Call

\* The inductive invariant holds in every behaviour (client.py:124-172).
THEOREM Invariance == TransportSafeSpec => []Inv
BY InitInv, StepInv, PTL DEF TransportSafeSpec

\* Every variable keeps its type, and a call lands at most once
\* (client.py:124-153).
THEOREM TypeCorrect == TransportSafeSpec => []TransportTypeOK
BY Invariance, PTL DEF Inv

\* A process to which /page-compressed has once answered 404 or 405 asks neither
\* it nor /health again (client.py:140-146, 155-172), however often the server
\* gains and loses the route.
THEOREM OneRefusalHolds == TransportSafeSpec => []OneRefusal
<1>1. Inv => OneRefusal
  BY DEF Inv, OneRefusal
<1> QED
  BY Invariance, <1>1, PTL

----------------------------------------------------------------------------
LEMMA StepPosts ==
    ASSUME Inv, [TransportNext]_tvars
    PROVE  [Posts!Next]_Posts!vars
<1> USE DEF Inv, TransportTypeOK, server, history, Posts!Next, Posts!vars
<1>1. CASE Submit
  <2>1. pc' # "idle"
    BY <1>1 DEF Submit, RouteFor
  <2> QED
    BY <1>1, <2>1 DEF Submit, Posts!Submit
<1>2. CASE HealthAnswers \/ HealthFails \/ FallBack
  <2>1. pc # "idle" /\ pc' # "idle" /\ UNCHANGED <<held, landings, answer>>
    BY <1>2 DEF HealthAnswers, HealthFails, FallBack, RouteFor
  <2> QED
    BY <2>1
<1>3. CASE CompressedAnswered \/ PageAnswered
  BY <1>3 DEF CompressedAnswered, PageAnswered, Answered, Return, Posts!Answered, Posts!End
<1>4. CASE CompressedFails \/ PageFails
  BY <1>4 DEF CompressedFails, PageFails, Fails, Return, Posts!Fails, Posts!End
<1>5. CASE PageRefused
  BY <1>5 DEF PageRefused, Return, Posts!Refused, Posts!End
<1>6. CASE StartProcess
  BY <1>6 DEF StartProcess, Posts!Die
<1>7. CASE Server
  BY <1>7 DEF Server, Deploy, RollBack, LoseTask, NextTask, Posts!LoseTask, Posts!NextTask
<1>8. CASE UNCHANGED tvars
  BY <1>8 DEF tvars
<1> QED
  BY <1>1, <1>2, <1>3, <1>4, <1>5, <1>6, <1>7, <1>8 DEF TransportNext, Call

\* Whatever routes it takes, submit_page is one request to its caller
\* (client.py:124-153): the page is taken in at most once, and a refusal is about
\* the task.
THEOREM Refinement == TransportSafeSpec => OneRequestEach
<1>1. TransportInit => Posts!Init
  BY DEF TransportInit, Posts!Init
<1>2. Inv /\ [TransportNext]_tvars => [Posts!Next]_Posts!vars
  BY StepPosts
<1> QED
  BY Invariance, <1>1, <1>2, PTL DEF TransportSafeSpec, OneRequestEach, Posts!Spec
=============================================================================
