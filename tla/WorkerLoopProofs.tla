-------------------------- MODULE WorkerLoopProofs --------------------------
(***************************************************************************)
(* Theorems about WorkerLoop, for every window of the watchdog, heartbeat  *)
(* interval, back-off and set of durations, and however the wall clock is  *)
(* set.                                                                    *)
(***************************************************************************)
EXTENDS WorkerLoop, TLAPS

\* Until a heartbeat has gone through, the loop is on its way to one, which
\* is due also if the wall clock is set back as far as it can be.
BeatDue ==
    /\ ~beat => pc \in {"top", "beat", "error", "exited"}
    /\ ~beat /\ pc = "top" => hbLag >= HbInterval + Slack

\* No age is below zero by more than the wall clock was set back.
Behind(age) == age + Slack >= slack

Within == Behind(nowAge) /\ Behind(progLag + nowAge) /\ Behind(hbLag + nowAge)

\* What is on record while process_one goes from step to step.
OnRecord ==
    /\ pc \in {"open", "crawl"} => status = "claimed"
    /\ pc \in {"report", "summary"} => crawl = "returned"
    /\ pc = "summary" => status = "succeeded"
    /\ pc = "summaryFailed" => status = "failed"

\* By the wall clock, no more time has gone by since last_progress, now and
\* when the turn began, than since the last task was done, in the turn it was
\* done in, and in steps forward.
Measured ==
    stalled + lastTurn + ahead <= Watchdog =>
        /\ progLag <= stalled + lastTurn + ahead
        /\ progLag + nowAge <= stalled + lastTurn + ahead

\* By the wall clock, at least as much time has gone by since last_progress as
\* since the last task was done, but for what it was set back.
Noticed ==
    /\ Behind(progLag)
    /\ stalled <= progLag + nowAge + (Slack - slack)

Inv ==
    /\ TypeOK
    /\ BeatDue
    /\ BeatsBeforeClaim
    /\ OnRecord
    /\ ProgressIsReported
    /\ NoFalseSuccess
    /\ Measured
    /\ Noticed
    /\ Within

----------------------------------------------------------------------------
LEMMA CapFacts == Cap \in Nat /\ Cap >= Watchdog + 1 + Slack /\ Cap >= HbInterval + Slack
BY LoopConstants DEF Cap

LEMMA AgeFacts ==
    ASSUME NEW n \in Int
    PROVE  /\ Age(n) \in Int /\ Age(n) <= Cap /\ Age(n) <= n
           /\ Age(n) = n \/ Age(n) = Cap
BY CapFacts DEF Age

LEMMA InitInv == Init => Inv
<1> SUFFICES ASSUME Init PROVE Inv
  OBVIOUS
<1> USE LoopConstants DEF Init
<1>1. TypeOK
  <2>1. beat \in BOOLEAN
    OBVIOUS
  <2>2. /\ idle \in 0 .. QuickTries
        /\ slack \in 0 .. Slack
        /\ hbLag \in Ages
        /\ 0 \in Ages /\ 0 \in 0 .. Cap
    BY CapFacts DEF Ages
  <2>3. /\ pc \in Steps
        /\ crawl \in {"none", "returned", "raised"}
        /\ status \in {"none", "claimed", "succeeded", "failed"}
    BY DEF Steps
  <2> QED
    BY <2>1, <2>2, <2>3 DEF TypeOK
<1>2. BeatDue /\ BeatsBeforeClaim /\ OnRecord /\ ProgressIsReported /\ NoFalseSuccess
  BY CapFacts DEF BeatDue, BeatsBeforeClaim, OnRecord, ProgressIsReported, NoFalseSuccess
<1>3. Measured /\ Noticed /\ Within
  BY CapFacts DEF Measured, Noticed, Within, Behind
<1> QED
  BY <1>1, <1>2, <1>3 DEF Inv

\* The parts of the invariant that can be told apart: where the loop is and
\* what is on record; the heartbeat; the clocks.
Control ==
    /\ mode \in Modes
    /\ pc \in Steps
    /\ idle \in 0 .. QuickTries
    /\ crawl \in {"none", "returned", "raised"}
    /\ status \in {"none", "claimed", "succeeded", "failed"}
    /\ OnRecord
    /\ ProgressIsReported
    /\ NoFalseSuccess

Beating ==
    /\ beat \in BOOLEAN
    /\ hbLag \in Ages
    /\ Behind(hbLag + nowAge)
    /\ BeatDue
    /\ BeatsBeforeClaim

Clocks ==
    /\ slack \in 0 .. Slack
    /\ progLag \in Ages
    /\ nowAge \in Ages
    /\ stalled \in 0 .. Cap
    /\ lastTurn \in 0 .. Cap
    /\ ahead \in 0 .. Cap
    /\ Measured
    /\ Noticed
    /\ Behind(nowAge)
    /\ Behind(progLag + nowAge)

LEMMA InvParts == Inv <=> Control /\ Beating /\ Clocks
BY DEF Inv, TypeOK, Within, Control, Beating, Clocks

LEMMA ControlInv ==
    ASSUME Control, Next
    PROVE  Control'
<1> USE LoopConstants DEF Control, Steps, taskVars, given, Call, Block, OnRecord, ProgressIsReported,
        NoFalseSuccess
<1>1. CASE Turn
  <2>1. CASE Top
    BY <2>1 DEF Top
  <2>2. CASE Done
    BY <2>2 DEF Done, AfterTurn
  <2>3. CASE Empty
    BY <2>3 DEF Empty, ExitOrSleep
  <2>4. CASE Error
    BY <2>4 DEF Error, ExitOrSleep
  <2> QED
    BY <1>1, <2>1, <2>2, <2>3, <2>4 DEF Turn
<1>2. CASE Beat
  BY <1>2 DEF Beat, BeatOk, BeatFails, Flush, FlushFails
<1>3. CASE Claim
  BY <1>3 DEF Claim, ClaimTask, ClaimNothing, ClaimFails
<1>4. CASE Crawl
  BY <1>4 DEF Crawl, CrawlReturns, CrawlRaises
<1>5. CASE RestOfTask
  BY <1>5 DEF RestOfTask, OpenLog, OpenLogFails, Report, ReportFails, Summary, SummaryFails,
      ReportFailure, ReportFailureFails, SummaryFailure
<1>6. CASE Die
  BY <1>6 DEF Die
<1>7. CASE Restart
  BY <1>7 DEF Restart, given
<1>8. ASSUME NEW d \in Jumps, ClockStep(d) PROVE Control'
  BY <1>8 DEF ClockStep
<1> QED
  BY <1>1, <1>2, <1>3, <1>4, <1>5, <1>6, <1>7, <1>8 DEF Next

LEMMA ClocksInv ==
    ASSUME Clocks, Next
    PROVE  Clocks'
<1> USE LoopConstants, CapFacts DEF Clocks, Behind, Ages
<1>1. ASSUME NEW d \in Nat, Elapse(d), UNCHANGED <<slack, progLag, lastTurn>>
      PROVE  Clocks'
  <2>1. nowAge + d \in Int /\ stalled + d \in Int
    OBVIOUS
  <2> QED
    BY <1>1, <2>1, AgeFacts DEF Elapse, Measured, Noticed
<1>2. ASSUME UNCHANGED <<slack, progLag, nowAge, stalled, lastTurn, ahead>>
      PROVE  Clocks'
  BY <1>2 DEF Measured, Noticed
<1>3. CASE Top
  <2>1. progLag + nowAge \in Int
    OBVIOUS
  <2> QED
    BY <1>3, <2>1, AgeFacts DEF Top, Measured, Noticed, given
<1>4. CASE Done
  BY <1>4 DEF Done, Measured, Noticed, given
<1>5. CASE Empty \/ Error
  <2>1. PollSleep \in Nat /\ QuickSleep \in Nat
    OBVIOUS
  <2>2. PICK d \in Nat : (UNCHANGED <<nowAge, stalled, ahead>>) \/ Elapse(d)
    BY <1>5, <2>1 DEF Empty, Error, ExitOrSleep
  <2>3. UNCHANGED <<slack, progLag, lastTurn>>
    BY <1>5 DEF Empty, Error, given
  <2> QED
    BY <1>1, <1>2, <2>2, <2>3
<1>6. CASE Restart
  BY <1>6 DEF Restart, Measured, Noticed, given
<1>7. CASE Beat
  BY <1>1, <1>7 DEF Beat, BeatOk, BeatFails, Flush, FlushFails, Call, Block, given
<1>8. CASE Claim
  BY <1>1, <1>8 DEF Claim, ClaimTask, ClaimNothing, ClaimFails, Call, Block, given
<1>9. CASE Crawl
  BY <1>1, <1>9 DEF Crawl, CrawlReturns, CrawlRaises, Call, Block, given
<1>10. CASE RestOfTask
  BY <1>1, <1>2, <1>10 DEF RestOfTask, OpenLog, OpenLogFails, Report, ReportFails, Summary,
      SummaryFails, ReportFailure, ReportFailureFails, SummaryFailure, Call, Block, clocks, given
<1>11. CASE Die
  BY <1>2, <1>11 DEF Die, clocks, given
<1>12. ASSUME NEW d \in Jumps, ClockStep(d) PROVE Clocks'
  <2>1. d \in Int /\ nowAge + d \in Int /\ ahead + d \in Int
    OBVIOUS
  <2> QED
    BY <1>12, <2>1, AgeFacts DEF ClockStep, Measured, Noticed
<1> QED
  BY <1>3, <1>4, <1>5, <1>6, <1>7, <1>8, <1>9, <1>10, <1>11, <1>12 DEF Next, Turn

\* What the two steps that set hbLag need.
LEMMA SetHbFacts ==
    ASSUME NEW h \in {0, Cap}, NEW n \in Int, NEW s \in Int, n + Slack >= s
    PROVE  h \in Ages /\ h + n + Slack >= s
BY LoopConstants, CapFacts DEF Ages

\* Only Top leads to the claim without a heartbeat, and only when none is due.
LEMMA BeatingInv ==
    ASSUME Beating, Clocks, Next
    PROVE  Beating'
<1> USE LoopConstants, CapFacts DEF Beating, BeatDue, BeatsBeforeClaim, Behind, Ages
<1>0. Clocks'
  BY ClocksInv
<1>a. nowAge' \in Int /\ slack' \in Int
  BY <1>0 DEF Clocks
<1>b. nowAge' + Slack >= slack'
  BY <1>0 DEF Clocks
<1>1. CASE Top
  <2>1. hbLag + nowAge \in Int
    BY DEF Clocks
  <2>2. /\ hbLag' = Age(hbLag + nowAge)
        /\ nowAge' = 0 /\ slack' = slack /\ beat' = beat
        /\ pc = "top" /\ pc' \in {"beat", "claim"}
        /\ hbLag' >= HbInterval => pc' = "beat"
    BY <1>1 DEF Top, given
  <2>3. ~beat => hbLag + nowAge >= HbInterval
    BY <2>2 DEF Clocks
  <2> QED
    BY <2>1, <2>2, <2>3, AgeFacts DEF Clocks
<1>2. ASSUME hbLag' = hbLag, beat' = beat,
             beat \/ pc' \in {"beat", "error", "exited"} \/ pc' = pc,
             Behind(hbLag + nowAge)'
      PROVE  Beating'
  <2>1. hbLag' \in Ages
    BY <1>2
  <2>2. ~beat' => pc' \in {"top", "beat", "error", "exited"}
    BY <1>2, Zenon
  <2>3. ~beat' /\ pc' = "top" => hbLag' >= HbInterval + Slack
    BY <1>2, Zenon
  <2>4. beat' \in BOOLEAN /\ (pc' = "claim" => beat')
    BY <1>2, Zenon
  <2> QED
    BY <1>2, <2>1, <2>2, <2>3, <2>4, Zenon
<1>3. ASSUME NEW d \in Nat, Elapse(d), UNCHANGED <<slack, hbLag>>
      PROVE  Behind(hbLag + nowAge)'
  <2>1. nowAge + d \in Int
    BY DEF Clocks
  <2> QED
    BY <1>3, <2>1, AgeFacts DEF Elapse, Clocks
<1>4. CASE BeatOk
  <2> HIDE DEF Beating, BeatDue, BeatsBeforeClaim
  <2>1. hbLag' = 0
    BY <1>4 DEF BeatOk
  <2>3. hbLag' \in Ages /\ Behind(hbLag + nowAge)'
    BY <1>a, <1>b, <2>1, SetHbFacts DEF Behind
  <2>4. beat' = TRUE /\ pc' = "flush"
    BY <1>4 DEF BeatOk, Block
  <2>5. beat' \in BOOLEAN /\ BeatDue' /\ BeatsBeforeClaim'
    BY <2>4, Zenon DEF BeatDue, BeatsBeforeClaim
  <2> QED
    BY <2>3, <2>5, Zenon DEF Beating
<1>5. CASE Error \/ Restart
  <2> HIDE DEF Beating, BeatDue, BeatsBeforeClaim
  <2>1. hbLag' = Cap
    BY <1>5 DEF Error, Restart
  <2>3. hbLag' \in Ages /\ Behind(hbLag + nowAge)' /\ hbLag' >= HbInterval + Slack
    BY <1>a, <1>b, <2>1, SetHbFacts DEF Behind
  <2>4. beat' = FALSE
    BY <1>5, Zenon DEF Error, Restart
  <2>5. pc' = "top" \/ pc' = "exited"
    BY <1>5, Zenon DEF Error, ExitOrSleep, Restart
  <2>6. beat' \in BOOLEAN /\ BeatsBeforeClaim'
    BY <2>4, <2>5, Zenon DEF BeatsBeforeClaim
  <2>7. BeatDue'
    BY <2>3, <2>5 DEF BeatDue
  <2> QED
    BY <2>3, <2>6, <2>7, Zenon DEF Beating
<1>6. CASE Done
  BY <1>2, <1>6 DEF Done, AfterTurn, given
<1>7. CASE Empty
  <2>1. PollSleep \in Nat /\ QuickSleep \in Nat
    OBVIOUS
  <2>2. PICK d \in Nat : (UNCHANGED <<nowAge, stalled, ahead>>) \/ Elapse(d)
    BY <1>7, <2>1 DEF Empty, ExitOrSleep
  <2>3. Behind(hbLag + nowAge)'
    BY <1>3, <1>7, <2>2 DEF Empty, given
  <2>4. beat
    BY <1>7 DEF Empty
  <2> QED
    BY <1>2, <1>7, <2>3, <2>4 DEF Empty
<1>8. ASSUME NEW from, NEW to, Call(from, to), UNCHANGED slack
      PROVE  Behind(hbLag + nowAge)'
  BY <1>3, <1>8 DEF Call, Block
<1>9. CASE BeatFails \/ Flush \/ FlushFails
  BY <1>2, <1>8, <1>9 DEF BeatFails, Flush, FlushFails, Call, Block, given
<1>10. CASE Claim
  BY <1>2, <1>8, <1>10 DEF Claim, ClaimTask, ClaimNothing, ClaimFails, Call, Block, given
<1>11. CASE Crawl
  BY <1>2, <1>8, <1>11 DEF Crawl, CrawlReturns, CrawlRaises, Call, Block, given
<1>12. CASE RestOfTask
  BY <1>2, <1>8, <1>12 DEF RestOfTask, OpenLog, OpenLogFails, Report, ReportFails, Summary,
      SummaryFails, ReportFailure, ReportFailureFails, SummaryFailure, Call, Block, clocks, given
<1>13. CASE Die
  BY <1>2, <1>13 DEF Die, clocks, given
<1>14. ASSUME NEW d \in Jumps, ClockStep(d) PROVE Beating'
  <2>1. d \in Int /\ nowAge + d \in Int
    BY DEF Clocks
  <2>2. Behind(hbLag + nowAge)'
    BY <1>14, <2>1, AgeFacts DEF ClockStep, Clocks
  <2> QED
    BY <1>2, <1>14, <2>2 DEF ClockStep
<1> QED
  BY <1>1, <1>4, <1>5, <1>6, <1>7, <1>9, <1>10, <1>11, <1>12, <1>13, <1>14 DEF Next, Turn, Beat

\* The inductive invariant holds in every behaviour of the loop
\* (worker.py:173-215).
THEOREM Invariance == SafeSpec => []Inv
<1>1. Inv /\ [Next]_vars => Inv'
  <2> SUFFICES ASSUME Inv, [Next]_vars PROVE Inv'
    OBVIOUS
  <2>1. CASE UNCHANGED vars
    BY <2>1 DEF vars, Inv, TypeOK, BeatDue, BeatsBeforeClaim, OnRecord, ProgressIsReported,
        NoFalseSuccess, Measured, Noticed, Within, Behind, Age
  <2>2. CASE Next
    BY <2>2, InvParts, ControlInv, BeatingInv, ClocksInv, PTL DEF Clocks
  <2> QED
    BY <2>1, <2>2
<1> QED
  BY InitInv, <1>1, PTL DEF SafeSpec

\* Every variable keeps its type: no age is below zero by more than the wall
\* clock was set back, the idle count stops where the back-off no longer depends
\* on it (worker.py:186-203).
THEOREM TypeCorrect == SafeSpec => []TypeOK
BY Invariance, PTL DEF Inv

\* No claim without a heartbeat since the last error or start
\* (worker.py:184-215), for every heartbeat interval and every duration, however
\* the wall clock is set.
THEOREM BeatsBeforeClaimHolds == SafeSpec => []BeatsBeforeClaim
BY Invariance, PTL DEF Inv

\* What the watchdog counts as progress the server has a result for
\* (worker.py:109-124, 191-193).
THEOREM ProgressIsReportedHolds == SafeSpec => []ProgressIsReported
BY Invariance, PTL DEF Inv

\* A task on record as succeeded is one whose handler returned
\* (worker.py:101-124).
THEOREM NoFalseSuccessHolds == SafeSpec => []NoFalseSuccess
BY Invariance, PTL DEF Inv

\* The watchdog ends the process only after its window, but for the length of
\* the last turn that processed a task and for what the wall clock was set
\* forward (worker.py:193-215), for every window.
THEOREM ExitsNoEarlierHolds == SafeSpec => ExitsNoEarlier
<1>1. Inv /\ [Next]_vars =>
        [(Empty \/ Error) /\ pc' = "exited" /\ mode = "loop" => stalled + lastTurn + ahead > Watchdog]_vars
  <2> SUFFICES ASSUME Inv, Empty \/ Error, pc' = "exited", mode = "loop"
               PROVE  stalled + lastTurn + ahead > Watchdog
    OBVIOUS
  <2>1. progLag > Watchdog \/ progLag + nowAge > Watchdog
    BY DEF Empty, Error, ExitOrSleep
  <2> QED
    BY <2>1, LoopConstants, CapFacts DEF Inv, TypeOK, Measured, Within, Behind, Ages
<1> QED
  BY Invariance, <1>1, PTL DEF SafeSpec, ExitsNoEarlier

\* The worker does not sleep on past its window: a turn that processed nothing
\* ends in a sleep only while nothing was processed for no longer than the
\* window, but for what the wall clock was set back and for the length of an
\* empty claim's own turn (worker.py:176-181, 199-215), for every window.
THEOREM ExitsInTimeHolds == SafeSpec => ExitsInTime
<1>1. Inv /\ [Next]_vars =>
        [(Empty \/ Error) /\ pc' = "top" =>
            stalled <= Watchdog + (Slack - slack) + (IF pc = "empty" THEN nowAge ELSE 0)]_vars
  <2> SUFFICES ASSUME Inv, Empty \/ Error, pc' = "top"
               PROVE  stalled <= Watchdog + (Slack - slack) + (IF pc = "empty" THEN nowAge ELSE 0)
    OBVIOUS
  <2>1. /\ progLag \in Int /\ nowAge \in Int /\ slack \in Int /\ stalled \in Int
        /\ stalled <= progLag + nowAge + (Slack - slack)
    BY LoopConstants, CapFacts DEF Inv, TypeOK, Noticed, Ages
  <2>2. CASE Empty
    BY <2>1, <2>2, LoopConstants DEF Empty, ExitOrSleep
  <2>3. CASE Error
    BY <2>1, <2>3, LoopConstants DEF Error, ExitOrSleep
  <2> QED
    BY <2>2, <2>3
<1> QED
  BY Invariance, <1>1, PTL DEF SafeSpec, ExitsInTime
=============================================================================
