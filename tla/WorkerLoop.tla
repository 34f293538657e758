----------------------------- MODULE WorkerLoop -----------------------------
(***************************************************************************)
(* One worker process: main's drain loop with its heartbeat cadence and    *)
(* watchdog, and process_one from the claim to the report                  *)
(* (crawlfast_external_worker/worker.py).  What happens to the pages of    *)
(* the task is module PageSpool.                                           *)
(*                                                                         *)
(* Time is counted in ticks and every call that blocks takes one of        *)
(* Durations.  What the code reads off the wall clock is kept as ages,     *)
(* which end where its comparisons can no longer tell them apart.  The     *)
(* wall clock itself may be set forward or back at any time.               *)
(***************************************************************************)
EXTENDS Integers

CONSTANTS
    Watchdog,       \* WORKER_WATCHDOG_IDLE_SECONDS, in ticks
    HbInterval,     \* max(10, poll_interval_seconds), in ticks
    Durations,      \* how long a blocking call can take
    QuickSleep,     \* the sleep of the first QuickTries empty claims
    PollSleep,      \* poll_interval_seconds
    QuickTries,     \* 20 in the code
    Jumps,          \* by how much the wall clock can be set forward or back
    Slack,          \* bound: by how much it is set back in all
    Modes           \* how the worker is started: "loop", "once" (--once)

ASSUME LoopConstants ==
    /\ Watchdog \in Nat
    /\ HbInterval \in Nat \ {0}
    /\ Durations \subseteq Nat
    /\ QuickSleep \in Nat \ {0}
    /\ PollSleep \in Nat \ {0}
    /\ QuickTries \in Nat
    /\ Jumps \subseteq Int
    /\ Slack \in Nat
    /\ Modes \subseteq {"loop", "once"}

VARIABLES
    mode,       \* how this process was started
    slack,      \* by how much the wall clock can still be set back
    pc,         \* what it is doing
    progLag,    \* now - last_progress
    hbLag,      \* now - last_hb
    nowAge,     \* time since now was read, at the top of the loop
    idle,       \* empty claims in a row
    crawl,      \* how the handler ended for the task at hand
    status,     \* what the server has on record for the task at hand
    stalled,    \* history: time since process_one last returned True
    lastTurn,   \* history: how long that turn of the loop took, by the wall clock
    ahead,      \* history: by how much the clock was set forward since
    beat        \* history: a heartbeat went through since the last error

vars == <<mode, slack, pc, progLag, hbLag, nowAge, idle, crawl, status, stalled, lastTurn,
          ahead, beat>>

given == <<mode, slack>>
clocks == <<progLag, hbLag, nowAge, stalled, ahead>>
taskVars == <<crawl, status>>

Steps == {"top", "beat", "flush", "claim", "open", "crawl", "report", "summary",
          "reportFailed", "summaryFailed", "done", "empty", "error", "exited"}

\* Past the limits of the watchdog and the heartbeat, however the clock may
\* still be set back, an age says nothing more.
Cap == (IF Watchdog + 1 > HbInterval THEN Watchdog + 1 ELSE HbInterval) + Slack
Age(n) == IF n > Cap THEN Cap ELSE n

Ages == -Slack .. Cap

TypeOK ==
    /\ mode \in Modes
    /\ slack \in 0 .. Slack
    /\ pc \in Steps
    /\ progLag \in Ages
    /\ hbLag \in Ages
    /\ nowAge \in Ages
    /\ idle \in 0 .. QuickTries
    /\ crawl \in {"none", "returned", "raised"}
    /\ status \in {"none", "claimed", "succeeded", "failed"}
    /\ stalled \in 0 .. Cap
    /\ lastTurn \in 0 .. Cap
    /\ ahead \in 0 .. Cap
    /\ beat \in BOOLEAN

\* A process starts: last_hb = 0, last_progress = time.time().
Init ==
    /\ mode \in Modes
    /\ slack = Slack
    /\ pc = "top"
    /\ progLag = 0
    /\ hbLag = Cap
    /\ nowAge = 0
    /\ idle = 0
    /\ crawl = "none"
    /\ status = "none"
    /\ stalled = 0
    /\ lastTurn = 0
    /\ ahead = 0
    /\ beat = FALSE

Elapse(d) ==
    /\ nowAge' = Age(nowAge + d)
    /\ stalled' = Age(stalled + d)
    /\ UNCHANGED ahead

\* A blocking call ends and the next step is taken.
Block(from, to) ==
    /\ pc = from
    /\ pc' = to
    /\ \E d \in Durations : Elapse(d)
    /\ UNCHANGED progLag

Call(from, to) == Block(from, to) /\ UNCHANGED hbLag

----------------------------------------------------------------------------
\* The loop up to the claim.

\* now = time.time() and the heartbeat test; --once always beats.
Top ==
    /\ pc = "top"
    /\ progLag' = Age(progLag + nowAge)
    /\ hbLag' = Age(hbLag + nowAge)
    /\ nowAge' = 0
    /\ pc' = IF mode = "once" \/ hbLag' >= HbInterval THEN "beat" ELSE "claim"
    /\ UNCHANGED <<given, idle, taskVars, stalled, lastTurn, ahead, beat>>

\* last_hb = now: the time of the turn, not of the answer.
BeatOk ==
    /\ Block("beat", "flush")
    /\ hbLag' = 0
    /\ beat' = TRUE
    /\ UNCHANGED <<given, idle, taskVars, lastTurn>>

BeatFails == Call("beat", "error") /\ UNCHANGED <<given, idle, taskVars, lastTurn, beat>>

Flush == Call("flush", "claim") /\ UNCHANGED <<given, idle, taskVars, lastTurn, beat>>

\* The spool directory cannot be listed.
FlushFails == Call("flush", "error") /\ UNCHANGED <<given, idle, taskVars, lastTurn, beat>>

----------------------------------------------------------------------------
\* process_one.

ClaimTask ==
    /\ Call("claim", "open")
    /\ crawl' = "none"
    /\ status' = "claimed"
    /\ UNCHANGED <<given, idle, lastTurn, beat>>

ClaimNothing == Call("claim", "empty") /\ UNCHANGED <<given, idle, taskVars, lastTurn, beat>>

\* The server may have assigned a task all the same.
ClaimFails ==
    /\ Call("claim", "error")
    /\ crawl' = "none"
    /\ status' \in {"none", "claimed"}
    /\ UNCHANGED <<given, idle, lastTurn, beat>>

\* tlog.open_task, before the try.
OpenLog ==
    /\ pc = "open"
    /\ pc' = "crawl"
    /\ UNCHANGED <<given, clocks, idle, taskVars, lastTurn, beat>>

OpenLogFails ==
    /\ pc = "open"
    /\ pc' = "error"
    /\ UNCHANGED <<given, clocks, idle, taskVars, lastTurn, beat>>

CrawlReturns ==
    /\ Call("crawl", "report")
    /\ crawl' = "returned"
    /\ UNCHANGED <<given, idle, status, lastTurn, beat>>

\* Slip: the handler's exception is caught too early.
RaisesUnnoticed ==
    /\ Call("crawl", "report")
    /\ crawl' = "raised"
    /\ UNCHANGED <<given, idle, status, lastTurn, beat>>

CrawlRaises ==
    /\ Call("crawl", "reportFailed")
    /\ crawl' = "raised"
    /\ UNCHANGED <<given, idle, status, lastTurn, beat>>

Report ==
    /\ Call("report", "summary")
    /\ status' = "succeeded"
    /\ UNCHANGED <<given, idle, crawl, lastTurn, beat>>

\* The request or its answer is lost, or the server refuses it.
ReportFails ==
    /\ Call("report", "reportFailed")
    /\ status' \in {status, "succeeded"}
    /\ UNCHANGED <<given, idle, crawl, lastTurn, beat>>

\* tl.summary and the log line, still inside the try.
Summary ==
    /\ pc = "summary"
    /\ pc' = "done"
    /\ UNCHANGED <<given, clocks, idle, taskVars, lastTurn, beat>>

SummaryFails ==
    /\ pc = "summary"
    /\ pc' = "reportFailed"
    /\ UNCHANGED <<given, clocks, idle, taskVars, lastTurn, beat>>

\* The except branch.
ReportFailure ==
    /\ Call("reportFailed", "summaryFailed")
    /\ status' = "failed"
    /\ UNCHANGED <<given, idle, crawl, lastTurn, beat>>

\* Slip: the second failure is swallowed as the first is.
FailureSwallowed ==
    /\ Call("reportFailed", "done")
    /\ UNCHANGED <<given, idle, crawl, status, lastTurn, beat>>

\* Nothing catches this one inside process_one.
ReportFailureFails ==
    /\ Call("reportFailed", "error")
    /\ status' \in {status, "failed"}
    /\ UNCHANGED <<given, idle, crawl, lastTurn, beat>>

SummaryFailure ==
    /\ pc = "summaryFailed"
    /\ pc' \in {"done", "error"}
    /\ UNCHANGED <<given, clocks, idle, taskVars, lastTurn, beat>>

----------------------------------------------------------------------------
\* The loop after process_one.

AfterTurn == IF mode = "once" THEN "exited" ELSE "top"

\* Slip: only the idle count is reset.
DoneForgotten ==
    /\ pc = "done"
    /\ pc' = AfterTurn
    /\ idle' = 0
    /\ stalled' = 0
    /\ lastTurn' = IF nowAge < 0 THEN 0 ELSE nowAge
    /\ ahead' = 0
    /\ UNCHANGED <<given, progLag, hbLag, nowAge, taskVars, beat>>

\* process_one returned True: last_progress = now, the time of the turn.
Done ==
    /\ pc = "done"
    /\ pc' = AfterTurn
    /\ idle' = 0
    /\ progLag' = 0
    /\ stalled' = 0
    /\ lastTurn' = IF nowAge < 0 THEN 0 ELSE nowAge
    /\ ahead' = 0
    /\ UNCHANGED <<given, hbLag, nowAge, taskVars, beat>>

\* The end of a turn that processed nothing: the watchdog's exit or a sleep.
ExitOrSleep(lag, d) ==
    IF mode = "once" \/ lag > Watchdog
    THEN pc' = "exited" /\ UNCHANGED <<nowAge, stalled, ahead>>
    ELSE pc' = "top" /\ Elapse(d)

\* process_one returned False: the watchdog measures at the time of the turn.
Empty ==
    /\ pc = "empty"
    /\ idle' = IF idle < QuickTries THEN idle + 1 ELSE idle
    /\ ExitOrSleep(progLag, IF idle' < QuickTries THEN QuickSleep ELSE PollSleep)
    /\ UNCHANGED <<given, progLag, hbLag, taskVars, lastTurn, beat>>

\* Slips: the error branch forgets the watchdog; it forgets the heartbeat; it
\* backs the heartbeat off for ten polls.
ErrorUnwatched ==
    /\ pc = "error"
    /\ ExitOrSleep(0, PollSleep)
    /\ hbLag' = Cap
    /\ beat' = FALSE
    /\ UNCHANGED <<given, progLag, idle, taskVars, lastTurn>>
ErrorNoBeat ==
    /\ pc = "error"
    /\ ExitOrSleep(progLag + nowAge, PollSleep)
    /\ beat' = FALSE
    /\ UNCHANGED <<given, progLag, hbLag, idle, taskVars, lastTurn>>
ErrorBacksOff ==
    /\ pc = "error"
    /\ ExitOrSleep(progLag + nowAge, PollSleep)
    /\ hbLag' = 0 - 10 * PollSleep
    /\ beat' = FALSE
    /\ UNCHANGED <<given, progLag, idle, taskVars, lastTurn>>

\* The loop's except: the next turn beats first, and the watchdog measures
\* at the time of the error.
Error ==
    /\ pc = "error"
    /\ ExitOrSleep(progLag + nowAge, PollSleep)
    /\ hbLag' = Cap
    /\ beat' = FALSE
    /\ UNCHANGED <<given, progLag, idle, taskVars, lastTurn>>

\* The wall clock is set: what the code computes from time.time() shifts, the
\* time that goes by does not.
ClockStep(d) ==
    /\ pc # "exited"
    /\ slack' = IF d < 0 THEN slack + d ELSE slack
    /\ slack' >= 0
    /\ nowAge' = Age(nowAge + d)
    /\ ahead' = IF d > 0 THEN Age(ahead + d) ELSE ahead
    /\ UNCHANGED <<mode, pc, progLag, hbLag, idle, taskVars, stalled, lastTurn, beat>>

\* Ctrl-C, a kill, a power cut, at any point.
Die ==
    /\ pc # "exited"
    /\ pc' = "exited"
    /\ UNCHANGED <<given, clocks, idle, taskVars, lastTurn, beat>>

\* docker's restart policy, systemd, or cron start a new process.
Restart ==
    /\ pc = "exited"
    /\ pc' = "top"
    /\ progLag' = 0
    /\ hbLag' = Cap
    /\ nowAge' = 0
    /\ idle' = 0
    /\ crawl' = "none"
    /\ status' = "none"
    /\ stalled' = 0
    /\ lastTurn' = 0
    /\ ahead' = 0
    /\ beat' = FALSE
    /\ UNCHANGED given

Claim == ClaimTask \/ ClaimNothing \/ ClaimFails
Crawl == CrawlReturns \/ CrawlRaises
RestOfTask == \/ OpenLog \/ OpenLogFails
              \/ Report \/ ReportFails \/ Summary \/ SummaryFails
              \/ ReportFailure \/ ReportFailureFails \/ SummaryFailure
Beat == BeatOk \/ BeatFails \/ Flush \/ FlushFails
Turn == Top \/ Done \/ Empty \/ Error

Next ==
    \/ Turn \/ Beat \/ Claim \/ Crawl \/ RestOfTask
    \/ \E d \in Jumps : ClockStep(d)
    \/ Die \/ Restart

SafeSpec == Init /\ [][Next]_vars

\* Every call returns, if only by its timeout; what has exited is restarted.
\* Nothing is said of which way a call goes.
Fairness == WF_vars(Turn \/ Beat \/ Claim \/ Crawl \/ RestOfTask) /\ WF_vars(Restart)

Spec == SafeSpec /\ Fairness

----------------------------------------------------------------------------
\* Properties.

\* The watchdog's promise (README, "It heals itself"; worker.py:176-181): the
\* worker always comes to process a task again, or exits to be restarted.
NoZombie == []<>(pc \in {"done", "exited"})

\* An exit of the loop's own (os._exit, not Die) comes only when nothing was
\* processed for the whole window, but for the length of the last turn that
\* processed something (last_progress is that turn's start, worker.py:193) and
\* for what the wall clock was set forward.
ExitsNoEarlier ==
    [][(Empty \/ Error) /\ pc' = "exited" /\ mode = "loop" =>
           stalled + lastTurn + ahead > Watchdog]_vars

\* A turn that processed nothing ends in another sleep only within the window:
\* nothing was processed for no longer than that, but for what the wall clock
\* was set back and, after an empty claim, for the length of the claim's own
\* turn, at whose start the code read the time (worker.py:199-215).
ExitsInTime ==
    [][(Empty \/ Error) /\ pc' = "top" =>
           stalled <= Watchdog + (Slack - slack) + (IF pc = "empty" THEN nowAge ELSE 0)]_vars

\* After an error, and after a start, the worker makes itself known to the
\* server before it claims: a heartbeat went through since (worker.py:211).
BeatsBeforeClaim == pc = "claim" => beat

\* What the watchdog counts as progress is a task the server has a result
\* for: process_one returns True only once a report was acknowledged.
ProgressIsReported == pc = "done" => status \in {"succeeded", "failed"}

\* No task is on record as succeeded whose handler did not return.
NoFalseSuccess == status = "succeeded" => crawl = "returned"

\* "Reports what actually happened" (README): a task on record as failed is
\* one whose handler failed.
FailedMeansFailed == status = "failed" => crawl = "raised"
=============================================================================
