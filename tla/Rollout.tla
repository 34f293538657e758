------------------------------ MODULE Rollout -------------------------------
(***************************************************************************)
(* The transport of one of a node's worker processes (Transport) under the *)
(* node's self-update (SelfUpdate): the process has forgotten what it knew *)
(* of the server when compose replaces its container, when the power fails *)
(* and when it restarts on its own.                                        *)
(***************************************************************************)
EXTENDS Transport, SelfUpdate

vars == <<tvars, uvars>>

TypeOK == TransportTypeOK /\ UpdateTypeOK

Init == TransportInit /\ UpdateInit

\* While there is no container no process makes a call.
CallStep == up > 0 /\ Call /\ UNCHANGED uvars

\* The restart policy, after a crash or the watchdog's exit.
ProcessRestart == up > 0 /\ StartProcess /\ UNCHANGED uvars

ServerStep == Server /\ UNCHANGED uvars

\* A container is replaced when its image is another; it is started when there
\* was none; the others are left alone.
Replaced == live' # live \/ (up = 0 /\ up' > 0)

NodeStep ==
    /\ Push \/ Trouble \/ \E r \in Run : CronStep(r)
    /\ IF Replaced \/ up' = 0 \/ PowerCut THEN StartProcess ELSE UNCHANGED tvars

Next == CallStep \/ ProcessRestart \/ ServerStep \/ NodeStep

\* Pages keep coming and calls end, if only by their timeout; /health answers if
\* it is asked time and again.
Fairness ==
    /\ WF_vars(CallStep)
    /\ SF_vars(HealthAnswers /\ CallStep)
    /\ UpdateFairness

Spec == Init /\ [][Next]_vars /\ Fairness
=============================================================================
