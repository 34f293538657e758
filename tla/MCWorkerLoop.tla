---------------------------- MODULE MCWorkerLoop ----------------------------
(***************************************************************************)
(* A small instance of WorkerLoop: calls that are at once, short, and      *)
(* longer than the watchdog's window; a wall clock that is set forward by  *)
(* more than the window and back by as much as a heartbeat interval.       *)
(***************************************************************************)
EXTENDS WorkerLoop

MCModes == {"loop", "once"}
MCLoop == {"loop"}

MCJumps == {-2, 4}
=============================================================================
