--------------------------- MODULE MinerLifecycle ---------------------------
(***************************************************************************)
(* What the supervisor promises its consumers: the reported state, whether *)
(* a miner process exists, and whether the backend is shutting down.  The  *)
(* lock, generations, backoff and signals of Supervisor.tla are hidden.    *)
(***************************************************************************)
VARIABLES state, alive, closed

lifecycleVars == <<state, alive, closed>>

LifecycleInit == state = "STOPPED" /\ alive = FALSE /\ closed = FALSE

\* A process is forked only when there is none and the door is open.
Launch ==
    /\ ~alive /\ ~closed
    /\ alive' = TRUE
    /\ state' = "STARTING"
    /\ UNCHANGED closed

\* Only a process that exists and was just started is reported running.
Confirm ==
    /\ alive /\ state = "STARTING"
    /\ state' = "RUNNING"
    /\ UNCHANGED <<alive, closed>>

\* The process dies by itself: it will be retried, or it is given up.
Die ==
    /\ alive /\ state \in {"STARTING", "RUNNING"}
    /\ alive' = FALSE
    /\ state' \in {"RESTARTING", "CRASHED"}
    /\ UNCHANGED closed

\* A restart is announced while the old process is still alive.
AnnounceRestart ==
    /\ alive /\ ~closed /\ state = "RUNNING"
    /\ state' = "RESTARTING"
    /\ UNCHANGED <<alive, closed>>

\* The old process gives way to the new one.
Replace ==
    /\ alive /\ ~closed /\ state = "RESTARTING"
    /\ state' = "STARTING"
    /\ UNCHANGED <<alive, closed>>

\* The old process dies and a shutdown forbids the new one.
Abandon ==
    /\ alive /\ closed /\ state = "RESTARTING"
    /\ alive' = FALSE
    /\ UNCHANGED <<state, closed>>

\* A stop: STOPPED is announced once the process is gone, never before.
Halt ==
    /\ alive => state = "RUNNING"
    /\ alive' = FALSE
    /\ state' = "STOPPED"
    /\ UNCHANGED closed

Close == ~closed /\ closed' = TRUE /\ UNCHANGED <<state, alive>>

LifecycleNext ==
    \/ Launch \/ Confirm \/ Die \/ AnnounceRestart \/ Replace \/ Abandon
    \/ Halt \/ Close

LifecycleSpec == LifecycleInit /\ [][LifecycleNext]_lifecycleVars
=============================================================================
