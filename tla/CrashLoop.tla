------------------------------ MODULE CrashLoop ------------------------------
(***************************************************************************)
(* Supervisor.tla with the history of its automatic respawns: every one of *)
(* the last crash window, and where a restart() cleared the crash history  *)
(* between them (supervisor.ts, restart()).                                *)
(***************************************************************************)
EXTENDS Supervisor

VARIABLES
    respawnAges,    \* the ages of the automatic respawns, oldest first
    clearsSince,    \* the restart()s that cleared the history since each
    sinceClear      \* the ages of those that none has come after

historyVars == <<vars, respawnAges, clearsSince, sinceClear>>

HistoryInit ==
    /\ Init
    /\ respawnAges = <<>>
    /\ clearsSince = <<>>
    /\ sinceClear = <<>>

RespawnAdded ==
    /\ respawnAges' = Append(respawnAges, 0)
    /\ clearsSince' = Append(clearsSince, 0)
    /\ sinceClear' = Append(sinceClear, 0)

HistoryCleared ==
    /\ clearsSince' = [i \in 1..Len(clearsSince) |-> clearsSince[i] + 1]
    /\ sinceClear' = <<>>
    /\ UNCHANGED respawnAges

\* What leaves the window is forgotten.
HistoryAges ==
    /\ respawnAges' = WithinWindow(Older(respawnAges))
    /\ clearsSince' = SubSeq(clearsSince,
                             Len(clearsSince) - Len(respawnAges') + 1,
                             Len(clearsSince))
    /\ sinceClear' = WithinWindow(Older(sinceClear))

HistoryNext ==
    \/ /\ BeginRespawn
       /\ IF procs' # procs
            THEN RespawnAdded
            ELSE UNCHANGED <<respawnAges, clearsSince, sinceClear>>
    \/ Tick /\ HistoryAges
    \/ /\ BeginRestart \/ Terminated
       /\ IF crashAges # <<>> /\ crashAges' = <<>>
            THEN HistoryCleared
            ELSE UNCHANGED <<respawnAges, clearsSince, sinceClear>>
    \/ /\ Start \/ Stop \/ Restart \/ Shutdown \/ BeginStart
          \/ BeginStop \/ Spawned \/ Settle \/ SpawnError \/ Escalate
          \/ (\E p \in procs : ProcessExit(p))
          \/ (\E s \in sleepers : Wake(s))
       /\ UNCHANGED <<respawnAges, clearsSince, sinceClear>>

HistorySpec == HistoryInit /\ [][HistoryNext]_historyVars /\ Fairness

\* "restartCount/maxRestarts exists to bound a rapid crash loop": of any cap + 2
\* automatic respawns within one window, a restart() that cleared the crash
\* history came between the first and the last.  So one window holds cap + 1 of
\* them (the first may follow a crash that lies just before it), and as many
\* again for each such restart() in it: nothing else the operator does adds any.
RespawnRateIsBounded ==
    \A i \in 1..Len(respawnAges) :
        i + MaxRestarts + 1 <= Len(respawnAges) =>
            clearsSince[i] > clearsSince[i + MaxRestarts + 1]
=============================================================================
