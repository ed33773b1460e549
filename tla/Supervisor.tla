----------------------------- MODULE Supervisor -----------------------------
(***************************************************************************)
(* The miner supervisor: apps/backend/src/miner/supervisor.ts.             *)
(*                                                                         *)
(* Every lifecycle operation (start, stop, restart, and the respawn after  *)
(* a crash) runs under one promise-chain lock.  An operation holds the     *)
(* lock across its awaits; what interleaves with it are the events of the  *)
(* event loop: the child's spawn, error and exit events, timers, and new   *)
(* requests from the HTTP routes, which queue behind it.  A free lock runs *)
(* its next waiter in a microtask, before any other event (EventTurn).     *)
(*                                                                         *)
(* A child process is named by the generation that forked it; 0 is null.   *)
(* Times are kept as ages and countdowns in ticks, so no clock grows.      *)
(* The kill grace (STOP_GRACE_MS) and the settle window are untimed: their *)
(* timers may fire at any moment, which includes the real one.             *)
(***************************************************************************)
EXTENDS Integers, Sequences, FiniteSets

CONSTANTS
    MaxRestarts,    \* options.maxRestarts: crashes tolerated in one window
    CrashWindow,    \* options.crashWindowMs, in ticks
    FastExit,       \* options.fastExitMs, in ticks
    BackoffBase,    \* options.backoffBaseMs, in ticks
    BackoffCap,     \* options.backoffCapMs, in ticks
    MaxQueue,       \* bound: operations waiting for the lock
    MaxGeneration   \* bound: no request and no crash past this generation

Smaller(a, b) == IF a <= b THEN a ELSE b

\* The delay before the respawn that follows the n-th crash of a window.
BackoffDelay(n) == Smaller(BackoffBase * 2 ^ (n - 1), BackoffCap)

ASSUME BoundsAssumption ==
    /\ MaxRestarts \in Nat
    /\ CrashWindow \in Nat
    /\ FastExit \in Nat
    /\ MaxQueue \in Nat
    /\ MaxGeneration \in Nat

\* An integer power is a number: TLC evaluates it, the provers cannot.
ASSUME BackoffAssumption == \A n \in 1..MaxRestarts : BackoffDelay(n) \in Nat

VARIABLES
    state,            \* MinerState, what every consumer is told
    miningSession,    \* the miner_sessions row of this run: "open", "none"
    restartCount,     \* crashes of the current window
    crashAges,        \* crashTimes, as ages, oldest first
    child,            \* this.child: the generation of the process, or 0
    generation,       \* this.generation
    intentionalStop,  \* this.intentionalStop
    closed,           \* this.closed
    uptime,           \* age of startedAt, saturating at FastExit
    queue,            \* operations waiting for the lock, oldest first
    lock,             \* "free", or what its holder is doing: spawnOnce() has
                      \* "forked" and is "settling" once the process emitted
                      \* spawn; terminate() sent SIGTERM ("signalled") and
                      \* then SIGKILL ("killed")
    awaited,          \* the process the holder's promise waits on, or 0
    finalState,       \* terminate()'s argument
    sleepers,         \* scheduleRestart() calls in their backoff sleep
    procs             \* the processes that really exist

crashVars == <<restartCount, crashAges>>
lockVars  == <<lock, awaited, finalState>>
reported  == <<state, miningSession>>
vars == <<state, miningSession, restartCount, crashAges, child, generation,
          intentionalStop, closed, uptime, queue, lock, awaited, finalState,
          sleepers, procs>>

MinerStates == {"STOPPED", "STARTING", "RUNNING", "RESTARTING", "CRASHED"}
Operations  == {"start", "stop", "restart", "respawn"}
Spawning    == lock \in {"forked", "settling"}
Terminating == lock \in {"signalled", "killed"}

TypeOK ==
    /\ state \in MinerStates
    /\ miningSession \in {"open", "none"}
    /\ restartCount \in Nat
    /\ crashAges \in Seq(Nat)
    /\ child \in Nat
    /\ generation \in Nat
    /\ intentionalStop \in BOOLEAN
    /\ closed \in BOOLEAN
    /\ uptime \in 0..FastExit
    /\ queue \in Seq(Operations)
    /\ lock \in {"free", "forked", "settling", "signalled", "killed"}
    /\ awaited \in Nat
    /\ finalState \in {"STOPPED", "RESTARTING"}
    /\ sleepers \subseteq [gen : Nat, left : Nat]
    /\ procs \subseteq Nat

Init ==
    /\ state = "STOPPED"
    /\ miningSession = "none"
    /\ restartCount = 0
    /\ crashAges = <<>>
    /\ child = 0
    /\ generation = 0
    /\ intentionalStop = FALSE
    /\ closed = FALSE
    /\ uptime = FastExit
    /\ queue = <<>>
    /\ lock = "free"
    /\ awaited = 0
    /\ finalState = "STOPPED"
    /\ sleepers = {}
    /\ procs = {}

-----------------------------------------------------------------------------
(* Helpers.                                                                *)

\* setState(): silent when nothing changes; the mining session opens on
\* entry to RUNNING and closes on leaving it.
SetState(s) ==
    /\ state' = s
    /\ miningSession' = IF s = state THEN miningSession
                        ELSE IF s = "RUNNING" THEN "open"
                        ELSE IF state = "RUNNING" THEN "none"
                        ELSE miningSession

\* An event other than the lock handing over only happens once the
\* microtasks of the previous one have run.
EventTurn == lock # "free" \/ queue = <<>>

\* this.child && this.child.exitCode === null
HasLiveChild == child # 0 /\ child \in procs

ReleaseLock ==
    /\ lock' = "free"
    /\ awaited' = 0
    /\ UNCHANGED finalState

\* spawnOnce() from STARTING to its await: g is the new generation and
\* others the processes that exist besides the one it forks.
Fork(g, others) ==
    /\ SetState("STARTING")
    /\ intentionalStop' = FALSE
    /\ uptime' = 0
    /\ generation' = g
    /\ child' = g
    /\ procs' = others \cup {g}
    /\ lock' = "forked"
    /\ awaited' = g
    /\ UNCHANGED finalState

\* What is left of ages, oldest first, when those past the window are evicted.
WithinWindow(ages) ==
    LET fresh == {i \in 1..Len(ages) : ages[i] <= CrashWindow}
    IN  SubSeq(ages, Len(ages) - Cardinality(fresh) + 1, Len(ages))

\* crashTimes after a crash: the new one is pushed, the old ones are evicted.
WithCrash(ages) == WithinWindow(Append(ages, 0))

-----------------------------------------------------------------------------
(* Requests: start(), stop(), restart() and shutdown() queue on the lock.  *)

CanRequest == EventTurn /\ Len(queue) < MaxQueue

Request(operation) ==
    /\ CanRequest
    /\ generation < MaxGeneration
    /\ queue' = Append(queue, operation)
    /\ UNCHANGED <<reported, crashVars, lockVars, child, generation,
                   intentionalStop, closed, uptime, sleepers, procs>>

Start   == Request("start")
Stop    == Request("stop")
Restart == Request("restart")

\* closed is set at once, the stop queues like any other.
Shutdown ==
    /\ CanRequest
    /\ ~closed
    /\ closed' = TRUE
    /\ queue' = Append(queue, "stop")
    /\ UNCHANGED <<reported, crashVars, lockVars, child, generation,
                   intentionalStop, uptime, sleepers, procs>>

-----------------------------------------------------------------------------
(* The lock hands over to the next operation.                              *)

Dequeue(operation) ==
    /\ lock = "free"
    /\ queue # <<>>
    /\ Head(queue) = operation
    /\ queue' = Tail(queue)

\* spawnOnce() for start() and for the respawn after a backoff.
SpawnOnce ==
    /\ IF closed \/ HasLiveChild
         THEN UNCHANGED <<reported, lockVars, child, generation,
                          intentionalStop, uptime, procs>>
         ELSE Fork(generation + 1, procs)
    /\ UNCHANGED <<crashVars, closed, sleepers>>

BeginStart   == Dequeue("start")   /\ SpawnOnce
BeginRespawn == Dequeue("respawn") /\ SpawnOnce

\* terminate() with a live child: signal it and wait.
AwaitExit(announced) ==
    /\ SetState(announced)
    /\ intentionalStop' = TRUE
    /\ generation' = generation + 1
    /\ lock' = "signalled"
    /\ awaited' = child
    /\ UNCHANGED <<crashVars, child, closed, uptime, sleepers, procs>>

\* Mutant: STOPPED announced before the process is gone.
BeginStopAnnouncing ==
    /\ Dequeue("stop")
    /\ IF HasLiveChild
         THEN AwaitExit("STOPPED") /\ finalState' = "STOPPED"
         ELSE /\ SetState("STOPPED")
              /\ intentionalStop' = TRUE
              /\ generation' = generation + 1
              /\ child' = 0
              /\ UNCHANGED <<crashVars, lockVars, closed, uptime, sleepers,
                             procs>>

BeginStop ==
    /\ Dequeue("stop")
    /\ IF HasLiveChild
         THEN AwaitExit(state) /\ finalState' = "STOPPED"
         ELSE /\ SetState("STOPPED")
              /\ intentionalStop' = TRUE
              /\ generation' = generation + 1
              /\ child' = 0
              /\ UNCHANGED <<crashVars, lockVars, closed, uptime, sleepers,
                             procs>>

\* With nothing to wait for, restart() runs straight through terminate()
\* into spawnOnce(), so the generation moves twice.
BeginRestart ==
    /\ Dequeue("restart")
    /\ IF closed
         THEN UNCHANGED <<reported, crashVars, lockVars, child, generation,
                          intentionalStop, closed, uptime, sleepers, procs>>
       ELSE IF HasLiveChild
         THEN AwaitExit("RESTARTING") /\ finalState' = "RESTARTING"
         ELSE /\ Fork(generation + 2, procs)
              /\ restartCount' = 0
              /\ crashAges' = <<>>
              /\ UNCHANGED <<closed, sleepers>>

-----------------------------------------------------------------------------
(* Events of the child process.                                            *)

\* The "spawn" event: the settle window opens.
Spawned ==
    /\ EventTurn
    /\ lock = "forked"
    /\ lock' = "settling"
    /\ UNCHANGED <<reported, crashVars, child, generation, intentionalStop,
                   closed, uptime, queue, awaited, finalState, sleepers, procs>>

\* The settle window passes without an exit: spawnOnce() resumes.
Settle ==
    /\ EventTurn
    /\ lock = "settling"
    /\ IF generation = awaited /\ child = awaited /\ awaited \in procs
         THEN SetState("RUNNING")
         ELSE UNCHANGED reported
    /\ ReleaseLock
    /\ UNCHANGED <<crashVars, child, generation, intentionalStop, closed,
                   uptime, queue, sleepers, procs>>

\* onSpawnError(): the process never existed, spawnOnce() resumes too.
SpawnError ==
    /\ EventTurn
    /\ lock = "forked"
    /\ procs' = procs \ {awaited}
    /\ IF generation = awaited
         THEN child' = 0 /\ SetState("CRASHED")
         ELSE UNCHANGED <<child, reported>>
    /\ ReleaseLock
    /\ UNCHANGED <<crashVars, generation, intentionalStop, closed, uptime,
                   queue, sleepers>>

\* Mutants: the cap is off by one; giving up is not announced.
ScheduleRestartPastCap(ages) ==
    IF Len(ages) > MaxRestarts + 1
      THEN SetState("CRASHED") /\ UNCHANGED sleepers
      ELSE /\ SetState("RESTARTING")
           /\ sleepers' = sleepers \cup
                {[gen |-> generation, left |-> BackoffDelay(Len(ages))]}

\* scheduleRestart(), called with the window already counted in ages.
ScheduleRestart(ages) ==
    IF Len(ages) > MaxRestarts
      THEN SetState("CRASHED") /\ UNCHANGED sleepers
      ELSE /\ SetState("RESTARTING")
           /\ sleepers' = sleepers \cup
                {[gen |-> generation, left |-> BackoffDelay(Len(ages))]}

\* onExit() for the current generation.
OnExit ==
    /\ child' = 0
    /\ IF intentionalStop
         THEN SetState("STOPPED") /\ UNCHANGED <<crashVars, sleepers>>
       ELSE IF uptime < FastExit
         THEN SetState("CRASHED") /\ UNCHANGED <<crashVars, sleepers>>
       ELSE /\ crashAges' = WithCrash(crashAges)
            /\ restartCount' = Len(crashAges')
            /\ ScheduleRestart(crashAges')

\* The process p exits.  Its onExit handler runs, ignored if the generation
\* has moved on, and spawnOnce(), if it was waiting on p, gives up the lock.
ProcessExit(p) ==
    /\ EventTurn
    /\ p \in procs
    /\ awaited = p => lock = "settling"
    /\ generation < MaxGeneration
    /\ procs' = procs \ {p}
    /\ IF p = generation
         THEN OnExit
         ELSE UNCHANGED <<child, reported, crashVars, sleepers>>
    /\ IF awaited = p
         THEN ReleaseLock
         ELSE UNCHANGED lockVars
    /\ UNCHANGED <<generation, intentionalStop, closed, uptime, queue>>

\* Mutant: asks again instead of killing.
EscalatePolitely ==
    /\ EventTurn
    /\ lock = "signalled"
    /\ UNCHANGED vars

\* terminate()'s grace runs out.
Escalate ==
    /\ EventTurn
    /\ lock = "signalled"
    /\ lock' = "killed"
    /\ UNCHANGED <<reported, crashVars, child, generation, intentionalStop,
                   closed, uptime, queue, awaited, finalState, sleepers, procs>>

\* The process terminate() waits on is gone: stop() settles, restart()
\* clears the crash history and spawns unless shutdown() came meanwhile.
Terminated ==
    /\ EventTurn
    /\ Terminating
    /\ IF finalState = "RESTARTING" /\ ~closed
         THEN Fork(generation + 1, procs \ {awaited})
         ELSE /\ procs' = procs \ {awaited}
              /\ child' = IF child = awaited THEN 0 ELSE child
              /\ SetState(finalState)
              /\ ReleaseLock
              /\ UNCHANGED <<generation, intentionalStop, uptime>>
    /\ IF finalState = "RESTARTING"
         THEN restartCount' = 0 /\ crashAges' = <<>>
         ELSE UNCHANGED crashVars
    /\ UNCHANGED <<closed, queue, sleepers>>

-----------------------------------------------------------------------------
(* Time.                                                                   *)

\* Mutant: the respawn queues whatever happened during the sleep.
WakeRegardless(s) ==
    /\ EventTurn
    /\ s \in sleepers
    /\ s.left = 0
    /\ sleepers' = sleepers \ {s}
    /\ queue' = Append(queue, "respawn")
    /\ UNCHANGED <<reported, crashVars, lockVars, child, generation,
                   intentionalStop, closed, uptime, procs>>

\* A backoff sleep ends: the respawn queues unless the miner moved on.
Wake(s) ==
    /\ EventTurn
    /\ s \in sleepers
    /\ s.left = 0
    /\ sleepers' = sleepers \ {s}
    /\ queue' = IF s.gen # generation \/ intentionalStop
                  THEN queue
                  ELSE Append(queue, "respawn")
    /\ UNCHANGED <<reported, crashVars, lockVars, child, generation,
                   intentionalStop, closed, uptime, procs>>

Older(ages) == [i \in 1..Len(ages) |-> Smaller(ages[i] + 1, CrashWindow + 1)]

\* A timer that is due may fire late: its countdown waits at zero.
Tick ==
    /\ EventTurn
    /\ uptime' = Smaller(uptime + 1, FastExit)
    /\ crashAges' = Older(crashAges)
    /\ sleepers' = {[gen |-> s.gen, left |-> IF s.left = 0 THEN 0 ELSE s.left - 1] :
                        s \in sleepers}
    /\ UNCHANGED <<reported, restartCount, lockVars, child, generation,
                   intentionalStop, closed, queue, procs>>

-----------------------------------------------------------------------------
Next ==
    \/ Start \/ Stop \/ Restart \/ Shutdown
    \/ BeginStart \/ BeginRespawn \/ BeginStop \/ BeginRestart
    \/ Spawned \/ Settle \/ SpawnError
    \/ \E p \in procs : ProcessExit(p)
    \/ Escalate \/ Terminated
    \/ \E s \in sleepers : Wake(s)
    \/ Tick

\* What the runtime guarantees: microtasks and due timers run, a forked
\* process emits spawn or error, and a process sent SIGKILL exits.  A process
\* sent only SIGTERM may ignore it, and nothing makes a miner crash.
Fairness ==
    /\ WF_vars(BeginStart \/ BeginRespawn \/ BeginStop \/ BeginRestart)
    /\ WF_vars(Spawned \/ SpawnError)
    /\ WF_vars(Settle)
    /\ WF_vars(Escalate)
    /\ WF_vars(lock = "killed" /\ Terminated)
    /\ WF_vars(\E s \in sleepers : Wake(s))
    /\ WF_vars(Tick)

Spec     == Init /\ [][Next]_vars
FairSpec == Spec /\ Fairness

-----------------------------------------------------------------------------
(* Properties.                                                             *)

\* Every process that exists is the one the supervisor holds a handle to, so
\* at most one miner is ever logged in and stop() can always reach it.  Holds
\* across restart(), where the old child dies while the new one is due.
OneMiner == \A p \in procs : p = child

\* What the dashboard, the health notifications and the mined-time history
\* are told is true of the processes: RUNNING means a live child and an open
\* mining session, a resting state means no process at all.
ReportedStateIsTrue ==
    /\ state = "RUNNING" => HasLiveChild
    /\ state \in {"STOPPED", "CRASHED"} => procs = {}
    /\ miningSession = "open" <=> state = "RUNNING"

\* There is one miner, and it is the one that is reported.
MinerIsAccountedFor == OneMiner /\ ReportedStateIsTrue

\* terminate() both sets intentionalStop and moves the generation on, and its
\* comment calls that defence in depth: after a stop neither guard of
\* scheduleRestart() would let the pending respawn through on its own.
StopCancelsBackoff ==
    intentionalStop => \A s \in sleepers : s.gen # generation

\* The crash backoff never brings back a miner that was stopped, that gave
\* up, or that somebody else already started: a respawn forks only from the
\* RESTARTING its own crash announced, with no process alive.
BackoffForksOnlyAfterItsCrash ==
    [][BeginRespawn /\ procs' # procs =>
          /\ state = "RESTARTING"
          /\ procs = {}
          /\ ~intentionalStop]_vars

\* A start, a restart half way through or a backoff that was on its way when
\* shutdown() was called never forks a process that would outlive this one.
NothingForksAfterShutdown == [][closed => procs' \subseteq procs]_vars

\* No miner comes back that was stopped, was replaced, or was shut down with us.
ForksAreWanted == BackoffForksOnlyAfterItsCrash /\ NothingForksAfterShutdown

\* Late exit events, operators, restarts half way through and sleeping respawns may
\* overlap: there is one miner, the one that is reported, and never one that nobody
\* wants (supervisor.ts:332-336, 428-435).
OneWantedMiner == []MinerIsAccountedFor /\ ForksAreWanted

\* The reported life cycle: what every consumer may rely on, see
\* MinerLifecycle.tla.
Lifecycle == INSTANCE MinerLifecycle WITH alive <- (procs # {})

\* The supervisor implements the life cycle its consumers are told of: in
\* particular STOPPED is never announced while a process lives, and RUNNING
\* never without the STARTING of a process that is still there.
ImplementsLifecycle == Lifecycle!LifecycleSpec

\* Every operation finishes, also against a miner that ignores SIGTERM, and
\* hands the lock on: nobody waits for it for ever.
LockIsReleased == []<>(lock = "free" /\ queue = <<>>)

\* RESTARTING is always on its way somewhere: no path leaves the dashboard
\* showing a restart nobody is working on.
RestartingResolves == state = "RESTARTING" ~> state # "RESTARTING"

\* After shutdown() the miner is gone and stays gone.
ShutdownLeavesNothing == closed ~> [](procs = {} /\ state = "STOPPED")

\* Nothing hangs: no operation keeps the others out, no restart stays under way
\* and no shutdown leaves a miner behind.
NothingHangs == LockIsReleased /\ RestartingResolves /\ ShutdownLeavesNothing
=============================================================================
