-------------------------- MODULE SupervisorProofs --------------------------
(***************************************************************************)
(* Theorems about Supervisor.tla, and CrashLoop.tla, for every value of    *)
(* their constants.                                                        *)
(***************************************************************************)
EXTENDS CrashLoop, TLAPS, SequenceTheorems, FiniteSetTheorems

(* The inductive invariant, in parts.                                      *)

\* The handle and the processes agree, and no child is newer than the
\* current generation.
HandleInv ==
    /\ procs = IF child = 0 THEN {} ELSE {child}
    /\ child <= generation

\* While spawnOnce() waits, the child it waits on is the current generation.
SpawnInv ==
    Spawning =>
        /\ child # 0 /\ awaited = child /\ child = generation
        /\ state = "STARTING"
        /\ ~intentionalStop

\* While terminate() waits, the generation is already ahead of the child, so
\* the child's own handlers stay silent.
TerminateInv ==
    Terminating =>
        /\ child # 0 /\ awaited = child /\ child < generation
        /\ intentionalStop
        /\ state = IF finalState = "RESTARTING" THEN "RESTARTING" ELSE "RUNNING"

\* With the lock free there is a child exactly when it is running.
FreeInv ==
    lock = "free" =>
        /\ child # 0 <=> state = "RUNNING"
        /\ child # 0 => child = generation /\ ~intentionalStop
        /\ state # "STARTING"

\* A backoff sleep of the current generation means the crash it follows is
\* still the last thing that happened.
BackoffInv ==
    \A s \in sleepers :
        /\ s.gen <= generation
        /\ s.gen = generation =>
              /\ lock = "free" /\ child = 0
              /\ state = "RESTARTING" /\ ~intentionalStop

\* A queued respawn is alone in the queue and is about to run.
RespawnInv ==
    \A i \in 1..Len(queue) : queue[i] = "respawn" =>
        /\ Len(queue) = 1
        /\ lock = "free" /\ child = 0
        /\ state = "RESTARTING" /\ ~intentionalStop

SessionInv == miningSession = "open" <=> state = "RUNNING"

CoreInv == HandleInv /\ SpawnInv /\ TerminateInv /\ FreeInv /\ SessionInv

IInv == TypeOK /\ CoreInv /\ BackoffInv /\ RespawnInv

-----------------------------------------------------------------------------
(* Type correctness.                                                       *)

\* Evicting the old crashes leaves a sequence that holds the new one.
LEMMA WithCrashType ==
    ASSUME NEW ages \in Seq(Nat)
    PROVE  WithCrash(ages) \in Seq(Nat) /\ Len(WithCrash(ages)) \in Nat \ {0}
<1> DEFINE pushed == Append(ages, 0)
           fresh  == {i \in 1..Len(pushed) : pushed[i] <= CrashWindow}
<1>1. /\ pushed \in Seq(Nat)
      /\ Len(pushed) \in Nat \ {0}
      /\ pushed[Len(pushed)] = 0
  BY AppendProperties
<1>2. IsFiniteSet(1..Len(pushed)) /\ Cardinality(1..Len(pushed)) = Len(pushed)
  BY <1>1, FS_Interval
<1>3. IsFiniteSet(fresh) /\ Cardinality(fresh) \in Nat
      /\ Cardinality(fresh) <= Len(pushed)
  BY <1>2, FS_Subset, FS_CardinalityType
<1>4. Len(pushed) \in fresh
  BY <1>1, BoundsAssumption
<1>5. Cardinality(fresh) # 0
  BY <1>3, <1>4, FS_EmptySet
<1>6. \A i \in Len(pushed) - Cardinality(fresh) + 1 .. Len(pushed) :
          pushed[i] \in Nat
  <2> SUFFICES ASSUME NEW i \in Len(pushed) - Cardinality(fresh) + 1 .. Len(pushed)
               PROVE  pushed[i] \in Nat
    OBVIOUS
  <2> HIDE DEF pushed, fresh
  <2>1. i \in 1..Len(pushed)
    BY <1>1, <1>3
  <2> QED
    BY <1>1, <2>1, ElementOfSeq
<1> HIDE DEF pushed, fresh
<1>7. SubSeq(pushed, Len(pushed) - Cardinality(fresh) + 1, Len(pushed))
         \in Seq(Nat)
      /\ Len(SubSeq(pushed, Len(pushed) - Cardinality(fresh) + 1, Len(pushed)))
         = Cardinality(fresh)
  BY <1>1, <1>3, <1>5, <1>6, SubSeqProperties
<1>8. WithCrash(ages) =
        SubSeq(pushed, Len(pushed) - Cardinality(fresh) + 1, Len(pushed))
  BY DEF WithCrash, WithinWindow, pushed, fresh
<1> QED
  BY <1>3, <1>5, <1>7, <1>8

\* The Boolean fields, apart from the rest: a flag is only ever set or cleared.
FlagsOK == intentionalStop \in BOOLEAN /\ closed \in BOOLEAN

LEMMA FlagsStep == FlagsOK /\ [Next]_vars => FlagsOK'
<1> SUFFICES ASSUME FlagsOK, [Next]_vars PROVE FlagsOK'
  OBVIOUS
<1> USE DEF FlagsOK
<1>1. CASE Start \/ Stop \/ Restart \/ Shutdown
  BY <1>1, Zenon DEF Start, Stop, Restart, Request, Shutdown
<1>2. CASE BeginStart \/ BeginRespawn
  BY <1>2, Zenon DEF BeginStart, BeginRespawn, SpawnOnce, Fork
<1>3. CASE BeginStop
  BY <1>3, Zenon DEF BeginStop, AwaitExit
<1>4. CASE BeginRestart
  BY <1>4, Zenon DEF BeginRestart, AwaitExit, Fork
<1>5. CASE Spawned \/ Settle \/ SpawnError \/ Escalate \/ Tick
  BY <1>5, Zenon DEF Spawned, Settle, SpawnError, Escalate, Tick
<1>6. CASE Terminated
  BY <1>6, Zenon DEF Terminated, Fork
<1>7. CASE (\E p \in procs : ProcessExit(p)) \/ (\E s \in sleepers : Wake(s))
  BY <1>7, Zenon DEF ProcessExit, Wake
<1>8. CASE UNCHANGED vars
  BY <1>8, Zenon DEF vars
<1> QED
  BY <1>1, <1>2, <1>3, <1>4, <1>5, <1>6, <1>7, <1>8 DEF Next

LEMMA TypeInit == Init => TypeOK
<1> SUFFICES ASSUME Init PROVE TypeOK
  OBVIOUS
<1>1. FlagsOK
  BY Zenon DEF Init, FlagsOK
<1> QED
  BY <1>1, BoundsAssumption, EmptySeq DEF Init, TypeOK, FlagsOK, MinerStates

\* setState() and a fork keep the types of what they assign.
LEMMA SetStateType ==
    ASSUME miningSession \in {"open", "none"}, NEW s \in MinerStates, SetState(s)
    PROVE  state' \in MinerStates /\ miningSession' \in {"open", "none"}
  BY DEF SetState

LEMMA ForkType ==
    ASSUME TypeOK, NEW g \in Nat, NEW others \in SUBSET Nat, Fork(g, others)
    PROVE  /\ state' \in MinerStates /\ miningSession' \in {"open", "none"}
           /\ uptime' \in 0..FastExit
           /\ generation' \in Nat /\ child' \in Nat /\ procs' \subseteq Nat
           /\ lock' \in {"free", "forked", "settling", "signalled", "killed"}
           /\ awaited' \in Nat
           /\ finalState' \in {"STOPPED", "RESTARTING"}
<1>1. state' \in MinerStates /\ miningSession' \in {"open", "none"}
  BY SetStateType DEF Fork, TypeOK, MinerStates
<1> QED
  BY <1>1, BoundsAssumption DEF Fork, TypeOK

\* A request adds one operation to the queue; so does a woken sleeper.
LEMMA QueueGrows ==
    ASSUME NEW operation \in Operations, queue \in Seq(Operations)
    PROVE  Append(queue, operation) \in Seq(Operations)
  BY AppendProperties

LEMMA TypeStep == TypeOK /\ [Next]_vars => TypeOK'
<1> SUFFICES ASSUME TypeOK, [Next]_vars PROVE TypeOK'
  OBVIOUS
<1>0. FlagsOK'
  BY FlagsStep DEF FlagsOK, TypeOK
<1> USE <1>0 DEF TypeOK, FlagsOK, reported, crashVars, lockVars
<1>1. ASSUME Start \/ Stop \/ Restart PROVE TypeOK'
  BY <1>1, QueueGrows DEF Start, Stop, Restart, Request, Operations
<1>2. CASE Shutdown
  BY <1>2, QueueGrows DEF Shutdown, Operations
<1>3. ASSUME NEW operation, Dequeue(operation)
      PROVE  queue' \in Seq(Operations)
  BY <1>3, HeadTailProperties DEF Dequeue
<1>4. ASSUME SpawnOnce, queue' \in Seq(Operations) PROVE TypeOK'
  <2>1. CASE closed \/ HasLiveChild
    BY <1>4, <2>1 DEF SpawnOnce
  <2>2. CASE ~(closed \/ HasLiveChild)
    BY <1>4, <2>2, ForkType DEF SpawnOnce
  <2> QED
    BY <2>1, <2>2
<1>5. CASE BeginStart \/ BeginRespawn
  BY <1>3, <1>4, <1>5 DEF BeginStart, BeginRespawn
<1>6. ASSUME NEW s \in MinerStates, AwaitExit(s), queue' \in Seq(Operations),
             finalState' \in {"STOPPED", "RESTARTING"}
      PROVE  TypeOK'
  BY <1>6, SetStateType DEF AwaitExit
<1>7. CASE BeginStop
  <2>1. CASE HasLiveChild
    BY <1>3, <1>6, <1>7, <2>1 DEF BeginStop
  <2>2. CASE ~HasLiveChild
    <3>1. state' \in MinerStates /\ miningSession' \in {"open", "none"}
      BY <1>7, <2>2, SetStateType DEF BeginStop, MinerStates
    <3>2. /\ child' = 0 /\ generation' = generation + 1
          /\ UNCHANGED <<crashVars, lockVars, uptime, sleepers, procs>>
      BY <1>7, <2>2 DEF BeginStop
    <3>3. queue' \in Seq(Operations)
      BY <1>3, <1>7 DEF BeginStop
    <3> QED
      BY <3>1, <3>2, <3>3
  <2> QED
    BY <2>1, <2>2
<1>8. CASE BeginRestart
  <2>1. CASE closed
    BY <1>3, <1>8, <2>1 DEF BeginRestart
  <2>2. CASE ~closed /\ HasLiveChild
    BY <1>3, <1>6, <1>8, <2>2 DEF BeginRestart, MinerStates
  <2>3. CASE ~closed /\ ~HasLiveChild
    BY <1>3, <1>8, <2>3, ForkType, EmptySeq DEF BeginRestart
  <2> QED
    BY <2>1, <2>2, <2>3
<1>9. CASE Spawned \/ Escalate
  BY <1>9 DEF Spawned, Escalate
<1>10. CASE Settle
  <2>1. state' \in MinerStates /\ miningSession' \in {"open", "none"}
    BY <1>10, SetStateType DEF Settle, MinerStates
  <2> QED
    BY <1>10, <2>1 DEF Settle, ReleaseLock
<1>11. CASE SpawnError
  <2>1. state' \in MinerStates /\ miningSession' \in {"open", "none"}
    BY <1>11, SetStateType DEF SpawnError, MinerStates
  <2> QED
    BY <1>11, <2>1 DEF SpawnError, ReleaseLock
<1>12. ASSUME NEW p \in procs, ProcessExit(p) PROVE TypeOK'
  <2>1. CASE p # generation \/ intentionalStop \/ uptime < FastExit
    <3>1. state' \in MinerStates /\ miningSession' \in {"open", "none"}
      BY <1>12, <2>1, SetStateType DEF ProcessExit, OnExit, MinerStates
    <3> QED
      BY <1>12, <2>1, <3>1 DEF ProcessExit, OnExit, ReleaseLock
  <2>2. CASE ~(p # generation \/ intentionalStop \/ uptime < FastExit)
    <3> DEFINE ages == WithCrash(crashAges)
    <3>1. ages \in Seq(Nat) /\ Len(ages) \in Nat \ {0}
      BY WithCrashType
    <3>2. crashAges' = ages /\ restartCount' = Len(ages) /\ ScheduleRestart(ages)
      BY <1>12, <2>2 DEF ProcessExit, OnExit
    <3> HIDE DEF ages
    <3>3. Len(ages) <= MaxRestarts => BackoffDelay(Len(ages)) \in Nat
      BY <3>1, BackoffAssumption, BoundsAssumption
    <3>4. sleepers' \subseteq [gen : Nat, left : Nat]
      <4>1. CASE Len(ages) > MaxRestarts
        BY <3>2, <4>1 DEF ScheduleRestart
      <4>2. CASE Len(ages) <= MaxRestarts
        <5>1. BackoffDelay(Len(ages)) \in Nat
          BY <3>3, <4>2
        <5>2. sleepers' = sleepers \cup
                {[gen |-> generation, left |-> BackoffDelay(Len(ages))]}
          BY <3>1, <3>2, <4>2, BoundsAssumption DEF ScheduleRestart
        <5> QED
          BY <5>1, <5>2
      <4> QED
        BY <3>1, <4>1, <4>2, BoundsAssumption
    <3>5. state' \in MinerStates /\ miningSession' \in {"open", "none"}
      BY <3>2, SetStateType DEF ScheduleRestart, MinerStates
    <3> QED
      BY <1>12, <2>2, <3>1, <3>2, <3>4, <3>5 DEF ProcessExit, OnExit, ReleaseLock
  <2> QED
    BY <2>1, <2>2
<1>13. CASE Terminated
  <2>1. crashAges' \in Seq(Nat) /\ restartCount' \in Nat
    <3>1. CASE finalState = "RESTARTING"
      BY <1>13, <3>1, EmptySeq DEF Terminated
    <3>2. CASE finalState # "RESTARTING"
      BY <1>13, <3>2 DEF Terminated
    <3> QED
      BY <3>1, <3>2
  <2>2. CASE finalState = "RESTARTING" /\ ~closed
    BY <1>13, <2>1, <2>2, ForkType DEF Terminated
  <2>3. CASE ~(finalState = "RESTARTING" /\ ~closed)
    <3>1. state' \in MinerStates /\ miningSession' \in {"open", "none"}
      BY <1>13, <2>3, SetStateType DEF Terminated, MinerStates
    <3>2. /\ procs' = procs \ {awaited}
          /\ child' = IF child = awaited THEN 0 ELSE child
          /\ ReleaseLock
          /\ UNCHANGED <<generation, intentionalStop, uptime>>
          /\ UNCHANGED <<closed, queue, sleepers>>
      BY <1>13, <2>3, Zenon DEF Terminated
    <3> QED
      BY <2>1, <3>1, <3>2 DEF ReleaseLock
  <2> QED
    BY <2>2, <2>3
<1>14. ASSUME NEW s \in sleepers, Wake(s) PROVE TypeOK'
  <2>1. queue' \in Seq(Operations)
    BY <1>14, QueueGrows DEF Wake, Operations
  <2> QED
    BY <1>14, <2>1 DEF Wake
<1>15. CASE Tick
  <2>1. crashAges' \in Seq(Nat)
    <3>1. \A i \in 1..Len(crashAges) :
              Smaller(crashAges[i] + 1, CrashWindow + 1) \in Nat
      BY ElementOfSeq, BoundsAssumption DEF Smaller
    <3> QED
      BY <1>15, <3>1, LenProperties, IsASeq DEF Tick, Older
  <2>2. sleepers' \subseteq [gen : Nat, left : Nat]
    BY <1>15 DEF Tick
  <2>3. uptime' \in 0..FastExit
    BY <1>15, BoundsAssumption DEF Tick, Smaller
  <2> QED
    BY <1>15, <2>1, <2>2, <2>3 DEF Tick
<1>16. CASE UNCHANGED vars
  BY <1>16 DEF vars
<1> QED
  BY <1>1, <1>2, <1>5, <1>7, <1>8, <1>9, <1>10, <1>11, <1>12,
     <1>13, <1>14, <1>15, <1>16 DEF Next

\* The supervisor's variables never leave their types.
THEOREM TypeCorrect == Spec => []TypeOK
<1>1. Init => TypeOK
  BY TypeInit
<1>2. TypeOK /\ [Next]_vars => TypeOK'
  BY TypeStep
<1> QED
  BY <1>1, <1>2, PTL DEF Spec

-----------------------------------------------------------------------------
(* The inductive invariant.                                                *)

NoRespawnQueued == \A i \in 1..Len(queue) : queue[i] # "respawn"

\* Whatever leaves the queue, no respawn is left behind in it.
LEMMA DequeueLeavesNoRespawn ==
    ASSUME IInv, NEW operation, Dequeue(operation)
    PROVE  NoRespawnQueued'
<1>1. /\ Len(queue') = Len(queue) - 1
      /\ \A i \in 1..Len(queue') : queue'[i] = queue[i + 1]
  BY HeadTailProperties DEF Dequeue, IInv, TypeOK
<1>2. Len(queue) \in Nat
  BY DEF IInv, TypeOK
<1> QED
  BY <1>1, <1>2 DEF NoRespawnQueued, IInv, RespawnInv

\* An event finds no respawn in the queue: it would have run already.
LEMMA EventFindsNoRespawn == IInv /\ EventTurn => NoRespawnQueued
<1> SUFFICES ASSUME IInv, EventTurn PROVE NoRespawnQueued
  OBVIOUS
<1>1. CASE lock # "free"
  BY <1>1 DEF IInv, RespawnInv, NoRespawnQueued
<1>2. CASE queue = <<>>
  BY <1>2, EmptySeq DEF NoRespawnQueued
<1> QED
  BY <1>1, <1>2 DEF EventTurn

\* A request is not a respawn, so it puts none in the queue.
LEMMA RequestQueuesNoRespawn ==
    ASSUME IInv, EventTurn, NEW operation \in {"start", "stop", "restart"},
           queue' = Append(queue, operation)
    PROVE  NoRespawnQueued'
<1>1. NoRespawnQueued
  BY EventFindsNoRespawn
<1>2. /\ Len(queue') = Len(queue) + 1 /\ Len(queue) \in Nat
      /\ \A i \in 1..Len(queue) : queue'[i] = queue[i]
      /\ queue'[Len(queue) + 1] = operation
  BY AppendProperties DEF IInv, TypeOK, Operations
<1> QED
  BY <1>1, <1>2 DEF NoRespawnQueued

LEMMA NoRespawnSuffices == NoRespawnQueued' => RespawnInv'
  BY DEF NoRespawnQueued, RespawnInv

\* A fork into a world without processes establishes the core by itself, and
\* leaves every backoff sleep behind.
LEMMA ForkEstablishes ==
    ASSUME IInv, NEW g \in Nat, g > generation, Fork(g, {}),
           sleepers' = sleepers
    PROVE  CoreInv' /\ BackoffInv'
<1>1. TypeOK
  BY DEF IInv
<1>2. BackoffInv'
  BY <1>1 DEF IInv, BackoffInv, TypeOK, Fork
<1>3. ~intentionalStop'
  BY Zenon DEF Fork
<1>4. CoreInv'
  BY <1>1, <1>3 DEF IInv, CoreInv, HandleInv, SpawnInv, TerminateInv, FreeInv,
        SessionInv, TypeOK, Fork, SetState, Spawning, Terminating
<1> QED
  BY <1>2, <1>4

LEMMA IInvInit == Init => IInv
<1> SUFFICES ASSUME Init PROVE IInv
  OBVIOUS
<1>1. TypeOK
  BY TypeInit
<1>2. CoreInv
  BY DEF Init, CoreInv, HandleInv, SpawnInv, TerminateInv, FreeInv, SessionInv,
         Spawning, Terminating
<1>3. BackoffInv /\ RespawnInv
  BY EmptySeq DEF Init, BackoffInv, RespawnInv
<1> QED
  BY <1>1, <1>2, <1>3 DEF IInv

LEMMA IInvStep == IInv /\ [Next]_vars => IInv'
<1> SUFFICES ASSUME IInv, [Next]_vars PROVE IInv'
  OBVIOUS
<1>0. TypeOK /\ TypeOK'
  BY TypeStep DEF IInv
<1>a. HasLiveChild <=> child # 0
  BY <1>0 DEF IInv, CoreInv, HandleInv, HasLiveChild
<1> USE <1>0
<1> USE DEF IInv, CoreInv, HandleInv, SpawnInv, TerminateInv, FreeInv,
            SessionInv, Spawning, Terminating, reported, crashVars, lockVars
<1>1. CASE Start \/ Stop \/ Restart \/ Shutdown
  <2>1. CoreInv' /\ BackoffInv'
    BY <1>1 DEF Start, Stop, Restart, Request, Shutdown, BackoffInv
  <2>2. RespawnInv'
    BY <1>1, RequestQueuesNoRespawn, NoRespawnSuffices
       DEF Start, Stop, Restart, Request, Shutdown, CanRequest
  <2> QED
    BY <2>1, <2>2
<1>2. CASE BeginStart \/ BeginRespawn
  <2>1. RespawnInv'
    BY <1>2, DequeueLeavesNoRespawn, NoRespawnSuffices
       DEF BeginStart, BeginRespawn
  <2>2. CASE closed \/ HasLiveChild
    BY <1>2, <2>1, <2>2 DEF BeginStart, BeginRespawn, SpawnOnce, BackoffInv
  <2>3. CASE ~(closed \/ HasLiveChild)
    <3>1. procs = {} /\ Fork(generation + 1, procs) /\ sleepers' = sleepers
      BY <1>2, <1>a, <2>3 DEF BeginStart, BeginRespawn, SpawnOnce
    <3>2. CoreInv' /\ BackoffInv'
      BY <3>1, ForkEstablishes DEF TypeOK
    <3> QED
      BY <2>1, <3>2
  <2> QED
    BY <2>2, <2>3
<1>3. ASSUME NEW s \in MinerStates, AwaitExit(s), lock = "free", child # 0,
             finalState' \in {"STOPPED", "RESTARTING"},
             s = IF finalState' = "RESTARTING" THEN "RESTARTING" ELSE state
      PROVE  CoreInv' /\ BackoffInv'
  <2>1. intentionalStop'
    BY <1>3, Zenon DEF AwaitExit
  <2>2. BackoffInv'
    BY <1>3 DEF AwaitExit, BackoffInv, TypeOK
  <2> QED
    BY <1>3, <2>1, <2>2 DEF AwaitExit, SetState, TypeOK
<1>4. CASE BeginStop
  <2>1. RespawnInv' /\ lock = "free"
    BY <1>4, DequeueLeavesNoRespawn, NoRespawnSuffices DEF BeginStop, Dequeue
  <2>2. CASE HasLiveChild
    <3>1. AwaitExit(state) /\ finalState' = "STOPPED"
      BY <1>4, <2>2 DEF BeginStop
    <3> QED
      BY <1>3, <1>a, <2>1, <2>2, <3>1 DEF TypeOK
  <2>3. CASE ~HasLiveChild
    <3>1. /\ SetState("STOPPED") /\ child' = 0 /\ generation' = generation + 1
          /\ UNCHANGED <<lockVars, sleepers, procs>>
      BY <1>4, <2>3, Zenon DEF BeginStop
    <3>2. CoreInv'
      BY <1>a, <2>1, <2>3, <3>1 DEF SetState, TypeOK
    <3>3. BackoffInv'
      BY <3>1 DEF BackoffInv, TypeOK
    <3> QED
      BY <2>1, <3>2, <3>3
  <2> QED
    BY <2>2, <2>3
<1>5. CASE BeginRestart
  <2>1. RespawnInv' /\ lock = "free"
    BY <1>5, DequeueLeavesNoRespawn, NoRespawnSuffices DEF BeginRestart, Dequeue
  <2>2. CASE closed
    BY <1>5, <2>1, <2>2 DEF BeginRestart, BackoffInv
  <2>3. CASE ~closed /\ HasLiveChild
    <3>1. AwaitExit("RESTARTING") /\ finalState' = "RESTARTING"
      BY <1>5, <2>3 DEF BeginRestart
    <3> QED
      BY <1>3, <1>a, <2>1, <2>3, <3>1 DEF MinerStates
  <2>4. CASE ~closed /\ ~HasLiveChild
    <3>1. Fork(generation + 2, procs) /\ sleepers' = sleepers
      BY <1>5, <2>4, Zenon DEF BeginRestart
    <3>2. procs = {}
      BY <1>a, <2>4
    <3>3. CoreInv' /\ BackoffInv'
      BY <3>1, <3>2, ForkEstablishes DEF TypeOK
    <3> QED
      BY <2>1, <3>3
  <2> QED
    BY <2>2, <2>3, <2>4
<1>6. CASE Spawned \/ Escalate
  <2>1. RespawnInv'
    BY <1>6, EventFindsNoRespawn DEF Spawned, Escalate, RespawnInv, NoRespawnQueued
  <2>2. BackoffInv'
    BY <1>6 DEF Spawned, Escalate, BackoffInv
  <2> QED
    BY <1>6, <2>1, <2>2 DEF Spawned, Escalate
<1>7. CASE Settle \/ SpawnError
  <2>1. RespawnInv'
    BY <1>7, EventFindsNoRespawn DEF Settle, SpawnError, RespawnInv, NoRespawnQueued
  <2>2. BackoffInv'
    BY <1>7 DEF Settle, SpawnError, BackoffInv
  <2>3. CASE Settle
    <3>1. SetState("RUNNING") /\ ReleaseLock
      BY <2>3 DEF Settle
    <3> QED
      BY <2>1, <2>2, <2>3, <3>1 DEF Settle, SetState, ReleaseLock, TypeOK
  <2>4. CASE SpawnError
    <3>1. child' = 0 /\ procs' = {} /\ SetState("CRASHED") /\ ReleaseLock
      BY <2>4 DEF SpawnError
    <3> QED
      BY <2>1, <2>2, <2>4, <3>1 DEF SpawnError, SetState, ReleaseLock, TypeOK
  <2> QED
    BY <1>7, <2>3, <2>4
<1>8. ASSUME NEW p \in procs, ProcessExit(p) PROVE IInv'
  <2>1. p = child /\ ~Terminating /\ lock # "forked"
    BY <1>8 DEF ProcessExit, TypeOK
  <2>2. p = generation /\ ~intentionalStop
    BY <1>8, <2>1 DEF TypeOK
  <2>3. child' = 0 /\ procs' = {} /\ lock' = "free" /\ OnExit
    BY <1>8, <2>1, <2>2 DEF ProcessExit, OnExit, ReleaseLock, TypeOK
  <2>4. UNCHANGED <<generation, intentionalStop, queue>>
    BY <1>8 DEF ProcessExit
  <2>5. /\ state' \in {"CRASHED", "RESTARTING"}
        /\ SetState(state')
        /\ \/ sleepers' = sleepers
           \/ /\ state' = "RESTARTING"
              /\ \E left : sleepers' = sleepers \cup
                              {[gen |-> generation, left |-> left]}
    BY <2>2, <2>3 DEF OnExit, ScheduleRestart, SetState
  <2>6. CoreInv'
    BY <2>3, <2>4, <2>5 DEF SetState, TypeOK
  <2>7. \A s \in sleepers : s.gen # generation
    BY <1>8, <2>1 DEF BackoffInv, TypeOK
  <2>8. BackoffInv'
    BY <2>2, <2>3, <2>4, <2>5, <2>7 DEF BackoffInv, TypeOK
  <2>9. RespawnInv'
    BY <1>8, <2>4, EventFindsNoRespawn DEF ProcessExit, RespawnInv, NoRespawnQueued
  <2> QED
    BY <2>6, <2>8, <2>9
<1>9. CASE Terminated
  <2>1. EventTurn /\ queue' = queue /\ sleepers' = sleepers /\ procs = {awaited}
    BY <1>9 DEF Terminated
  <2>2. RespawnInv'
    BY <2>1, EventFindsNoRespawn DEF RespawnInv, NoRespawnQueued
  <2>3. CASE finalState = "RESTARTING" /\ ~closed
    <3>1. Fork(generation + 1, {})
      BY <1>9, <2>1, <2>3 DEF Terminated
    <3>2. CoreInv' /\ BackoffInv'
      BY <2>1, <3>1, ForkEstablishes DEF TypeOK
    <3> QED
      BY <2>2, <3>2
  <2>4. CASE ~(finalState = "RESTARTING" /\ ~closed)
    <3>1. /\ procs' = procs \ {awaited}
          /\ child' = IF child = awaited THEN 0 ELSE child
          /\ SetState(finalState) /\ ReleaseLock
          /\ UNCHANGED <<generation, intentionalStop>>
      BY <1>9, <2>4, Zenon DEF Terminated
    <3>2. CoreInv'
      BY <1>9, <2>1, <3>1 DEF Terminated, SetState, ReleaseLock, TypeOK
    <3>3. BackoffInv'
      BY <1>9, <2>1, <3>1 DEF Terminated, BackoffInv
    <3> QED
      BY <2>2, <3>2, <3>3
  <2> QED
    BY <2>3, <2>4
<1>10. ASSUME NEW s \in sleepers, Wake(s) PROVE IInv'
  <2>1. CoreInv' /\ BackoffInv'
    BY <1>10 DEF Wake, BackoffInv
  <2>2. CASE s.gen # generation \/ intentionalStop
    <3>1. queue' = queue
      BY <1>10, <2>2 DEF Wake
    <3>2. RespawnInv'
      BY <1>10, <3>1, EventFindsNoRespawn DEF Wake, RespawnInv, NoRespawnQueued
    <3> QED
      BY <2>1, <3>2
  <2>3. CASE s.gen = generation /\ ~intentionalStop
    <3>1. lock = "free" /\ child = 0 /\ state = "RESTARTING"
      BY <2>3 DEF BackoffInv
    <3>2. queue' = Append(<<>>, "respawn")
      BY <1>10, <2>3, <3>1 DEF Wake, EventTurn
    <3>3. Len(queue') = 1
      BY <3>2
    <3>4. RespawnInv'
      BY <1>10, <2>3, <3>1, <3>3 DEF Wake, RespawnInv
    <3> QED
      BY <2>1, <3>4
  <2> QED
    BY <2>2, <2>3
<1>11. CASE Tick
  <2>1. CoreInv'
    BY <1>11 DEF Tick
  <2>2. BackoffInv'
    BY <1>11 DEF Tick, BackoffInv
  <2>3. RespawnInv'
    BY <1>11, EventFindsNoRespawn DEF Tick, RespawnInv, NoRespawnQueued
  <2> QED
    BY <2>1, <2>2, <2>3
<1>12. CASE UNCHANGED vars
  BY <1>12 DEF vars, BackoffInv, RespawnInv
<1> QED
  BY <1>1, <1>2, <1>4, <1>5, <1>6, <1>7, <1>8, <1>9, <1>10, <1>11, <1>12
     DEF Next

LEMMA Invariance == Spec => []IInv
<1> QED
  BY IInvInit, IInvStep, PTL DEF Spec

-----------------------------------------------------------------------------
(* What follows from it.                                                   *)

\* At every moment at most one miner process exists, and it is the one the
\* supervisor holds: restart(), crash respawn and shutdown never leak one.
THEOREM AtMostOneMiner == Spec => []OneMiner
<1>1. IInv => OneMiner
  BY DEF IInv, CoreInv, HandleInv, OneMiner
<1> QED
  BY <1>1, Invariance, PTL

\* The state, the mining session and the processes always agree.
THEOREM ReportIsTrue == Spec => []ReportedStateIsTrue
<1>1. ASSUME IInv PROVE ReportedStateIsTrue
  <2>1. TypeOK /\ CoreInv
    BY <1>1 DEF IInv
  <2>2. lock = "free" \/ Spawning \/ Terminating
    BY <2>1 DEF TypeOK, Spawning, Terminating
  <2>3. HasLiveChild <=> child # 0
    BY <2>1 DEF CoreInv, HandleInv, HasLiveChild
  <2> QED
    BY <2>1, <2>2, <2>3 DEF CoreInv, HandleInv, SpawnInv, TerminateInv, FreeInv,
       SessionInv, ReportedStateIsTrue, TypeOK
<1> QED
  BY <1>1, Invariance, PTL

\* intentionalStop and the generation each cancel a pending respawn alone.
THEOREM BothGuardsHold == Spec => []StopCancelsBackoff
<1>1. IInv => StopCancelsBackoff
  BY DEF IInv, BackoffInv, StopCancelsBackoff
<1> QED
  BY <1>1, Invariance, PTL

\* The backoff respawn never revives a miner that was stopped or gave up.
THEOREM BackoffIsSafe == Spec => BackoffForksOnlyAfterItsCrash
<1>1. ASSUME IInv, BeginRespawn
      PROVE  state = "RESTARTING" /\ procs = {} /\ ~intentionalStop
  <2>1. queue # <<>> /\ queue[1] = "respawn"
    BY <1>1 DEF BeginRespawn, Dequeue
  <2>2. 1 \in 1..Len(queue)
    BY <1>1, <2>1, EmptySeq DEF IInv, TypeOK
  <2> QED
    BY <1>1, <2>1, <2>2 DEF IInv, RespawnInv, CoreInv, HandleInv
<1> QED
  BY <1>1, Invariance, PTL DEF Spec, BackoffForksOnlyAfterItsCrash

LEMMA StepAfterShutdown ==
    ASSUME IInv, [Next]_vars, closed PROVE procs' \subseteq procs
<1>1. CASE BeginStart \/ BeginRespawn
  BY <1>1 DEF BeginStart, BeginRespawn, SpawnOnce
<1>2. CASE BeginStop \/ BeginRestart
  BY <1>2 DEF BeginStop, BeginRestart, AwaitExit
<1>3. CASE Start \/ Stop \/ Restart \/ Shutdown
  BY <1>3 DEF Start, Stop, Restart, Request, Shutdown
<1>4. CASE Spawned \/ Settle \/ SpawnError \/ Escalate \/ Tick
  BY <1>4 DEF Spawned, Settle, SpawnError, Escalate, Tick
<1>5. CASE Terminated
  BY <1>5 DEF Terminated
<1>6. CASE (\E p \in procs : ProcessExit(p)) \/ (\E s \in sleepers : Wake(s))
  BY <1>6 DEF ProcessExit, Wake
<1>7. CASE UNCHANGED vars
  BY <1>7 DEF vars
<1> QED
  BY <1>1, <1>2, <1>3, <1>4, <1>5, <1>6, <1>7 DEF Next

\* shutdown() closes the door: no process is forked from then on.
THEOREM ShutdownIsFinal == Spec => NothingForksAfterShutdown
<1>1. ASSUME IInv, [Next]_vars PROVE closed => procs' \subseteq procs
  BY <1>1, StepAfterShutdown
<1> QED
  BY <1>1, Invariance, PTL DEF Spec, NothingForksAfterShutdown

-----------------------------------------------------------------------------
(* Refinement: every step is a step of the life cycle or a stutter.        *)

LifecycleStep == [Lifecycle!LifecycleNext]_(Lifecycle!lifecycleVars)

LEMMA LifecycleStutter ==
    ASSUME UNCHANGED <<state, procs, closed>> PROVE LifecycleStep
  BY DEF LifecycleStep, Lifecycle!lifecycleVars

LEMMA ForkIsLaunch ==
    ASSUME NEW g, procs = {}, ~closed, Fork(g, procs), closed' = closed
    PROVE  LifecycleStep
<1>1. Lifecycle!Launch
  BY DEF Fork, SetState, Lifecycle!Launch
<1> QED
  BY <1>1 DEF LifecycleStep, Lifecycle!LifecycleNext

LEMMA StepIsLifecycleStep == ASSUME IInv, [Next]_vars PROVE LifecycleStep
<1>0. TypeOK /\ CoreInv
  BY DEF IInv
<1>a. HasLiveChild <=> child # 0
  BY <1>0 DEF CoreInv, HandleInv, HasLiveChild
<1>b. child # 0 <=> procs # {}
  BY <1>0 DEF CoreInv, HandleInv
<1> USE DEF reported, crashVars, lockVars
<1>1. CASE Start \/ Stop \/ Restart
  BY <1>1, LifecycleStutter DEF Start, Stop, Restart, Request
<1>2. CASE Shutdown
  <2>1. Lifecycle!Close
    BY <1>2 DEF Shutdown, Lifecycle!Close
  <2> QED
    BY <2>1 DEF LifecycleStep, Lifecycle!LifecycleNext
<1>3. CASE BeginStart \/ BeginRespawn
  <2>1. CASE closed \/ HasLiveChild
    BY <1>3, <2>1, LifecycleStutter DEF BeginStart, BeginRespawn, SpawnOnce
  <2>2. CASE ~(closed \/ HasLiveChild)
    BY <1>3, <1>a, <1>b, <2>2, ForkIsLaunch DEF BeginStart, BeginRespawn, SpawnOnce
  <2> QED
    BY <2>1, <2>2
<1>4. CASE BeginStop
  <2>1. CASE HasLiveChild
    <3>1. UNCHANGED <<state, procs, closed>>
      BY <1>4, <2>1 DEF BeginStop, AwaitExit, SetState
    <3> QED
      BY <3>1, LifecycleStutter
  <2>2. CASE ~HasLiveChild
    <3>1. procs = {} /\ procs' = {} /\ state' = "STOPPED" /\ closed' = closed
      BY <1>4, <1>a, <1>b, <2>2 DEF BeginStop, SetState
    <3>2. Lifecycle!Halt
      BY <3>1 DEF Lifecycle!Halt
    <3> QED
      BY <3>2 DEF LifecycleStep, Lifecycle!LifecycleNext
  <2> QED
    BY <2>1, <2>2
<1>5. CASE BeginRestart
  <2>1. CASE closed
    BY <1>5, <2>1, LifecycleStutter DEF BeginRestart
  <2>2. CASE ~closed /\ HasLiveChild
    <3>1. /\ state = "RUNNING" /\ state' = "RESTARTING"
          /\ procs' = procs /\ closed' = closed
      BY <1>0, <1>5, <1>a, <2>2
         DEF BeginRestart, Dequeue, AwaitExit, SetState, CoreInv, FreeInv
    <3>2. Lifecycle!AnnounceRestart
      BY <1>a, <1>b, <2>2, <3>1 DEF Lifecycle!AnnounceRestart
    <3> QED
      BY <3>2 DEF LifecycleStep, Lifecycle!LifecycleNext
  <2>3. CASE ~closed /\ ~HasLiveChild
    BY <1>5, <1>a, <1>b, <2>3, ForkIsLaunch DEF BeginRestart
  <2> QED
    BY <2>1, <2>2, <2>3
<1>6. CASE Spawned \/ Escalate \/ Tick
  BY <1>6, LifecycleStutter DEF Spawned, Escalate, Tick
<1>7. CASE Settle
  <2>1. procs # {} /\ state = "STARTING"
    BY <1>0, <1>7 DEF Settle, CoreInv, SpawnInv, Spawning, HandleInv
  <2>2. state' = "RUNNING" /\ procs' = procs /\ closed' = closed
    BY <1>0, <1>7
       DEF Settle, CoreInv, SpawnInv, Spawning, HandleInv, SetState
  <2>3. Lifecycle!Confirm
    BY <2>1, <2>2 DEF Lifecycle!Confirm
  <2> QED
    BY <2>3 DEF LifecycleStep, Lifecycle!LifecycleNext
<1>8. ASSUME procs # {}, state \in {"STARTING", "RUNNING"}, procs' = {},
             state' \in {"RESTARTING", "CRASHED"}, closed' = closed
      PROVE  LifecycleStep
  <2>1. Lifecycle!Die
    BY <1>8 DEF Lifecycle!Die
  <2> QED
    BY <2>1 DEF LifecycleStep, Lifecycle!LifecycleNext
<1>9. CASE SpawnError
  BY <1>0, <1>8, <1>9 DEF SpawnError, CoreInv, SpawnInv, Spawning, HandleInv, SetState
<1>10. ASSUME NEW p \in procs, ProcessExit(p) PROVE LifecycleStep
  <2>1. p = child /\ ~Terminating /\ procs' = {} /\ closed' = closed
    BY <1>0, <1>10
       DEF ProcessExit, CoreInv, HandleInv, TerminateInv, Terminating
  <2>2. p = generation /\ ~intentionalStop /\ state \in {"STARTING", "RUNNING"}
    BY <1>0, <1>10, <1>b, <2>1
       DEF CoreInv, HandleInv, SpawnInv, FreeInv, Spawning, Terminating, TypeOK
  <2>3. state' \in {"RESTARTING", "CRASHED"}
    BY <1>10, <2>2 DEF ProcessExit, OnExit, ScheduleRestart, SetState
  <2> QED
    BY <1>8, <2>1, <2>2, <2>3
<1>11. CASE Terminated
  <2>1. /\ procs = {awaited} /\ awaited = child
        /\ state = IF finalState = "RESTARTING" THEN "RESTARTING" ELSE "RUNNING"
    BY <1>0, <1>11 DEF Terminated, CoreInv, HandleInv, TerminateInv
  <2>2. closed' = closed
    BY <1>11 DEF Terminated
  <2>3. CASE finalState = "RESTARTING" /\ ~closed
    <3>1. procs' # {} /\ state' = "STARTING"
      BY <1>11, <2>3 DEF Terminated, Fork, SetState
    <3>2. Lifecycle!Replace
      BY <2>1, <2>2, <2>3, <3>1 DEF Lifecycle!Replace
    <3> QED
      BY <3>2 DEF LifecycleStep, Lifecycle!LifecycleNext
  <2>4. CASE finalState = "RESTARTING" /\ closed
    <3>1. procs' = {} /\ state' = state
      BY <1>11, <2>1, <2>4 DEF Terminated, SetState
    <3>2. Lifecycle!Abandon
      BY <2>1, <2>2, <2>4, <3>1 DEF Lifecycle!Abandon
    <3> QED
      BY <3>2 DEF LifecycleStep, Lifecycle!LifecycleNext
  <2>5. CASE finalState = "STOPPED"
    <3>1. procs' = {} /\ state' = "STOPPED"
      BY <1>11, <2>1, <2>5 DEF Terminated, SetState
    <3>2. Lifecycle!Halt
      BY <2>1, <2>2, <2>5, <3>1 DEF Lifecycle!Halt
    <3> QED
      BY <3>2 DEF LifecycleStep, Lifecycle!LifecycleNext
  <2> QED
    BY <1>0, <2>3, <2>4, <2>5 DEF TypeOK
<1>12. ASSUME NEW s \in sleepers, Wake(s) PROVE LifecycleStep
  BY <1>12, LifecycleStutter DEF Wake
<1>13. CASE UNCHANGED vars
  BY <1>13, LifecycleStutter DEF vars
<1> QED
  BY <1>1, <1>2, <1>3, <1>4, <1>5, <1>6, <1>7, <1>9, <1>10, <1>11, <1>12, <1>13
     DEF Next

\* The supervisor implements the life cycle its consumers are told of.
THEOREM Refinement == Spec => ImplementsLifecycle
<1>1. Init => Lifecycle!LifecycleInit
  BY DEF Init, Lifecycle!LifecycleInit
<1>2. IInv /\ [Next]_vars => [Lifecycle!LifecycleNext]_(Lifecycle!lifecycleVars)
  BY StepIsLifecycleStep DEF LifecycleStep
<1> QED
  BY <1>1, <1>2, Invariance, PTL
     DEF Spec, ImplementsLifecycle, Lifecycle!LifecycleSpec

\* There is one miner and it is the one that is reported, and none comes back that
\* was stopped, was replaced, or was shut down with us, for any cap, backoff and
\* number of operations.
THEOREM MinerIsInHand == Spec => OneWantedMiner
<1>1. Spec => []MinerIsAccountedFor
  BY AtMostOneMiner, ReportIsTrue, PTL DEF MinerIsAccountedFor
<1>2. Spec => ForksAreWanted
  BY BackoffIsSafe, ShutdownIsFinal DEF ForksAreWanted
<1> QED
  BY <1>1, <1>2 DEF OneWantedMiner

-----------------------------------------------------------------------------
(* The rate of respawns (CrashLoop.tla).                                   *)

\* A respawn of the current generation is on its way.
Pending ==
    \/ ~intentionalStop /\ \E s \in sleepers : s.gen = generation
    \/ \E i \in 1..Len(queue) : queue[i] = "respawn"

\* A sequence of ages, named so that a proof can leave it at that.
IsAges(ages) == ages \in Seq(Nat)

OldestFirst(ages) == \A i, j \in 1..Len(ages) : i < j => ages[j] <= ages[i]

\* The respawns since the crash history was cleared, and the one on its way.
Due == Len(sinceClear) + (IF Pending THEN 1 ELSE 0)

\* With n respawns due, each but the newest was followed by a crash, and that
\* crash by as many more as there are respawns after the next.
Followed(crashes, respawns, n) ==
    \A i \in 1..Len(respawns) :
        i < n => \E j \in 1..Len(crashes) : /\ Len(crashes) + i + 1 = n + j
                                            /\ crashes[j] <= respawns[i]

\* Since the crash history was cleared there is at most one more than the cap.
FewSinceClear == Len(sinceClear) <= MaxRestarts + 1

\* A respawn is only on its way while the cap allows it, and every respawn since
\* the clearing but the oldest follows a crash that is still counted.
RateInv ==
    /\ sinceClear \in Seq(Nat)
    /\ OldestFirst(crashAges)
    /\ OldestFirst(sinceClear)
    /\ \A i \in 1..Len(sinceClear) : sinceClear[i] <= CrashWindow
    /\ Pending => Len(crashAges) <= MaxRestarts
    /\ Followed(crashAges, sinceClear, Due)
    /\ FewSinceClear

\* newest holds the ages of the last respawns of ages, and those are the ones
\* that no clearing of the history has come after.
NewestOf(ages, clears, newest) ==
    /\ Len(newest) <= Len(ages)
    /\ \A i \in 1..Len(newest) : newest[i] = ages[Len(ages) - Len(newest) + i]
    /\ \A i \in 1..Len(ages) - Len(newest) : clears[i] > 0
    /\ \A i \in 1..Len(newest) : clears[Len(ages) - Len(newest) + i] = 0

\* The whole window is the history that was cleared and what came since.
WindowInv ==
    /\ respawnAges \in Seq(Nat)
    /\ clearsSince \in Seq(Nat)
    /\ Len(clearsSince) = Len(respawnAges)
    /\ OldestFirst(respawnAges)
    /\ \A i \in 1..Len(respawnAges) : respawnAges[i] <= CrashWindow
    /\ NewestOf(respawnAges, clearsSince, sinceClear)
    /\ RespawnRateIsBounded

\* kept is what the window leaves of ages, oldest first, past the first n.
KeptPast(n, kept, ages) ==
    /\ kept \in Seq(Nat)
    /\ Len(ages) = Len(kept) + n
    /\ \A i \in 1..Len(kept) : kept[i] = ages[i + n] /\ kept[i] <= CrashWindow
    /\ \A i \in 1..n : ages[i] > CrashWindow

LEMMA WindowKeepsTheEnd ==
    ASSUME NEW ages \in Seq(Nat), OldestFirst(ages)
    PROVE  \E n \in Nat : KeptPast(n, WithinWindow(ages), ages)
<1> DEFINE fresh == {i \in 1..Len(ages) : ages[i] <= CrashWindow}
<1>1. Len(ages) \in Nat /\ CrashWindow \in Nat
      /\ \A i \in 1..Len(ages) : ages[i] \in Nat
  BY BoundsAssumption, ElementOfSeq
<1>c. PICK c : c = Cardinality(fresh)
  OBVIOUS
<1>2. IsFiniteSet(fresh) /\ c \in 0..Len(ages)
  <2>1. IsFiniteSet(1..Len(ages)) /\ Cardinality(1..Len(ages)) = Len(ages)
    BY <1>1, FS_Interval
  <2>2. IsFiniteSet(fresh) /\ Cardinality(fresh) <= Len(ages)
    BY <2>1, FS_Subset
  <2> QED
    BY <1>1, <1>c, <2>2, FS_CardinalityType
<1>3. PICK n \in Nat : n = Len(ages) - c
  BY <1>1, <1>2
<1>4. ASSUME NEW i \in fresh PROVE i > n
  <2>1. i..Len(ages) \subseteq fresh
    BY <1>1, <1>4 DEF OldestFirst
  <2>2. Cardinality(i..Len(ages)) = Len(ages) - i + 1
    BY <1>1, FS_Interval
  <2>3. Cardinality(i..Len(ages)) <= c
    BY <1>c, <1>2, <2>1, FS_Subset
  <2> QED
    BY <1>1, <1>2, <1>3, <2>2, <2>3
<1>5. ASSUME NEW i \in 1..Len(ages), i \notin fresh PROVE i <= n
  <2>1. fresh \subseteq i + 1..Len(ages)
    BY <1>1, <1>5 DEF OldestFirst
  <2>2. Cardinality(i + 1..Len(ages)) = Len(ages) - i /\ IsFiniteSet(i + 1..Len(ages))
    BY <1>1, FS_Interval
  <2>3. c <= Len(ages) - i
    BY <1>c, <2>1, <2>2, FS_Subset
  <2> QED
    BY <1>1, <1>2, <1>3, <2>3
<1>6. WithinWindow(ages) = SubSeq(ages, n + 1, Len(ages))
  <2>1. Len(ages) - Cardinality(fresh) + 1 = n + 1
    BY <1>c, <1>3
  <2> QED
    BY <2>1 DEF WithinWindow
<1> HIDE DEF fresh
<1>7. \A i \in n + 1..Len(ages) : i \in 1..Len(ages) /\ ages[i] \in Nat
  BY <1>1, <1>3
<1>8. /\ WithinWindow(ages) \in Seq(Nat)
      /\ Len(ages) = Len(WithinWindow(ages)) + n
      /\ \A i \in 1..Len(WithinWindow(ages)) : WithinWindow(ages)[i] = ages[n + i]
  BY <1>1, <1>2, <1>3, <1>6, <1>7, SubSeqProperties
<1>9. ASSUME NEW i \in 1..Len(WithinWindow(ages))
      PROVE  WithinWindow(ages)[i] = ages[i + n] /\ WithinWindow(ages)[i] <= CrashWindow
  <2>1. i + n \in 1..Len(ages) /\ i + n > n /\ i + n = n + i
    BY <1>1, <1>3, <1>8
  <2>2. i + n \in fresh
    BY <1>3, <1>5, <2>1
  <2> QED
    BY <1>8, <2>1, <2>2 DEF fresh
<1>10. ASSUME NEW i \in 1..n PROVE ages[i] > CrashWindow
  <2>1. i \in 1..Len(ages) /\ ~(i > n)
    BY <1>1, <1>2, <1>3
  <2>2. i \notin fresh
    BY <1>4, <2>1
  <2> QED
    BY <1>1, <2>1, <2>2 DEF fresh
<1> QED
  BY <1>3, <1>8, <1>9, <1>10 DEF KeptPast

\* What the window leaves is oldest first, too.
LEMMA KeptIsOldestFirst ==
    ASSUME NEW ages \in Seq(Nat), OldestFirst(ages), NEW n \in Nat, NEW kept,
           KeptPast(n, kept, ages)
    PROVE  OldestFirst(kept)
<1> SUFFICES ASSUME NEW i \in 1..Len(kept), NEW j \in 1..Len(kept), i < j
             PROVE  kept[j] <= kept[i]
  BY DEF OldestFirst
<1>1. Len(kept) \in Nat /\ Len(ages) = Len(kept) + n
  BY DEF KeptPast
<1>2. i + n \in 1..Len(ages) /\ j + n \in 1..Len(ages) /\ i + n < j + n
  BY <1>1
<1>3. kept[i] = ages[i + n] /\ kept[j] = ages[j + n]
  BY DEF KeptPast
<1> QED
  BY <1>2, <1>3 DEF OldestFirst

\* A crash counts itself, and forgets only what is past the window: a crash that
\* is still in it has one more behind it.
LEMMA CrashIsCounted ==
    ASSUME NEW ages, IsAges(ages), OldestFirst(ages)
    PROVE  /\ IsAges(WithCrash(ages)) /\ OldestFirst(WithCrash(ages))
           /\ Len(WithCrash(ages)) >= 1
           /\ WithCrash(ages)[Len(WithCrash(ages))] = 0
           /\ \A i \in 1..Len(ages) : ages[i] <= CrashWindow =>
                 \E j \in 1..Len(WithCrash(ages)) :
                    /\ Len(WithCrash(ages)) + i = Len(ages) + 1 + j
                    /\ WithCrash(ages)[j] = ages[i]
<1>1. /\ Len(ages) \in Nat /\ CrashWindow \in Nat
      /\ \A i \in 1..Len(ages) : ages[i] \in Nat
  BY BoundsAssumption, ElementOfSeq DEF IsAges
<1>2. PICK pushed : pushed = Append(ages, 0)
  OBVIOUS
<1>3. /\ IsAges(pushed) /\ Len(pushed) = Len(ages) + 1
      /\ pushed[Len(ages) + 1] = 0
      /\ \A i \in 1..Len(ages) : pushed[i] = ages[i]
  BY <1>2, AppendProperties DEF IsAges
<1>4. OldestFirst(pushed)
  <2> SUFFICES ASSUME NEW i \in 1..Len(pushed), NEW j \in 1..Len(pushed), i < j
               PROVE  pushed[j] <= pushed[i]
    BY DEF OldestFirst
  <2>1. i \in 1..Len(ages) /\ pushed[i] = ages[i]
    BY <1>1, <1>3
  <2>2. CASE j = Len(ages) + 1
    BY <1>1, <1>3, <2>1, <2>2
  <2>3. CASE j \in 1..Len(ages)
    BY <1>3, <2>1, <2>3 DEF OldestFirst
  <2> QED
    BY <1>1, <1>3, <2>2, <2>3
<1>5. PICK kept : kept = WithCrash(ages)
  OBVIOUS
<1>6. PICK n \in Nat : KeptPast(n, kept, pushed)
  BY <1>2, <1>3, <1>4, <1>5, WindowKeepsTheEnd DEF WithCrash, IsAges
<1>7. /\ IsAges(kept) /\ Len(kept) \in Nat /\ OldestFirst(kept)
      /\ Len(ages) + 1 = Len(kept) + n
  <2>1. OldestFirst(kept)
    BY <1>3, <1>4, <1>6, KeptIsOldestFirst DEF IsAges
  <2>2. IsAges(kept) /\ Len(kept) \in Nat /\ Len(pushed) = Len(kept) + n
    BY <1>6 DEF KeptPast, IsAges
  <2> QED
    BY <1>3, <2>1, <2>2
<1>8. Len(kept) >= 1
  <2>1. ASSUME Len(kept) = 0 PROVE FALSE
    <3>1. Len(ages) + 1 \in 1..n
      BY <1>1, <1>7, <2>1
    <3>2. pushed[Len(ages) + 1] > CrashWindow
      BY <1>6, <3>1 DEF KeptPast
    <3> QED
      BY <1>1, <1>3, <3>2
  <2> QED
    BY <1>7, <2>1
<1>9. kept[Len(kept)] = 0
  <2>1. Len(kept) \in 1..Len(kept) /\ Len(kept) + n = Len(ages) + 1
    BY <1>7, <1>8
  <2> QED
    BY <1>3, <1>6, <2>1 DEF KeptPast
<1>10. ASSUME NEW i \in 1..Len(ages), ages[i] <= CrashWindow
       PROVE  \E j \in 1..Len(kept) : /\ Len(kept) + i = Len(ages) + 1 + j
                                      /\ kept[j] = ages[i]
  <2>1. ~(pushed[i] > CrashWindow)
    BY <1>1, <1>3, <1>10
  <2>2. i \notin 1..n
    BY <1>6, <2>1 DEF KeptPast
  <2>3. i - n \in 1..Len(kept) /\ (i - n) + n = i
    BY <1>1, <1>7, <2>2
  <2>4. kept[i - n] = ages[i]
    BY <1>3, <1>6, <2>3 DEF KeptPast
  <2>5. Len(kept) + i = Len(ages) + 1 + (i - n)
    BY <1>1, <1>7
  <2> QED
    BY <2>3, <2>4, <2>5
<1> QED
  BY <1>5, <1>7, <1>8, <1>9, <1>10

\* A moment makes every age older and keeps their order.
LEMMA OlderEach ==
    ASSUME NEW ages \in Seq(Nat)
    PROVE  /\ Older(ages) \in Seq(Nat) /\ Len(Older(ages)) = Len(ages)
           /\ \A i \in 1..Len(ages) :
                 Older(ages)[i] = Smaller(ages[i] + 1, CrashWindow + 1)
<1>1. /\ Len(ages) \in Nat /\ CrashWindow \in Nat
      /\ \A i \in 1..Len(ages) : ages[i] \in Nat
  BY BoundsAssumption, ElementOfSeq
<1>2. \A i \in 1..Len(ages) : Smaller(ages[i] + 1, CrashWindow + 1) \in Nat
  BY <1>1 DEF Smaller
<1>3. Older(ages) \in Seq(Nat) /\ Len(Older(ages)) = Len(ages)
  BY <1>1, <1>2, IsASeq, LenProperties DEF Older
<1>4. \A i \in 1..Len(ages) : Older(ages)[i] = Smaller(ages[i] + 1, CrashWindow + 1)
  BY DEF Older
<1> QED
  BY <1>3, <1>4

LEMMA OlderKeepsOrder ==
    ASSUME NEW ages \in Seq(Nat), OldestFirst(ages)
    PROVE  OldestFirst(Older(ages))
<1>1. CrashWindow \in Nat /\ \A i \in 1..Len(ages) : ages[i] \in Nat
  BY BoundsAssumption, ElementOfSeq
<1> QED
  BY <1>1, OlderEach DEF OldestFirst, Smaller

\* When the respawn on its way no longer is, there is a crash too many.
LEMMA FewerDue ==
    ASSUME NEW crashes, IsAges(crashes), OldestFirst(crashes),
           NEW respawns, IsAges(respawns),
           NEW n \in Nat, Followed(crashes, respawns, n + 1)
    PROVE  Followed(crashes, respawns, n)
<1> SUFFICES ASSUME NEW i \in 1..Len(respawns), i < n
             PROVE  \E j \in 1..Len(crashes) : /\ Len(crashes) + i + 1 = n + j
                                               /\ crashes[j] <= respawns[i]
  BY DEF Followed
<1>1. PICK j \in 1..Len(crashes) : /\ Len(crashes) + i + 1 = n + 1 + j
                                   /\ crashes[j] <= respawns[i]
  BY DEF Followed
<1>0. Len(crashes) \in Nat /\ Len(respawns) \in Nat
  BY DEF IsAges
<1>2. j + 1 \in 1..Len(crashes) /\ Len(crashes) + i + 1 = n + (j + 1) /\ j < j + 1
  BY <1>0, <1>1
<1>3. crashes[j + 1] <= crashes[j]
  BY <1>2 DEF OldestFirst
<1>4. crashes[j + 1] \in Nat /\ crashes[j] \in Nat /\ respawns[i] \in Nat
  BY <1>2, ElementOfSeq DEF IsAges
<1>5. crashes[j + 1] <= respawns[i]
  BY <1>1, <1>3, <1>4
<1> QED
  BY <1>2, <1>5

LEMMA HistoryInitRefines == HistoryInit => Init
  BY DEF HistoryInit

LEMMA HistoryStepRefines == [HistoryNext]_historyVars => [Next]_vars
  BY Zenon DEF HistoryNext, historyVars, Next

\* A request, an event or an operation that neither crashes nor forks for a
\* respawn puts none on its way.
LEMMA NoneStarts ==
    ASSUME IInv, [Next]_vars, ~(\E p \in procs : ProcessExit(p)), Pending'
    PROVE  Pending
<1>0. TypeOK /\ BackoffInv
  BY DEF IInv
<1>1. ASSUME NEW operation, Dequeue(operation),
             sleepers' = sleepers,
             \/ UNCHANGED <<generation, intentionalStop>>
             \/ generation' > generation
      PROVE  Pending
  <2>1. NoRespawnQueued'
    BY <1>1, DequeueLeavesNoRespawn
  <2>2. \E s \in sleepers' : s.gen = generation' /\ ~intentionalStop'
    BY <2>1 DEF Pending, NoRespawnQueued
  <2> QED
    BY <1>0, <1>1, <2>2 DEF Pending, BackoffInv, TypeOK
<1>2. CASE Start \/ Stop \/ Restart \/ Shutdown
  <2>1. NoRespawnQueued'
    BY <1>2, RequestQueuesNoRespawn
       DEF Start, Stop, Restart, Request, Shutdown, CanRequest
  <2>2. UNCHANGED <<generation, intentionalStop, sleepers>>
    BY <1>2 DEF Start, Stop, Restart, Request, Shutdown
  <2> QED
    BY <2>1, <2>2 DEF Pending, NoRespawnQueued
<1>3. CASE BeginStart \/ BeginRespawn
  <2>1. \/ UNCHANGED <<generation, intentionalStop>>
        \/ generation' > generation
    BY <1>0, <1>3 DEF BeginStart, BeginRespawn, SpawnOnce, Fork, TypeOK
  <2>2. sleepers' = sleepers
    BY <1>3 DEF BeginStart, BeginRespawn, SpawnOnce
  <2> QED
    BY <1>1, <1>3, <2>1, <2>2 DEF BeginStart, BeginRespawn
<1>4. CASE BeginStop
  <2>1. generation' > generation /\ sleepers' = sleepers
    BY <1>0, <1>4 DEF BeginStop, AwaitExit, TypeOK
  <2> QED
    BY <1>1, <1>4, <2>1 DEF BeginStop
<1>5. CASE BeginRestart
  <2>1. /\ \/ UNCHANGED <<generation, intentionalStop>>
           \/ generation' > generation
        /\ sleepers' = sleepers
    BY <1>0, <1>5 DEF BeginRestart, AwaitExit, Fork, TypeOK
  <2> QED
    BY <1>1, <1>5, <2>1 DEF BeginRestart
<1>6. CASE Spawned \/ Settle \/ SpawnError \/ Escalate
  <2>1. UNCHANGED <<generation, intentionalStop, sleepers, queue>>
    BY <1>6 DEF Spawned, Settle, SpawnError, Escalate
  <2> QED
    BY <2>1 DEF Pending
<1>7. CASE Terminated
  <2>1. /\ UNCHANGED <<sleepers, queue>>
        /\ \/ UNCHANGED <<generation, intentionalStop>>
           \/ generation' > generation
    BY <1>0, <1>7 DEF Terminated, Fork, TypeOK
  <2> QED
    BY <1>0, <2>1 DEF Pending, BackoffInv, TypeOK
<1>8. ASSUME NEW s \in sleepers, Wake(s) PROVE Pending
  <2>1. CASE s.gen = generation /\ ~intentionalStop
    BY <2>1 DEF Pending
  <2>2. CASE ~(s.gen = generation /\ ~intentionalStop)
    <3>1. UNCHANGED <<generation, intentionalStop, queue>> /\ sleepers' \subseteq sleepers
      BY <1>8, <2>2 DEF Wake
    <3> QED
      BY <3>1 DEF Pending
  <2> QED
    BY <2>1, <2>2
<1>9. CASE Tick
  <2>1. /\ UNCHANGED <<generation, intentionalStop, queue>>
        /\ \A s \in sleepers' : \E t \in sleepers : s.gen = t.gen
    BY <1>9 DEF Tick
  <2> QED
    BY <2>1 DEF Pending
<1>10. CASE UNCHANGED vars
  BY <1>10 DEF vars, Pending
<1> QED
  BY <1>2, <1>3, <1>4, <1>5, <1>6, <1>7, <1>8, <1>9, <1>10 DEF Next

\* The respawn that forks was the one on its way, and it is no longer.
LEMMA ForkIsDue ==
    ASSUME IInv, BeginRespawn, procs' # procs
    PROVE  Pending /\ ~Pending' /\ crashAges' = crashAges
<1>1. /\ Fork(generation + 1, procs) /\ sleepers' = sleepers
      /\ crashAges' = crashAges /\ Dequeue("respawn")
  BY DEF BeginRespawn, SpawnOnce, crashVars
<1>2. TypeOK /\ BackoffInv
  BY DEF IInv
<1>3. Pending
  <2>1. queue # <<>> /\ queue[1] = "respawn" /\ 1 \in 1..Len(queue)
    BY <1>1, <1>2, EmptySeq DEF Dequeue, TypeOK
  <2> QED
    BY <2>1 DEF Pending
<1>4. NoRespawnQueued'
  BY <1>1, DequeueLeavesNoRespawn
<1>5. \A s \in sleepers' : s.gen # generation'
  BY <1>1, <1>2 DEF Fork, BackoffInv, TypeOK
<1> QED
  BY <1>1, <1>3, <1>4, <1>5 DEF Pending, NoRespawnQueued

\* A process that exits finds no respawn on its way, and leaves one only when
\* the crash it counted is within the cap.
LEMMA CrashIsNews ==
    ASSUME IInv, NEW p \in procs, ProcessExit(p)
    PROVE  /\ ~Pending
           /\ \/ crashAges' = WithCrash(crashAges)
              \/ crashAges' = crashAges /\ ~Pending'
           /\ Pending' => Len(crashAges') <= MaxRestarts
<1>1. TypeOK /\ BackoffInv /\ HandleInv
  BY DEF IInv, CoreInv
<1>2. NoRespawnQueued /\ queue' = queue
  BY EventFindsNoRespawn DEF ProcessExit
<1>3. child # 0
  BY <1>1 DEF HandleInv
<1>4. ~Pending
  BY <1>2, <1>3, <1>1 DEF Pending, NoRespawnQueued, BackoffInv
<1>5. UNCHANGED <<generation, intentionalStop>>
  BY DEF ProcessExit
<1>6. sleepers' = sleepers => ~Pending'
  BY <1>2, <1>4, <1>5 DEF Pending
<1>7. CASE p = generation /\ ~intentionalStop /\ ~(uptime < FastExit)
  <2>1. crashAges' = WithCrash(crashAges) /\ ScheduleRestart(crashAges')
    BY <1>7 DEF ProcessExit, OnExit
  <2>2. Len(crashAges') \in Nat
    BY <1>1, <2>1, WithCrashType DEF TypeOK
  <2>3. Len(crashAges') > MaxRestarts => sleepers' = sleepers
    BY <2>1 DEF ScheduleRestart
  <2> QED
    BY <1>4, <1>6, <2>1, <2>2, <2>3, BoundsAssumption
<1>8. CASE ~(p = generation /\ ~intentionalStop /\ ~(uptime < FastExit))
  <2>1. crashAges' = crashAges /\ sleepers' = sleepers
    BY <1>8 DEF ProcessExit, OnExit, crashVars
  <2> QED
    BY <1>4, <1>6, <2>1
<1> QED
  BY <1>7, <1>8

\* A crash is one more, for one more respawn due.
LEMMA CrashFollows ==
    ASSUME NEW crashes, IsAges(crashes), OldestFirst(crashes),
           NEW respawns, IsAges(respawns),
           \A i \in 1..Len(respawns) : respawns[i] <= CrashWindow,
           Followed(crashes, respawns, Len(respawns))
    PROVE  Followed(WithCrash(crashes), respawns, Len(respawns) + 1)
<1>0. PICK next : next = WithCrash(crashes)
  OBVIOUS
<1>1. /\ IsAges(next) /\ Len(next) >= 1 /\ next[Len(next)] = 0
      /\ \A i \in 1..Len(crashes) : crashes[i] <= CrashWindow =>
            \E j \in 1..Len(next) : /\ Len(next) + i = Len(crashes) + 1 + j
                                    /\ next[j] = crashes[i]
  BY <1>0, CrashIsCounted
<1> SUFFICES ASSUME NEW i \in 1..Len(respawns)
             PROVE  \E j \in 1..Len(next) : /\ Len(next) + i + 1 = Len(respawns) + 1 + j
                                            /\ next[j] <= respawns[i]
  BY <1>0 DEF Followed
<1>2. Len(respawns) \in Nat /\ i \in Nat /\ respawns[i] \in Nat /\ CrashWindow \in Nat
      /\ Len(next) \in Nat /\ Len(crashes) \in Nat
  BY <1>1, ElementOfSeq, BoundsAssumption DEF IsAges
<1>3. CASE i = Len(respawns)
  <2>1. Len(next) \in 1..Len(next) /\ Len(next) + i + 1 = Len(respawns) + 1 + Len(next)
    BY <1>1, <1>2, <1>3
  <2>2. next[Len(next)] <= respawns[i]
    BY <1>1, <1>2
  <2> QED
    BY <2>1, <2>2
<1>4. CASE i < Len(respawns)
  <2>1. PICK k \in 1..Len(crashes) : /\ Len(crashes) + i + 1 = Len(respawns) + k
                                     /\ crashes[k] <= respawns[i]
    BY <1>4 DEF Followed
  <2>2. crashes[k] \in Nat
    BY ElementOfSeq DEF IsAges
  <2>3. crashes[k] <= CrashWindow
    BY <1>2, <2>1, <2>2
  <2>4. PICK j \in 1..Len(next) : /\ Len(next) + k = Len(crashes) + 1 + j
                                  /\ next[j] = crashes[k]
    BY <1>1, <2>3
  <2>5. k \in Nat /\ j \in Nat
    BY <1>2
  <2>6. Len(next) + i + 1 = Len(respawns) + 1 + j
    <3>1. /\ Len(next) + k = Len(crashes) + 1 + j
          /\ Len(crashes) + i + 1 = Len(respawns) + k
      BY <2>1, <2>4
    <3> QED
      BY <1>2, <2>5, <3>1
  <2> QED
    BY <2>1, <2>4, <2>6
<1> QED
  BY <1>2, <1>3, <1>4

\* A moment passes: what the window forgets of the respawns is what came first.
LEMMA MomentPasses ==
    ASSUME NEW crashes, IsAges(crashes), NEW respawns, IsAges(respawns),
           NEW n \in Nat, NEW kept, KeptPast(n, kept, Older(respawns)),
           NEW pending \in {0, 1},
           Followed(crashes, respawns, Len(respawns) + pending)
    PROVE  Followed(Older(crashes), kept, Len(kept) + pending)
<1>1. /\ Len(Older(respawns)) = Len(respawns)
      /\ \A i \in 1..Len(respawns) :
            Older(respawns)[i] = Smaller(respawns[i] + 1, CrashWindow + 1)
      /\ Len(Older(crashes)) = Len(crashes)
      /\ \A i \in 1..Len(crashes) :
            Older(crashes)[i] = Smaller(crashes[i] + 1, CrashWindow + 1)
  BY OlderEach DEF IsAges
<1>2. /\ Len(respawns) = Len(kept) + n
      /\ Len(respawns) \in Nat /\ Len(kept) \in Nat /\ Len(crashes) \in Nat
      /\ \A i \in 1..Len(kept) : kept[i] = Older(respawns)[i + n]
  BY <1>1 DEF KeptPast, IsAges
<1> SUFFICES ASSUME NEW i \in 1..Len(kept), i < Len(kept) + pending
             PROVE  \E j \in 1..Len(crashes) :
                       /\ Len(crashes) + i + 1 = Len(kept) + pending + j
                       /\ Older(crashes)[j] <= kept[i]
  BY <1>1 DEF Followed
<1>3. i + n \in 1..Len(respawns) /\ i + n < Len(respawns) + pending
  BY <1>2
<1>4. PICK j \in 1..Len(crashes) :
          /\ Len(crashes) + (i + n) + 1 = Len(respawns) + pending + j
          /\ crashes[j] <= respawns[i + n]
  BY <1>3 DEF Followed
<1>5. Len(crashes) + i + 1 = Len(kept) + pending + j
  <2>1. /\ i \in Nat /\ j \in Nat /\ pending \in Nat
        /\ Len(crashes) \in Nat /\ Len(kept) \in Nat
    BY <1>2
  <2>2. /\ Len(crashes) + (i + n) + 1 = Len(respawns) + pending + j
        /\ Len(respawns) = Len(kept) + n
    BY <1>2, <1>4
  <2> QED
    BY <2>1, <2>2
<1>6. crashes[j] \in Nat /\ respawns[i + n] \in Nat /\ CrashWindow \in Nat
  BY <1>3, ElementOfSeq, BoundsAssumption DEF IsAges
<1>7. \A a, b, c \in Nat : a <= b => Smaller(a + 1, c + 1) <= Smaller(b + 1, c + 1)
  BY DEF Smaller
<1>8. Smaller(crashes[j] + 1, CrashWindow + 1)
         <= Smaller(respawns[i + n] + 1, CrashWindow + 1)
  <2>1. crashes[j] <= respawns[i + n]
    BY <1>4
  <2> QED
    BY <1>6, <1>7, <2>1
<1> QED
  BY <1>1, <1>2, <1>3, <1>5, <1>8

LEMMA RateInit == HistoryInit => RateInv
<1> SUFFICES ASSUME HistoryInit PROVE RateInv
  OBVIOUS
<1>1. /\ crashAges = <<>> /\ sinceClear = <<>> /\ sleepers = {} /\ queue = <<>>
      /\ ~Pending
  BY EmptySeq DEF HistoryInit, Init, Pending
<1> QED
  BY <1>1, EmptySeq, BoundsAssumption
     DEF RateInv, OldestFirst, Followed, Due, FewSinceClear

\* While a respawn is on its way, the cap leaves room for it.
LEMMA RoomForOneMore ==
    ASSUME TypeOK, RateInv, Pending PROVE Len(sinceClear) <= MaxRestarts
<1>1. /\ Len(crashAges) \in Nat /\ Len(sinceClear) \in Nat /\ MaxRestarts \in Nat
      /\ Len(crashAges) <= MaxRestarts
  BY BoundsAssumption DEF RateInv, TypeOK
<1>2. Followed(crashAges, sinceClear, Len(sinceClear) + 1)
  BY DEF RateInv, Due
<1>3. ASSUME 1 \in 1..Len(sinceClear)
      PROVE  Len(sinceClear) <= Len(crashAges)
  <2>1. PICK j \in 1..Len(crashAges) :
            Len(crashAges) + 1 + 1 = Len(sinceClear) + 1 + j
    BY <1>1, <1>2, <1>3 DEF Followed
  <2> QED
    BY <1>1, <2>1
<1> QED
  BY <1>1, <1>3

LEMMA RateStep == IInv /\ RateInv /\ [HistoryNext]_historyVars => RateInv'
<1> SUFFICES ASSUME IInv, RateInv, [HistoryNext]_historyVars PROVE RateInv'
  OBVIOUS
<1>0. TypeOK /\ TypeOK' /\ [Next]_vars
  BY HistoryStepRefines, TypeStep DEF IInv
<1>1. /\ IsAges(crashAges) /\ IsAges(crashAges') /\ IsAges(sinceClear)
      /\ Len(sinceClear) \in Nat /\ MaxRestarts \in Nat /\ CrashWindow \in Nat
  BY <1>0, BoundsAssumption DEF TypeOK, RateInv, IsAges
<1>2. ASSUME crashAges' = crashAges, sinceClear' = sinceClear, Pending' => Pending
      PROVE  RateInv'
  <2>1. CASE Pending' <=> Pending
    BY <1>2, <2>1 DEF RateInv, Due, FewSinceClear
  <2>2. CASE Pending /\ ~Pending'
    <3>1. Followed(crashAges, sinceClear, Len(sinceClear) + 1)
      BY <2>2 DEF RateInv, Due
    <3>2. Followed(crashAges, sinceClear, Len(sinceClear))
      BY <1>1, <3>1, FewerDue DEF RateInv
    <3>3. Due' = Len(sinceClear)
      BY <1>1, <1>2, <2>2 DEF Due
    <3> QED
      BY <1>2, <2>2, <3>2, <3>3 DEF RateInv, FewSinceClear
  <2> QED
    BY <1>2, <2>1, <2>2
<1>3. ASSUME crashAges' = <<>>, sinceClear' = <<>> PROVE RateInv'
  BY <1>1, <1>3, EmptySeq DEF RateInv, OldestFirst, Followed, FewSinceClear
<1>4. CASE BeginRespawn /\ sinceClear' = IF procs' # procs
                                            THEN Append(sinceClear, 0)
                                            ELSE sinceClear
  <2>1. CASE procs' # procs
    <3>1. Pending /\ ~Pending' /\ crashAges' = crashAges
      BY <1>4, <2>1, ForkIsDue
    <3>2. PICK next : next = sinceClear'
      OBVIOUS
    <3>3. /\ next \in Seq(Nat) /\ Len(next) = Len(sinceClear) + 1
          /\ next[Len(sinceClear) + 1] = 0
          /\ \A i \in 1..Len(sinceClear) : next[i] = sinceClear[i]
      BY <1>4, <2>1, <3>2, AppendProperties DEF RateInv
    <3>4. Len(sinceClear) <= MaxRestarts
      BY <1>0, <3>1, RoomForOneMore
    <3>5. /\ Due' = Len(sinceClear) + 1
          /\ Followed(crashAges, sinceClear, Len(sinceClear) + 1)
      BY <1>1, <3>1, <3>2, <3>3 DEF Due, RateInv
    <3>6. \A i \in 1..Len(next) : i # Len(sinceClear) + 1 => i \in 1..Len(sinceClear)
      BY <1>1, <3>3
    <3>7. Followed(crashAges, next, Len(sinceClear) + 1)
      <4> SUFFICES ASSUME NEW i \in 1..Len(next), i < Len(sinceClear) + 1
                   PROVE  \E j \in 1..Len(crashAges) :
                             /\ Len(crashAges) + i + 1 = Len(sinceClear) + 1 + j
                             /\ crashAges[j] <= next[i]
        BY DEF Followed
      <4>1. i \in 1..Len(sinceClear) /\ next[i] = sinceClear[i]
        BY <1>1, <3>3
      <4> QED
        BY <3>5, <4>1 DEF Followed
    <3>8. \A i \in 1..Len(sinceClear) : sinceClear[i] \in Nat /\ sinceClear[i] <= CrashWindow
      BY ElementOfSeq DEF RateInv
    <3>9. OldestFirst(next) /\ \A i \in 1..Len(next) : next[i] <= CrashWindow
      <4>1. \A i \in 1..Len(next) : next[i] <= CrashWindow
        BY <1>1, <3>3, <3>6, <3>8
      <4> SUFFICES ASSUME NEW i \in 1..Len(next), NEW j \in 1..Len(next), i < j
                   PROVE  next[j] <= next[i]
        BY <4>1 DEF OldestFirst
      <4>2. i \in 1..Len(sinceClear) /\ next[i] = sinceClear[i]
        BY <1>1, <3>3
      <4>3. CASE j = Len(sinceClear) + 1
        BY <3>3, <3>8, <4>2, <4>3
      <4>4. CASE j \in 1..Len(sinceClear)
        BY <3>3, <4>2, <4>4 DEF RateInv, OldestFirst
      <4> QED
        BY <3>6, <4>3, <4>4
    <3> QED
      BY <1>1, <3>1, <3>2, <3>3, <3>4, <3>5, <3>7, <3>9
         DEF RateInv, FewSinceClear
  <2>2. CASE procs' = procs
    <3>1. ~(\E p \in procs : ProcessExit(p))
      BY <2>2, <1>0 DEF ProcessExit, TypeOK
    <3>2. crashAges' = crashAges
      BY <1>4 DEF BeginRespawn, SpawnOnce, crashVars
    <3> QED
      BY <1>0, <1>2, <1>4, <2>2, <3>1, <3>2, NoneStarts
  <2> QED
    BY <2>1, <2>2
<1>5. CASE Tick /\ sinceClear' = WithinWindow(Older(sinceClear))
  <2>1. PICK kept : kept = sinceClear'
    OBVIOUS
  <2>2. PICK n \in Nat : KeptPast(n, kept, Older(sinceClear))
    BY <1>5, <2>1, OlderEach, OlderKeepsOrder, WindowKeepsTheEnd DEF RateInv
  <2>3. /\ kept \in Seq(Nat) /\ Len(kept) \in Nat
        /\ Len(sinceClear) = Len(kept) + n
        /\ \A i \in 1..Len(kept) : kept[i] <= CrashWindow
    BY <2>2, OlderEach DEF KeptPast, RateInv
  <2>4. OldestFirst(kept)
    BY <2>2, OlderEach, OlderKeepsOrder, KeptIsOldestFirst DEF RateInv
  <2>5. crashAges' = Older(crashAges) /\ Len(crashAges') = Len(crashAges)
        /\ OldestFirst(crashAges')
    BY <1>0, <1>5, OlderEach, OlderKeepsOrder DEF Tick, RateInv, TypeOK
  <2>6. Pending' <=> Pending
    <3>1. /\ UNCHANGED <<generation, intentionalStop, queue>>
          /\ \A s \in sleepers' : \E t \in sleepers : s.gen = t.gen
      BY <1>5 DEF Tick
    <3>2. ASSUME NEW t \in sleepers PROVE \E s \in sleepers' : s.gen = t.gen
      <4> DEFINE s == [gen |-> t.gen, left |-> IF t.left = 0 THEN 0 ELSE t.left - 1]
      <4>1. s \in sleepers' /\ s.gen = t.gen
        BY <1>5 DEF Tick
      <4> QED
        BY <4>1
    <3> QED
      BY <3>1, <3>2 DEF Pending
  <2> DEFINE pending == IF Pending THEN 1 ELSE 0
  <2>7. pending \in {0, 1} /\ Due = Len(sinceClear) + pending
        /\ Due' = Len(kept) + pending
    BY <2>1, <2>6 DEF Due
  <2> HIDE DEF pending
  <2>8. Followed(crashAges', kept, Due')
    BY <1>1, <2>2, <2>5, <2>7, MomentPasses DEF RateInv
  <2>9. Len(kept) <= MaxRestarts + 1
    BY <1>1, <2>3 DEF RateInv, FewSinceClear
  <2> QED
    BY <2>1, <2>3, <2>4, <2>5, <2>6, <2>8, <2>9 DEF RateInv, FewSinceClear
<1>6. ASSUME NEW p \in procs, ProcessExit(p), sinceClear' = sinceClear
      PROVE  RateInv'
  <2>1. ~Pending /\ (Pending' => Len(crashAges') <= MaxRestarts)
    BY <1>6, CrashIsNews
  <2>2. CASE crashAges' = WithCrash(crashAges)
    <3>1. /\ OldestFirst(crashAges') /\ crashAges' # <<>>
          /\ Followed(crashAges', sinceClear, Len(sinceClear) + 1)
      <4>1. OldestFirst(WithCrash(crashAges)) /\ Len(WithCrash(crashAges)) >= 1
        BY <1>1, CrashIsCounted DEF RateInv
      <4>2. Followed(crashAges, sinceClear, Len(sinceClear))
        BY <1>1, <2>1 DEF RateInv, Due
      <4>3. Followed(WithCrash(crashAges), sinceClear, Len(sinceClear) + 1)
        BY <1>1, <4>2, CrashFollows DEF RateInv
      <4> QED
        BY <2>2, <4>1, <4>3, EmptySeq
    <3>2. Followed(crashAges', sinceClear, Len(sinceClear))
      BY <1>1, <3>1, FewerDue
    <3>3. Due' = Len(sinceClear) \/ Due' = Len(sinceClear) + 1
      BY <1>1, <1>6 DEF Due
    <3> QED
      BY <1>6, <2>1, <3>1, <3>2, <3>3 DEF RateInv, FewSinceClear
  <2>3. CASE crashAges' = crashAges /\ ~Pending'
    BY <1>2, <1>6, <2>3
  <2> QED
    BY <1>6, <2>2, <2>3, CrashIsNews
<1>7. ASSUME \/ crashAges' = crashAges /\ sinceClear' = sinceClear
             \/ crashAges' = <<>> /\ sinceClear' = <<>>
      PROVE  RateInv'
  <2>1. CASE crashAges' = <<>> /\ sinceClear' = <<>>
    BY <1>3, <2>1
  <2>2. CASE crashAges' = crashAges /\ sinceClear' = sinceClear
    <3>1. CASE \E p \in procs : ProcessExit(p)
      BY <1>6, <2>2, <3>1
    <3>2. CASE ~(\E p \in procs : ProcessExit(p))
      BY <1>0, <1>2, <2>2, <3>2, NoneStarts
    <3> QED
      BY <3>1, <3>2
  <2> QED
    BY <1>7, <2>1, <2>2
<1>8. CASE /\ BeginRestart \/ Terminated
           /\ IF crashAges # <<>> /\ crashAges' = <<>>
                THEN HistoryCleared
                ELSE UNCHANGED <<respawnAges, clearsSince, sinceClear>>
  <2>1. crashAges' = <<>> \/ crashAges' = crashAges
    BY <1>8 DEF BeginRestart, AwaitExit, Terminated, crashVars
  <2> QED
    BY <1>7, <1>8, <2>1 DEF HistoryCleared
<1>9. CASE /\ \/ Start \/ Stop \/ Restart \/ Shutdown \/ BeginStart
              \/ BeginStop \/ Spawned \/ Settle \/ SpawnError \/ Escalate
              \/ (\E s \in sleepers : Wake(s))
           /\ sinceClear' = sinceClear
  <2>1. crashAges' = crashAges
    BY <1>9 DEF Start, Stop, Restart, Request, Shutdown, BeginStart, SpawnOnce,
         BeginStop, AwaitExit, Spawned, Settle, SpawnError, Escalate, Wake, crashVars
  <2> QED
    BY <1>7, <1>9, <2>1
<1>10. CASE UNCHANGED historyVars
  <2>1. UNCHANGED <<crashAges, sinceClear, procs, generation, intentionalStop,
                    sleepers, queue>>
    BY <1>10 DEF historyVars, vars
  <2>2. Pending' <=> Pending
    BY <2>1 DEF Pending
  <2> QED
    BY <1>2, <2>1, <2>2
<1>11. CASE /\ BeginRespawn
            /\ IF procs' # procs
                 THEN RespawnAdded
                 ELSE UNCHANGED <<respawnAges, clearsSince, sinceClear>>
  BY <1>4, <1>11 DEF RespawnAdded
<1>12. CASE Tick /\ HistoryAges
  BY <1>5, <1>12 DEF HistoryAges
<1> QED
  BY <1>6, <1>8, <1>9, <1>10, <1>11, <1>12 DEF HistoryNext

\* Ages followed by one of no age at all are oldest first, too.
LEMMA NewestIsLast ==
    ASSUME NEW ages, IsAges(ages), OldestFirst(ages),
           \A i \in 1..Len(ages) : ages[i] <= CrashWindow,
           NEW next, next = Append(ages, 0)
    PROVE  /\ next \in Seq(Nat) /\ Len(next) = Len(ages) + 1
           /\ next[Len(ages) + 1] = 0
           /\ \A i \in 1..Len(ages) : next[i] = ages[i]
           /\ OldestFirst(next)
           /\ \A i \in 1..Len(next) : next[i] <= CrashWindow
<1>1. /\ next \in Seq(Nat) /\ Len(next) = Len(ages) + 1
      /\ next[Len(ages) + 1] = 0
      /\ \A i \in 1..Len(ages) : next[i] = ages[i]
      /\ Len(ages) \in Nat /\ CrashWindow \in Nat
      /\ \A i \in 1..Len(ages) : ages[i] \in Nat
  BY AppendProperties, ElementOfSeq, BoundsAssumption DEF IsAges
<1>2. \A i \in 1..Len(next) : i # Len(ages) + 1 => i \in 1..Len(ages)
  BY <1>1
<1>3. \A i \in 1..Len(next) : next[i] <= CrashWindow
  BY <1>1, <1>2
<1>4. ASSUME NEW i \in 1..Len(next), NEW j \in 1..Len(next), i < j
      PROVE  next[j] <= next[i]
  <2>1. i \in 1..Len(ages) /\ next[i] = ages[i]
    BY <1>1, <1>4
  <2>2. CASE j = Len(ages) + 1
    BY <1>1, <2>1, <2>2
  <2>3. CASE j \in 1..Len(ages)
    BY <1>1, <2>1, <2>3, <1>4 DEF OldestFirst
  <2> QED
    BY <1>2, <2>2, <2>3
<1> QED
  BY <1>1, <1>3, <1>4 DEF OldestFirst

\* A respawn is the newest of the window: a cap of others that no clearing has
\* come after leaves room for it.
LEMMA RespawnFits ==
    ASSUME RateInv, WindowInv, RespawnAdded, Len(sinceClear) <= MaxRestarts
    PROVE  WindowInv'
<1>0. /\ Len(respawnAges) \in Nat /\ Len(sinceClear) \in Nat /\ MaxRestarts \in Nat
      /\ Len(sinceClear) <= Len(respawnAges)
      /\ Len(clearsSince) = Len(respawnAges)
  BY BoundsAssumption DEF RateInv, WindowInv, NewestOf
<1>1. PICK n : n = Len(respawnAges)
  OBVIOUS
<1>2. /\ respawnAges' \in Seq(Nat) /\ Len(respawnAges') = n + 1
      /\ respawnAges'[n + 1] = 0
      /\ \A i \in 1..n : respawnAges'[i] = respawnAges[i]
      /\ OldestFirst(respawnAges')
      /\ \A i \in 1..Len(respawnAges') : respawnAges'[i] <= CrashWindow
  BY <1>1, NewestIsLast DEF WindowInv, RespawnAdded, IsAges
<1>3. /\ clearsSince' \in Seq(Nat) /\ Len(clearsSince') = n + 1
      /\ clearsSince'[n + 1] = 0
      /\ \A i \in 1..n : clearsSince'[i] = clearsSince[i]
  BY <1>0, <1>1, AppendProperties DEF WindowInv, RespawnAdded
<1>4. PICK k : k = Len(sinceClear)
  OBVIOUS
<1>5. /\ Len(sinceClear') = k + 1
      /\ sinceClear'[k + 1] = 0
      /\ \A i \in 1..k : sinceClear'[i] = sinceClear[i]
  BY <1>4, AppendProperties DEF RateInv, RespawnAdded
<1>6. /\ k \in Nat /\ n \in Nat /\ k <= n /\ k <= MaxRestarts
      /\ \A i \in 1..k : sinceClear[i] = respawnAges[n - k + i]
      /\ \A i \in 1..n - k : clearsSince[i] > 0
      /\ \A i \in 1..k : clearsSince[n - k + i] = 0
  BY <1>0, <1>1, <1>4 DEF WindowInv, NewestOf
<1>7. NewestOf(respawnAges', clearsSince', sinceClear')
  <2>1. ASSUME NEW i \in 1..k + 1
        PROVE  /\ sinceClear'[i] = respawnAges'[n - k + i]
               /\ clearsSince'[n - k + i] = 0
    <3>1. CASE i = k + 1
      <4>1. n - k + i = n + 1
        BY <1>6, <3>1
      <4> QED
        BY <1>2, <1>3, <1>5, <3>1, <4>1
    <3>2. CASE i \in 1..k
      <4>1. n - k + i \in 1..n
        BY <1>6, <3>2
      <4> QED
        BY <1>2, <1>3, <1>5, <1>6, <3>2, <4>1
    <3> QED
      BY <1>6, <3>1, <3>2
  <2>2. ASSUME NEW i \in 1..n - k PROVE clearsSince'[i] > 0
    <3>1. i \in 1..n
      BY <1>6
    <3> QED
      BY <1>3, <1>6, <3>1
  <2>3. (n + 1) - (k + 1) = n - k /\ k + 1 <= n + 1
    BY <1>6
  <2> QED
    BY <1>2, <1>5, <2>1, <2>2, <2>3 DEF NewestOf
<1>8. RespawnRateIsBounded'
  <2> SUFFICES ASSUME NEW i \in 1..n + 1, i + MaxRestarts + 1 <= n + 1
               PROVE  clearsSince'[i] > clearsSince'[i + MaxRestarts + 1]
    BY <1>2 DEF RespawnRateIsBounded
  <2>1. i \in 1..n /\ clearsSince'[i] = clearsSince[i]
    <3>1. MaxRestarts \in Nat /\ n \in Nat
      BY <1>0, <1>6
    <3>2. i \in 1..n
      BY <3>1
    <3> QED
      BY <1>3, <3>2
  <2>2. CASE i + MaxRestarts + 1 = n + 1
    <3>1. i \in 1..n - k
      BY <1>0, <1>6, <2>1, <2>2
    <3> QED
      BY <1>3, <1>6, <2>1, <2>2, <3>1
  <2>3. CASE i + MaxRestarts + 1 \in 1..n
    <3>1. clearsSince[i] > clearsSince[i + MaxRestarts + 1]
      BY <1>0, <1>1, <2>1, <2>3 DEF WindowInv, RespawnRateIsBounded
    <3> QED
      BY <1>3, <2>1, <2>3, <3>1
  <2> QED
    BY <1>0, <1>6, <2>1, <2>2, <2>3
<1> QED
  BY <1>1, <1>2, <1>3, <1>7, <1>8 DEF WindowInv

\* A restart() that clears the history has come after every respawn.
LEMMA ClearingComesAfterAll ==
    ASSUME RateInv, WindowInv, HistoryCleared
    PROVE  WindowInv'
<1>1. /\ Len(respawnAges) \in Nat /\ Len(sinceClear) \in Nat /\ MaxRestarts \in Nat
      /\ Len(clearsSince) = Len(respawnAges)
      /\ \A i \in 1..Len(clearsSince) : clearsSince[i] \in Nat
  BY BoundsAssumption, ElementOfSeq DEF RateInv, WindowInv
<1>2. /\ clearsSince' \in Seq(Nat) /\ Len(clearsSince') = Len(clearsSince)
      /\ \A i \in 1..Len(clearsSince) : clearsSince'[i] = clearsSince[i] + 1
  <2>1. \A i \in 1..Len(clearsSince) : clearsSince[i] + 1 \in Nat
    BY <1>1
  <2>2. Len(clearsSince) \in Nat
    BY <1>1
  <2> QED
    BY <2>1, <2>2, IsASeq, LenProperties DEF HistoryCleared
<1>3. sinceClear' = <<>> /\ Len(sinceClear') = 0 /\ respawnAges' = respawnAges
  BY EmptySeq DEF HistoryCleared
<1>4. NewestOf(respawnAges', clearsSince', sinceClear')
  BY <1>1, <1>2, <1>3 DEF NewestOf
<1>5. RespawnRateIsBounded'
  <2> SUFFICES ASSUME NEW i \in 1..Len(respawnAges),
                      i + MaxRestarts + 1 <= Len(respawnAges)
               PROVE  clearsSince'[i] > clearsSince'[i + MaxRestarts + 1]
    BY <1>3 DEF RespawnRateIsBounded
  <2>1. clearsSince[i] > clearsSince[i + MaxRestarts + 1]
    BY DEF WindowInv, RespawnRateIsBounded
  <2>2. i + MaxRestarts + 1 \in 1..Len(clearsSince)
    BY <1>1
  <2> QED
    BY <1>1, <1>2, <2>1, <2>2
<1> QED
  BY <1>1, <1>2, <1>3, <1>4, <1>5 DEF WindowInv

\* A moment forgets the oldest of the window, and of those since the clearing
\* the same.
LEMMA WindowAges ==
    ASSUME RateInv, WindowInv, HistoryAges
    PROVE  WindowInv'
<1>1. PICK kept : kept = respawnAges'
  OBVIOUS
<1>2. PICK newest : newest = sinceClear'
  OBVIOUS
<1>3. PICK n \in Nat : KeptPast(n, kept, Older(respawnAges))
  BY <1>1, OlderEach, OlderKeepsOrder, WindowKeepsTheEnd DEF WindowInv, HistoryAges
<1>4. PICK m \in Nat : KeptPast(m, newest, Older(sinceClear))
  BY <1>2, OlderEach, OlderKeepsOrder, WindowKeepsTheEnd DEF RateInv, HistoryAges
<1>5. PICK all : all = Len(respawnAges)
  OBVIOUS
<1>6. PICK k : k = Len(sinceClear)
  OBVIOUS
<1>7. /\ all \in Nat /\ k \in Nat /\ k <= all /\ MaxRestarts \in Nat
      /\ Len(clearsSince) = all
      /\ \A i \in 1..k : sinceClear[i] = respawnAges[all - k + i]
      /\ \A i \in 1..all - k : clearsSince[i] > 0
      /\ \A i \in 1..k : clearsSince[all - k + i] = 0
  BY <1>5, <1>6, BoundsAssumption DEF RateInv, WindowInv, NewestOf
<1>8. /\ Len(Older(respawnAges)) = all
      /\ \A i \in 1..all : Older(respawnAges)[i]
                              = Smaller(respawnAges[i] + 1, CrashWindow + 1)
      /\ Len(Older(sinceClear)) = k
      /\ \A i \in 1..k : Older(sinceClear)[i]
                            = Smaller(sinceClear[i] + 1, CrashWindow + 1)
  BY <1>5, <1>6, OlderEach DEF RateInv, WindowInv
<1>9. /\ kept \in Seq(Nat) /\ Len(kept) \in Nat /\ all = Len(kept) + n
      /\ \A i \in 1..Len(kept) : /\ kept[i] = Older(respawnAges)[i + n]
                                 /\ kept[i] <= CrashWindow
      /\ \A i \in 1..n : Older(respawnAges)[i] > CrashWindow
      /\ newest \in Seq(Nat) /\ Len(newest) \in Nat /\ k = Len(newest) + m
      /\ \A i \in 1..Len(newest) : /\ newest[i] = Older(sinceClear)[i + m]
                                   /\ newest[i] <= CrashWindow
      /\ \A i \in 1..m : Older(sinceClear)[i] > CrashWindow
  <2>1. /\ kept \in Seq(Nat) /\ all = Len(kept) + n
        /\ \A i \in 1..Len(kept) : /\ kept[i] = Older(respawnAges)[i + n]
                                   /\ kept[i] <= CrashWindow
        /\ \A i \in 1..n : Older(respawnAges)[i] > CrashWindow
    BY <1>3, <1>8 DEF KeptPast
  <2>2. /\ newest \in Seq(Nat) /\ k = Len(newest) + m
        /\ \A i \in 1..Len(newest) : /\ newest[i] = Older(sinceClear)[i + m]
                                     /\ newest[i] <= CrashWindow
        /\ \A i \in 1..m : Older(sinceClear)[i] > CrashWindow
    BY <1>4, <1>8 DEF KeptPast
  <2>3. Len(kept) \in Nat /\ Len(newest) \in Nat
    BY <2>1, <2>2
  <2> QED
    BY <2>1, <2>2, <2>3
<1>10. \A i \in 1..k : /\ all - k + i \in 1..all
                       /\ Older(sinceClear)[i] = Older(respawnAges)[all - k + i]
  <2> SUFFICES ASSUME NEW i \in 1..k
               PROVE  /\ all - k + i \in 1..all
                      /\ Older(sinceClear)[i] = Older(respawnAges)[all - k + i]
    OBVIOUS
  <2>1. all - k + i \in 1..all
    BY <1>7
  <2>2. sinceClear[i] = respawnAges[all - k + i]
    BY <1>7
  <2> QED
    BY <1>8, <2>1, <2>2
<1>11. CrashWindow \in Nat /\ (\A i \in 1..Len(kept) : kept[i] \in Nat)
       /\ (\A i \in 1..Len(newest) : newest[i] \in Nat)
  BY <1>9, ElementOfSeq, BoundsAssumption
<1>12. ASSUME NEW i \in 1..k PROVE i <= m <=> all - k + i <= n
  <2>1. CASE i <= m
    <3>1. Older(respawnAges)[all - k + i] > CrashWindow
      <4>1. i \in 1..m
        BY <1>9, <2>1
      <4> QED
        BY <1>9, <1>10, <4>1
    <3>2. ASSUME all - k + i > n PROVE FALSE
      <4>1. all - k + i - n \in 1..Len(kept) /\ (all - k + i - n) + n = all - k + i
        BY <1>7, <1>9, <3>2
      <4>2. /\ kept[all - k + i - n] = Older(respawnAges)[all - k + i]
            /\ kept[all - k + i - n] <= CrashWindow
        BY <1>9, <4>1
      <4> QED
        BY <1>11, <3>1, <4>1, <4>2
    <3> QED
      BY <1>7, <2>1, <3>2
  <2>2. CASE i > m
    <3>1. i - m \in 1..Len(newest) /\ (i - m) + m = i
      BY <1>9, <2>2
    <3>2. newest[i - m] = Older(sinceClear)[i] /\ newest[i - m] <= CrashWindow
      BY <1>9, <3>1
    <3>3. Older(respawnAges)[all - k + i] <= CrashWindow
          /\ Older(respawnAges)[all - k + i] \in Nat
      BY <1>10, <1>11, <3>1, <3>2
    <3>4. ~(all - k + i <= n)
      BY <1>9, <1>10, <1>11, <3>3
    <3> QED
      BY <2>2, <3>4
  <2> QED
    BY <2>1, <2>2
<1>13. /\ Len(newest) <= Len(kept)
       /\ \A i \in 1..Len(newest) : /\ Len(kept) - Len(newest) + i \in 1..Len(kept)
                                    /\ Len(kept) - Len(newest) + i + n = all - k + (i + m)
       /\ \A i \in 1..Len(kept) - Len(newest) : i + n \in 1..all - k
  <2>1. CASE m = 0
    <3>1. k = 0 \/ 1 \in 1..k
      BY <1>7
    <3>2. k = 0 \/ ~(all - k + 1 <= n)
      BY <1>12, <2>1, <3>1
    <3>3. k = 0 \/ n <= all - k
      BY <1>7, <3>2
    <3> QED
      BY <1>7, <1>9, <2>1, <3>3
  <2>2. CASE m > 0 /\ m < k
    <3>1. all - k + m <= n
      <4>1. m \in 1..k
        BY <1>7, <2>2
      <4> QED
        BY <1>12, <4>1
    <3>2. ~(all - k + (m + 1) <= n)
      <4>1. m + 1 \in 1..k /\ ~(m + 1 <= m)
        BY <1>7, <2>2
      <4> QED
        BY <1>12, <4>1
    <3>3. n = all - k + m
      BY <1>7, <3>1, <3>2
    <3> QED
      BY <1>7, <1>9, <2>2, <3>3
  <2>3. CASE m > 0 /\ m = k
    <3>1. all - k + k <= n
      BY <1>7, <1>12, <2>3
    <3>2. n = all
      BY <1>7, <1>9, <3>1
    <3> QED
      BY <1>7, <1>9, <2>3, <3>2
  <2> QED
    BY <1>7, <1>9, <2>1, <2>2, <2>3
<1>14. PICK left : left = clearsSince'
  OBVIOUS
<1>15. /\ left \in Seq(Nat) /\ Len(left) = Len(kept)
       /\ \A i \in 1..Len(kept) : left[i] = clearsSince[i + n]
  <2>1. left = SubSeq(clearsSince, n + 1, all)
    <3>1. left = SubSeq(clearsSince, all - Len(kept) + 1, all)
      BY <1>1, <1>7, <1>14 DEF HistoryAges
    <3>2. all - Len(kept) + 1 = n + 1
      BY <1>7, <1>9
    <3> QED
      BY <3>1, <3>2
  <2>2. \A i \in n + 1..all : i \in 1..all /\ clearsSince[i] \in Nat
    BY <1>7, ElementOfSeq DEF WindowInv
  <2>3. /\ left \in Seq(Nat)
        /\ Len(left) = IF n + 1 <= all THEN all - (n + 1) + 1 ELSE 0
        /\ \A i \in 1..all - (n + 1) + 1 : left[i] = clearsSince[n + 1 + i - 1]
    BY <1>7, <2>1, <2>2, SubSeqProperties DEF WindowInv
  <2>4. \A i \in 1..Len(kept) : i \in 1..all - (n + 1) + 1 /\ n + 1 + i - 1 = i + n
    BY <1>7, <1>9
  <2> QED
    BY <1>7, <1>9, <2>3, <2>4
<1>16. OldestFirst(kept)
  BY <1>3, OlderEach, OlderKeepsOrder, KeptIsOldestFirst DEF WindowInv
<1>17. NewestOf(kept, left, newest)
  <2>1. ASSUME NEW i \in 1..Len(newest)
        PROVE  /\ newest[i] = kept[Len(kept) - Len(newest) + i]
               /\ left[Len(kept) - Len(newest) + i] = 0
    <3>1. i + m \in 1..k
      BY <1>7, <1>9
    <3>2. newest[i] = Older(respawnAges)[all - k + (i + m)]
      BY <1>9, <1>10, <3>1
    <3>3. /\ Len(kept) - Len(newest) + i \in 1..Len(kept)
          /\ Len(kept) - Len(newest) + i + n = all - k + (i + m)
      BY <1>13
    <3>4. kept[Len(kept) - Len(newest) + i] = Older(respawnAges)[all - k + (i + m)]
      BY <1>9, <3>3
    <3>5. left[Len(kept) - Len(newest) + i] = clearsSince[all - k + (i + m)]
      BY <1>15, <3>3
    <3> QED
      BY <1>7, <3>1, <3>2, <3>4, <3>5
  <2>2. \A i \in 1..Len(kept) - Len(newest) : left[i] > 0
    <3>1. \A i \in 1..Len(kept) - Len(newest) : i \in 1..Len(kept)
      BY <1>9
    <3> QED
      BY <1>7, <1>13, <1>15, <3>1
  <2> QED
    BY <1>13, <2>1, <2>2 DEF NewestOf
<1>18. RespawnRateIsBounded'
  <2> SUFFICES ASSUME NEW i \in 1..Len(kept), i + MaxRestarts + 1 <= Len(kept)
               PROVE  left[i] > left[i + MaxRestarts + 1]
    BY <1>1, <1>14 DEF RespawnRateIsBounded
  <2>1. /\ i + MaxRestarts + 1 \in 1..Len(kept)
        /\ i + n \in 1..all
        /\ (i + n) + MaxRestarts + 1 <= all
        /\ (i + MaxRestarts + 1) + n = (i + n) + MaxRestarts + 1
    BY <1>7, <1>9
  <2>2. clearsSince[i + n] > clearsSince[(i + n) + MaxRestarts + 1]
    BY <1>5, <2>1 DEF WindowInv, RespawnRateIsBounded
  <2> QED
    BY <1>15, <2>1, <2>2
<1> QED
  BY <1>1, <1>2, <1>9, <1>14, <1>15, <1>16, <1>17, <1>18 DEF WindowInv

LEMMA WindowStep ==
    IInv /\ RateInv /\ WindowInv /\ [HistoryNext]_historyVars => WindowInv'
<1> SUFFICES ASSUME IInv, RateInv, WindowInv, [HistoryNext]_historyVars
             PROVE  WindowInv'
  OBVIOUS
<1>1. CASE UNCHANGED <<respawnAges, clearsSince, sinceClear>>
  BY <1>1 DEF WindowInv, RespawnRateIsBounded
<1>2. CASE BeginRespawn /\ procs' # procs /\ RespawnAdded
  <2>1. Len(sinceClear) <= MaxRestarts
    BY <1>2, ForkIsDue, RoomForOneMore DEF IInv
  <2> QED
    BY <1>2, <2>1, RespawnFits
<1>3. CASE HistoryAges
  BY <1>3, WindowAges
<1>4. CASE HistoryCleared
  BY <1>4, ClearingComesAfterAll
<1> QED
  BY <1>1, <1>2, <1>3, <1>4 DEF HistoryNext, historyVars

\* Every automatic respawn of the last window counted, also those before an
\* operator's restart(): of any cap + 2 of them, a restart() that cleared the
\* crash history came between the first and the last, for any cap and any window.
THEOREM RateIsBounded == HistorySpec => []RespawnRateIsBounded
<1>1. HistorySpec => Spec
  <2>1. HistoryInit => Init
    BY HistoryInitRefines
  <2>2. [HistoryNext]_historyVars => [Next]_vars
    BY HistoryStepRefines
  <2> QED
    BY <2>1, <2>2, PTL DEF HistorySpec, Spec
<1>2. HistoryInit => RateInv /\ WindowInv
  <2>1. HistoryInit => WindowInv
    BY EmptySeq DEF HistoryInit, WindowInv, OldestFirst, NewestOf, RespawnRateIsBounded
  <2> QED
    BY <2>1, RateInit
<1>3. IInv /\ RateInv /\ [HistoryNext]_historyVars => RateInv'
  BY RateStep
<1>4. IInv /\ RateInv /\ WindowInv /\ [HistoryNext]_historyVars => WindowInv'
  BY WindowStep
<1>5. WindowInv => RespawnRateIsBounded
  BY DEF WindowInv
<1> QED
  BY <1>1, <1>2, <1>3, <1>4, <1>5, Invariance, PTL DEF HistorySpec

=============================================================================
