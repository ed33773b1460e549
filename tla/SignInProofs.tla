---------------------------- MODULE SignInProofs ----------------------------
(***************************************************************************)
(* Proofs about SignIn, for any accounts and any number of attempts and    *)
(* operations; about GiftSubs, for any roster, gifts, failures and clock;  *)
(* about LogFeed, for a ring of any size, chunks, cuts and restarts; about *)
(* AppLog, for any sizes of the file and the ring, kills and faults; and   *)
(* about FollowDialog, for any queries, matches, tabs and failures.  They  *)
(* share no state.                                                         *)
(***************************************************************************)
EXTENDS SignIn, GiftSubs, LogFeed, AppLog, FollowDialog, SequenceTheorems,
        FiniteSetTheorems, WellFoundedInduction, TLAPS

\* A device code is given to a named account only, so "ok" is said of one; a
\* process that was not started has said nothing.
NameInv ==
    \A a \in Attempts :
        /\ process[a].at = "unborn" => lines[a] = <<>>
        /\ process[a].at = "polling" => process[a].name # NoName
        /\ \A i \in 1..Len(lines[a]) : lines[a][i] = "ok" => process[a].name # NoName

IInv == TypeOK /\ NameInv /\ OneAttempt /\ AccountsAgree

Ats == Alive \cup {"unborn", "unspawned", "ended", "reaped"}
ProcessType == [at : Ats, name : Accounts, signal : Signals]
OpType == [kind : {"start", "stop", "restart"}, for : {"user", "sign-out"}]

USE NamesAssumption, BoundsAssumption DEF Attempts, Accounts

-----------------------------------------------------------------------------
\* A queue keeps what is appended, and what is behind its head.
LEMMA AppendKeeps ==
    ASSUME NEW S, NEW s \in Seq(S), NEW e \in S
    PROVE  /\ Append(s, e) \in Seq(S)
           /\ Len(Append(s, e)) = Len(s) + 1
           /\ \A i \in 1..Len(s) : Append(s, e)[i] = s[i]
           /\ Append(s, e)[Len(s) + 1] = e
    OBVIOUS

LEMMA TailKeeps ==
    ASSUME NEW S, NEW s \in Seq(S), s # <<>>
    PROVE  /\ Tail(s) \in Seq(S) /\ Head(s) \in S /\ Head(s) = s[1]
           /\ Len(Tail(s)) = Len(s) - 1 /\ Len(s) >= 1
           /\ \A i \in 1..Len(Tail(s)) : Tail(s)[i] = s[i + 1]
           /\ \A i \in 1..Len(s) : i # 1 => i - 1 \in 1..Len(Tail(s)) /\ s[i] = Tail(s)[i - 1]
    OBVIOUS

\* The initial states satisfy the invariant.
LEMMA InitIInv == Init => IInv
  <1> SUFFICES ASSUME Init PROVE IInv
    OBVIOUS
  <1> USE DEF Init
  <1>1. TypeOK
    <2>1. /\ process \in [Attempts -> ProcessType]
          /\ username \in Accounts /\ helper \in Accounts /\ loggedIn \in BOOLEAN
          /\ miner \in Accounts \cup {NoMiner}
      BY DEF Unborn, ProcessType, Ats, Alive, Signals
    <2>2. lines \in [Attempts -> Seq(Stages)]
      BY DEF Stages, Terminal
    <2>3. ops \in Seq(OpType) /\ child \in 0..MaxAttempts
      BY DEF OpType
    <2> QED
      BY <2>1, <2>2, <2>3 DEF TypeOK, ProcessType, Ats, OpType
  <1>2. NameInv
    BY DEF NameInv, Unborn
  <1>3. OneAttempt
    BY DEF OneAttempt, Running, Alive, Unborn
  <1>4. AccountsAgree
    BY DEF AccountsAgree
  <1> QED
    BY <1>1, <1>2, <1>3, <1>4 DEF IInv

-----------------------------------------------------------------------------
\* What a step of a login helper leaves alone.
LEMMA PythonStep ==
    ASSUME IInv, NEW a \in Attempts, LoginHelper(a)
    PROVE  IInv'
  <1> USE DEF IInv
  <1>1. UnlessPython
    BY DEF LoginHelper, ShowsCode, StillPending, GivesUp, Crashes, SaysOk, DiesOfSignal
  <1>2. PICK at \in Ats, signal \in Signals :
          /\ process' = [process EXCEPT ![a].at = at, ![a].signal = signal]
          /\ Running(a) /\ at # "unborn"
          /\ at = "polling" => process[a].name # NoName
    <2> USE DEF TypeOK, Ats, Alive, Signals, Running, Steps, Becomes
    <2>1. process[a] \in [at : Ats, name : Accounts, signal : Signals]
      OBVIOUS
    <2>2. process[a].signal \in Signals /\ process[a].at \in Ats
      BY <2>1
    <2>3. ASSUME NEW at \in Ats, process' = [process EXCEPT ![a].at = at]
          PROVE  process' = [process EXCEPT ![a].at = at, ![a].signal = process[a].signal]
      BY <2>3
    <2>4. CASE ShowsCode(a)
      BY <2>4, <2>2, <2>3 DEF ShowsCode
    <2>5. CASE StillPending(a)
      <3>1. process' = [process EXCEPT ![a].at = process[a].at,
                                       ![a].signal = process[a].signal]
        BY <2>5 DEF StillPending
      <3> QED
        BY <2>5, <3>1, <2>2 DEF StillPending, NameInv
    <2>6. CASE GivesUp(a)
      <3>1. Running(a) /\ Becomes(a, "ended")
        BY <2>6 DEF GivesUp
      <3>2. process' = [process EXCEPT ![a].at = "ended", ![a].signal = process[a].signal]
        BY <3>1, <2>3
      <3>3. "ended" \in Ats /\ Running(a)
        BY <3>1
      <3> HIDE DEF TypeOK, Ats, Signals, Running, Becomes
      <3> QED
        BY <3>2, <3>3, <2>2
    <2>7. CASE Crashes(a)
      BY <2>7, <2>2, <2>3 DEF Crashes
    <2>8. CASE SaysOk(a)
      BY <2>8, <2>2, <2>3 DEF SaysOk
    <2>9. CASE DiesOfSignal(a)
      BY <2>9 DEF DiesOfSignal
    <2> QED
      BY <2>4, <2>5, <2>6, <2>7, <2>8, <2>9 DEF LoginHelper
  <1>3. PICK said \in Stages :
          /\ \/ lines' = [lines EXCEPT ![a] = Append(@, said)]
             \/ lines' = lines
          /\ said = "ok" => process[a].at = "polling"
    BY DEF LoginHelper, ShowsCode, StillPending, GivesUp, Crashes, SaysOk, DiesOfSignal,
           Says, Stages, Terminal, Steps
  <1>4. lines' \in [Attempts -> Seq(Stages)]
    <2>1. lines \in [Attempts -> Seq(Stages)]
      BY DEF TypeOK
    <2>2. Append(lines[a], said) \in Seq(Stages)
      BY <2>1, AppendKeeps
    <2> QED
      BY <1>3, <2>1, <2>2
  <1>5. process' \in [Attempts -> ProcessType]
    BY <1>2 DEF TypeOK, ProcessType, Ats
  <1>6. \A b \in Attempts : process'[b].name = process[b].name
    BY <1>2 DEF TypeOK
  <1>7. TypeOK'
    BY <1>1, <1>4, <1>5 DEF TypeOK, UnlessPython, accountVars, runnerVars, helperVars,
       minerVars, routeVars, ProcessType, Ats
  <1>8. NameInv'
    <2> SUFFICES ASSUME NEW b \in Attempts
                 PROVE  /\ process'[b].at = "unborn" => lines'[b] = <<>>
                        /\ process'[b].at = "polling" => process'[b].name # NoName
                        /\ \A i \in 1..Len(lines'[b]) :
                             lines'[b][i] = "ok" => process'[b].name # NoName
      BY DEF NameInv
    <2>0. process'[b].at = "unborn" => lines'[b] = <<>>
      BY <1>2, <1>3 DEF NameInv, TypeOK, Running, Alive
    <2>1. process'[b].at = "polling" => process'[b].name # NoName
      BY <1>2, <1>6 DEF NameInv, TypeOK
    <2>2. ASSUME NEW i \in 1..Len(lines'[b]), lines'[b][i] = "ok"
          PROVE  process'[b].name # NoName
      <3>1. lines[b] \in Seq(Stages)
        BY DEF TypeOK
      <3>2. CASE lines'[b] = lines[b]
        BY <2>2, <3>2, <1>6 DEF NameInv
      <3>3. CASE b = a /\ lines'[b] = Append(lines[b], said)
        BY <2>2, <3>1, <3>3, <1>3, <1>6, AppendKeeps DEF NameInv
      <3> QED
        BY <1>3, <3>2, <3>3 DEF TypeOK
    <2> QED
      BY <2>0, <2>1, <2>2
  <1>9. OneAttempt'
    BY <1>1, <1>2 DEF OneAttempt, Running, UnlessPython, runnerVars, TypeOK
  <1>10. AccountsAgree'
    BY <1>1 DEF AccountsAgree, UnlessPython, accountVars, helperVars, minerVars, routeVars
  <1> QED
    BY <1>7, <1>8, <1>9, <1>10

-----------------------------------------------------------------------------
\* What a step does to the accounts in use is safe if one of these holds: they
\* stay, or what would disagree is being replaced.
LEMMA AgreeIfKept ==
    ASSUME AccountsAgree, username' = username, helper' = helper, dying' = dying,
           miner' = miner, applying' = applying,
           \A i \in 1..Len(ops) : \E j \in 1..Len(ops') : ops'[j] = ops[i]
    PROVE  AccountsAgree'
  BY DEF AccountsAgree

\* An operation appended to the queue leaves those in front of it.
LEMMA QueuedStep ==
    ASSUME TypeOK, NEW kind \in {"start", "stop", "restart"},
           NEW caller \in {"user", "sign-out"}, Queued(kind, caller)
    PROVE  /\ ops' \in Seq(OpType)
           /\ \A i \in 1..Len(ops) : i \in 1..Len(ops') /\ ops'[i] = ops[i]
           /\ \E i \in 1..Len(ops') : ops'[i].kind = kind
  <1>1. ops \in Seq(OpType) /\ Op(kind, caller) \in OpType
    BY DEF TypeOK, OpType, Op
  <1>2. Len(ops) \in Nat
    BY <1>1
  <1>3. /\ ops' \in Seq(OpType) /\ Len(ops') = Len(ops) + 1
        /\ \A i \in 1..Len(ops) : ops'[i] = ops[i]
        /\ ops'[Len(ops) + 1] = Op(kind, caller)
    BY <1>1, AppendKeeps DEF Queued
  <1>4. Op(kind, caller).kind = kind /\ Len(ops) + 1 \in 1..Len(ops')
    BY <1>2, <1>3 DEF Op
  <1> QED
    BY <1>2, <1>3, <1>4

\* What the end of an operation does to the queue and the miner.
LEMMA ServedStep ==
    ASSUME TypeOK, AccountsAgree, ops # <<>>, Served, username' = username,
           helper' = helper, dying' = dying, applying' = applying
    PROVE  /\ ops' \in Seq(OpType) /\ miner' \in Accounts \cup {NoMiner}
           /\ AccountsAgree'
  <1>1. ops \in Seq(OpType)
    BY DEF TypeOK, OpType
  <1>2. /\ ops' \in Seq(OpType) /\ Head(ops) \in OpType /\ Head(ops) = ops[1]
        /\ \A i \in 1..Len(ops) :
             i # 1 => i - 1 \in 1..Len(ops') /\ ops[i] = ops'[i - 1]
    BY <1>1, TailKeeps DEF Served
  <1>3. Head(ops).kind \in {"start", "stop", "restart"}
    BY <1>2 DEF OpType
  <1>4. miner' \in {username, NoMiner} \/ (miner' = miner /\ Head(ops).kind = "start")
    BY <1>3 DEF Served
  <1>5. ASSUME NEW i \in 1..Len(ops), ops[i].kind # "start", Head(ops).kind = "start"
        PROVE  \E j \in 1..Len(ops') : ops'[j].kind # "start"
    BY <1>2, <1>5
  <1>6. AccountsAgree'
    BY <1>4, <1>5 DEF AccountsAgree
  <1> QED
    BY <1>2, <1>4, <1>6 DEF TypeOK

-----------------------------------------------------------------------------
\* A signal changes nothing but what is pending for a process.
LEMMA SignalledStep ==
    ASSUME TypeOK, NEW a \in 0..MaxAttempts, NEW signal \in Signals, Signalled(a, signal)
    PROVE  /\ process' \in [Attempts -> ProcessType]
           /\ \A b \in Attempts : /\ process'[b].at = process[b].at
                                  /\ process'[b].name = process[b].name
  <1>1. process \in [Attempts -> ProcessType]
    BY DEF TypeOK, ProcessType, Ats
  <1>2. CASE a \in Attempts
    <2>1. PICK s \in Signals : process' = [process EXCEPT ![a].signal = s]
      BY <1>1, <1>2 DEF Signalled, ProcessType
    <2> QED
      BY <1>1, <2>1 DEF ProcessType
  <1>3. CASE a = 0
    BY <1>1, <1>3 DEF Signalled, ProcessType
  <1> QED
    BY <1>2, <1>3

\* If no process gets further, and lines are only read, NameInv stays.
LEMMA NameInvKept ==
    ASSUME TypeOK, NameInv,
           \A b \in Attempts : /\ process'[b].at = "unborn" => process[b].at = "unborn"
                               /\ process'[b].at = "polling" => process[b].at = "polling"
                               /\ process'[b].name = process[b].name,
           \A b \in Attempts : lines'[b] \in {lines[b], Tail(lines[b])},
           \A b \in Attempts : lines'[b] # lines[b] => lines[b] # <<>>
    PROVE  NameInv'
  <1> SUFFICES ASSUME NEW b \in Attempts
               PROVE  /\ process'[b].at = "unborn" => lines'[b] = <<>>
                      /\ process'[b].at = "polling" => process'[b].name # NoName
                      /\ \A i \in 1..Len(lines'[b]) :
                           lines'[b][i] = "ok" => process'[b].name # NoName
    BY DEF NameInv
  <1>1. lines[b] \in Seq(Stages)
    BY DEF TypeOK
  <1>2. CASE lines'[b] = lines[b]
    BY <1>2 DEF NameInv
  <1>3. CASE lines'[b] = Tail(lines[b]) /\ lines[b] # <<>>
    <2>1. \A i \in 1..Len(lines'[b]) :
            i + 1 \in 1..Len(lines[b]) /\ lines'[b][i] = lines[b][i + 1]
      BY <1>1, <1>3, TailKeeps
    <2> QED
      BY <2>1 DEF NameInv
  <1> QED
    BY <1>2, <1>3

-----------------------------------------------------------------------------
\* The exit of a process, or its failing to start.
LEMMA FinishedStep ==
    ASSUME IInv, NEW a \in Attempts, NEW forced \in BOOLEAN, ~Running(a),
           Finished(a, forced)
    PROVE  IInv'
  <1> USE DEF IInv
  <1>1. process \in [Attempts -> ProcessType]
    BY DEF TypeOK, ProcessType, Ats
  <1>2. process' = [process EXCEPT ![a].at = "reaped"]
    BY DEF Finished, Becomes
  <1>3. /\ process' \in [Attempts -> ProcessType]
        /\ \A b \in Attempts : process'[b].name = process[b].name
        /\ \A b \in Attempts : b # a => process'[b] = process[b]
        /\ process'[a].at = "reaped"
    BY <1>1, <1>2 DEF ProcessType, Ats
  <1>4. UNCHANGED <<accountVars, lines, helperVars, minerVars, routeVars>>
    BY DEF Finished
  <1>5. child' \in {0, child} /\ (child' # child => child = a)
    BY DEF Finished, runnerVars
  <1>6. current' \in Stages \cup {"none"} /\ killTimer' \in BOOLEAN
    BY DEF Finished, runnerVars, TypeOK, Stages, Terminal
  <1>7. TypeOK'
    BY <1>3, <1>4, <1>5, <1>6 DEF TypeOK, accountVars, helperVars, minerVars, routeVars,
       ProcessType, Ats
  <1>8. NameInv'
    BY <1>3, <1>4, NameInvKept
  <1>9. OneAttempt'
    BY <1>3, <1>5 DEF OneAttempt, Running, Alive
  <1>10. AccountsAgree'
    BY <1>4 DEF AccountsAgree, accountVars, helperVars, minerVars, routeVars
  <1> QED
    BY <1>7, <1>8, <1>9, <1>10

LEMMA ExitStep ==
    ASSUME IInv, NEW a \in Attempts, ExitArrives(a) \/ SpawnFails(a)
    PROVE  IInv'
  <1>1. ~Running(a)
    BY DEF ExitArrives, SpawnFails, Running, Alive
  <1>2. (current \notin Terminal) \in BOOLEAN
    OBVIOUS
  <1> QED
    BY <1>1, <1>2, FinishedStep DEF ExitArrives, SpawnFails

\* What reading a line does to the lines that are left.
LEMMA ReadStep ==
    ASSUME TypeOK, NEW a \in Attempts, lines[a] # <<>>,
           lines' = [lines EXCEPT ![a] = Tail(@)]
    PROVE  /\ lines' \in [Attempts -> Seq(Stages)]
           /\ Head(lines[a]) \in Stages
           /\ Head(lines[a]) = lines[a][1] /\ 1 \in 1..Len(lines[a])
           /\ \A b \in Attempts : lines'[b] \in {lines[b], Tail(lines[b])}
           /\ \A b \in Attempts : lines'[b] # lines[b] => lines[b] # <<>>
  <1>1. lines \in [Attempts -> Seq(Stages)] /\ lines[a] \in Seq(Stages)
    BY DEF TypeOK
  <1>2. /\ Tail(lines[a]) \in Seq(Stages) /\ Head(lines[a]) \in Stages
        /\ Head(lines[a]) = lines[a][1] /\ Len(lines[a]) >= 1 /\ Len(lines[a]) \in Nat
    BY <1>1, TailKeeps
  <1> QED
    BY <1>1, <1>2

LEMMA LineStep ==
    ASSUME IInv, NEW a \in Attempts, LineArrives(a)
    PROVE  IInv'
  <1> USE DEF IInv, LineArrives
  <1>1. TypeOK'
    BY ReadStep DEF TypeOK, accountVars, helperVars, minerVars, routeVars
  <1>2. NameInv'
    BY ReadStep, NameInvKept
  <1>3. OneAttempt'
    BY DEF OneAttempt, Running
  <1>4. AccountsAgree'
    BY DEF AccountsAgree, accountVars, helperVars, minerVars, routeVars
  <1> QED
    BY <1>1, <1>2, <1>3, <1>4

\* The helper and the miner of the old account are both on their way out.
LEMMA OkStep ==
    ASSUME IInv, NEW a \in Attempts, OkArrives(a)
    PROVE  IInv'
  <1> USE DEF IInv
  <1>1. /\ lines' = [lines EXCEPT ![a] = Tail(@)] /\ lines[a] # <<>>
        /\ Head(lines[a]) = "ok"
        /\ UNCHANGED <<child, killTimer, process, miner, routeVars>>
        /\ current' = "ok" /\ loggedIn' = TRUE
        /\ username' \in {process[a].name, username}
        /\ dying' = (helper # NoHelper) /\ helper' = helper
    BY DEF OkArrives, Recycled
  <1>2. process[a].name \in Names /\ process[a].name # NoName
    BY <1>1, ReadStep DEF NameInv, TypeOK
  <1>3. /\ ops' \in Seq(OpType)
        /\ username' = username \/ \E i \in 1..Len(ops') : ops'[i].kind = "restart"
        /\ \A i \in 1..Len(ops) : i \in 1..Len(ops') /\ ops'[i] = ops[i]
    <2>1. CASE username' # NoName
      BY <2>1, QueuedStep DEF OkArrives
    <2>2. CASE username' = NoName
      BY <2>2, <1>1, <1>2 DEF OkArrives, TypeOK, OpType
    <2> QED
      BY <2>1, <2>2
  <1>4. TypeOK'
    BY <1>1, <1>2, <1>3, ReadStep DEF TypeOK, Stages, Terminal, OpType, routeVars
  <1>5. NameInv'
    BY <1>1, ReadStep, NameInvKept
  <1>6. OneAttempt'
    BY <1>1 DEF OneAttempt, Running
  <1>7. AccountsAgree'
    BY <1>1, <1>3 DEF AccountsAgree, routeVars
  <1> QED
    BY <1>4, <1>5, <1>6, <1>7

-----------------------------------------------------------------------------
\* The runner's own steps: a new attempt, and a signal to the one there is.
LEMMA SignsInStep ==
    ASSUME IInv, SignsIn
    PROVE  IInv'
  <1> USE DEF IInv
  <1>1. UNCHANGED <<accountVars, current, killTimer, lines, helperVars, minerVars, routeVars>>
    BY DEF SignsIn
  <1>2. AccountsAgree'
    BY <1>1 DEF AccountsAgree, accountVars, helperVars, minerVars, routeVars
  <1>3. CASE UNCHANGED <<child, process>>
    <2>1. TypeOK' /\ OneAttempt'
      BY <1>1, <1>3 DEF TypeOK, OneAttempt, Running, accountVars, helperVars, minerVars,
         routeVars
    <2>2. NameInv'
      BY <1>1, <1>3 DEF NameInv
    <2> QED
      BY <1>2, <2>1, <2>2
  <1>4. CASE child = 0 /\ Spawned
    <2>1. PICK a \in Attempts, at \in {"starting", "unspawned"} :
            /\ process[a].at = "unborn" /\ child' = a
            /\ process' = [process EXCEPT ![a] =
                             [at |-> at, name |-> username, signal |-> "none"]]
      BY <1>4 DEF Spawned
    <2>2. /\ process' \in [Attempts -> ProcessType]
          /\ \A b \in Attempts : b # a => process'[b] = process[b]
          /\ process'[a].at # "polling"
          /\ process'[a].name = username
      BY <2>1 DEF TypeOK, ProcessType, Ats, Signals, Alive
    <2>3. TypeOK'
      BY <1>1, <2>1, <2>2 DEF TypeOK, accountVars, helperVars, minerVars, routeVars,
         ProcessType, Ats
    <2>4. lines[a] = <<>>
      BY <2>1 DEF NameInv
    <2>5. NameInv'
      BY <1>1, <2>2, <2>4 DEF NameInv
    <2>6. OneAttempt'
      BY <1>4, <2>1, <2>2 DEF OneAttempt, Running
    <2> QED
      BY <1>2, <2>3, <2>5, <2>6
  <1> QED
    BY <1>3, <1>4 DEF SignsIn, Started

\* A signal to the child, with whatever else the step does to the accounts.
LEMMA KillStep ==
    ASSUME IInv, NEW signal \in Signals, Signalled(child, signal) \/ UNCHANGED process,
           killTimer' \in BOOLEAN, UNCHANGED <<child, current, lines>>,
           UNCHANGED username,
           loggedIn' \in BOOLEAN, UNCHANGED helperVars,
           ops' \in Seq(OpType), miner' \in Accounts \cup {NoMiner},
           UNCHANGED applying, leaving' \in {"no", "stopping", "removing", "recycling"},
           AccountsAgree'
    PROVE  IInv'
  <1> USE DEF IInv
  <1>1. /\ process' \in [Attempts -> ProcessType]
        /\ \A b \in Attempts : /\ process'[b].at = process[b].at
                               /\ process'[b].name = process[b].name
    <2>1. CASE Signalled(child, signal)
      BY <2>1, SignalledStep DEF TypeOK
    <2>2. CASE UNCHANGED process
      BY <2>2 DEF TypeOK, ProcessType, Ats
    <2> QED
      BY <2>1, <2>2
  <1>2. TypeOK'
    BY <1>1 DEF TypeOK, helperVars, ProcessType, Ats, OpType
  <1>3. NameInv'
    BY <1>1, NameInvKept
  <1>4. OneAttempt'
    BY <1>1 DEF OneAttempt, Running
  <1> QED
    BY <1>2, <1>3, <1>4

LEMMA EscalatesStep ==
    ASSUME IInv, Escalates
    PROVE  IInv'
  <1>1. /\ ops \in Seq(OpType) /\ loggedIn \in BOOLEAN /\ username \in Accounts
        /\ miner \in Accounts \cup {NoMiner}
        /\ leaving \in {"no", "stopping", "removing", "recycling"}
    BY DEF IInv, TypeOK, OpType
  <1>2. AccountsAgree'
    BY DEF IInv, AccountsAgree, Escalates, accountVars, helperVars, minerVars, routeVars
  <1>3. /\ Signalled(child, "KILL") /\ killTimer' \in BOOLEAN /\ "KILL" \in Signals
        /\ UNCHANGED <<username, loggedIn, child, current, lines, helperVars, ops, miner,
                       applying, leaving>>
    BY DEF Escalates, Signals, accountVars, minerVars, routeVars
  <1> QED
    BY <1>1, <1>2, <1>3, KillStep

\* The sign-out goes on: the stop that it asked for has ended.
LEMMA DropsCookiesStep ==
    ASSUME IInv, DropsCookies
    PROVE  IInv'
  <1>1. ops # <<>> /\ Served /\ Cancelled /\ leaving' = "removing"
        /\ UNCHANGED <<username, loggedIn, child, current, lines, helperVars, applying>>
    BY DEF DropsCookies
  <1>2. /\ ops' \in Seq(OpType) /\ miner' \in Accounts \cup {NoMiner}
        /\ AccountsAgree'
    BY <1>1, ServedStep DEF IInv, helperVars
  <1>3. /\ Signalled(child, "TERM") \/ UNCHANGED process
        /\ killTimer' \in BOOLEAN /\ loggedIn' \in BOOLEAN /\ "TERM" \in Signals
    BY <1>1 DEF Cancelled, IInv, TypeOK, Signals
  <1> QED
    BY <1>1, <1>2, <1>3, KillStep

-----------------------------------------------------------------------------
\* A step that touches neither the runner nor its helpers.
LEMMA AccountStep ==
    ASSUME IInv, UNCHANGED <<runnerVars, pythonVars>>,
           username' \in Accounts, loggedIn' \in BOOLEAN,
           helper' \in Accounts \cup {NoHelper}, dying' \in BOOLEAN,
           ops' \in Seq(OpType), miner' \in Accounts \cup {NoMiner},
           applying' \in {"no", "recycling", "recycled"},
           leaving' \in {"no", "stopping", "removing", "recycling"},
           AccountsAgree'
    PROVE  IInv'
  <1> USE DEF IInv, runnerVars, pythonVars
  <1>1. TypeOK'
    BY DEF TypeOK, OpType
  <1>2. NameInv'
    BY DEF NameInv
  <1>3. OneAttempt'
    BY DEF OneAttempt, Running
  <1> QED
    BY <1>1, <1>2, <1>3

LEMMA ServicesStep ==
    ASSUME IInv, Services
    PROVE  IInv'
  <1> USE DEF IInv
  <1>0. /\ username \in Accounts /\ loggedIn \in BOOLEAN
        /\ helper \in Accounts \cup {NoHelper} /\ dying \in BOOLEAN
        /\ ops \in Seq(OpType) /\ miner \in Accounts \cup {NoMiner}
        /\ applying \in {"no", "recycling", "recycled"}
        /\ leaving \in {"no", "stopping", "removing", "recycling"}
    BY DEF TypeOK, OpType
  <1>1. CASE HelperEnds
    <2>1. AccountsAgree'
      BY <1>1 DEF HelperEnds, AccountsAgree, accountVars, minerVars
    <2>2. /\ applying' \in {"no", "recycling", "recycled"}
          /\ leaving' \in {"no", "stopping", "removing", "recycling"}
      BY <1>0, <1>1 DEF HelperEnds
    <2> QED
      BY <1>0, <1>1, <2>1, <2>2, AccountStep DEF HelperEnds, accountVars, minerVars
  <1>2. CASE HelperStarts
    <2>1. AccountsAgree'
      BY <1>2 DEF HelperStarts, AccountsAgree, accountVars, minerVars, routeVars
    <2> QED
      BY <1>0, <1>2, <2>1, AccountStep DEF HelperStarts, accountVars, minerVars, routeVars
  <1>3. CASE OpEnds
    <2>1. /\ ops' \in Seq(OpType) /\ miner' \in Accounts \cup {NoMiner}
          /\ AccountsAgree'
      BY <1>3, ServedStep DEF OpEnds, accountVars, helperVars, routeVars
    <2> QED
      BY <1>0, <1>3, <2>1, AccountStep DEF OpEnds, accountVars, helperVars, routeVars
  <1>4. CASE MinerExits
    <2>1. AccountsAgree'
      BY <1>4 DEF MinerExits, AccountsAgree, accountVars, helperVars, routeVars
    <2> QED
      BY <1>0, <1>4, <2>1, AccountStep DEF MinerExits, accountVars, helperVars, routeVars
  <1>5. CASE PendingFires
    <2>1. /\ ops' \in Seq(OpType)
          /\ \A i \in 1..Len(ops) : i \in 1..Len(ops') /\ ops'[i] = ops[i]
      BY <1>5, QueuedStep DEF PendingFires
    <2>2. AccountsAgree'
      BY <1>5, <2>1, AgreeIfKept DEF PendingFires, accountVars, helperVars, routeVars
    <2> QED
      BY <1>0, <1>5, <2>1, <2>2, AccountStep
         DEF PendingFires, accountVars, helperVars, routeVars
  <1> QED
    BY <1>1, <1>2, <1>3, <1>4, <1>5 DEF Services

\* Applying another account: the helper of the old one is told to end, and the
\* route will stop or restart its miner.
LEMMA AppliesStep ==
    ASSUME IInv, NEW name \in Accounts, Applies(name)
    PROVE  IInv'
  <1>1. /\ username' = name /\ dying' = (helper # NoHelper)
        /\ applying' \in {"recycling", "recycled"}
        /\ UNCHANGED <<helper, loggedIn, runnerVars, pythonVars, minerVars, leaving>>
    BY DEF Applies, Recycled
  <1>2. AccountsAgree'
    BY <1>1 DEF AccountsAgree
  <1> QED
    BY <1>1, <1>2, AccountStep DEF IInv, TypeOK, OpType, minerVars

LEMMA AskingStep ==
    ASSUME IInv,
           \/ ApplyGoesOn
           \/ \E kind \in {"start", "stop", "restart"} : AsksMiner(kind)
           \/ SignsOut
    PROVE  IInv'
  <1> USE DEF IInv
  <1>1. PICK kind \in {"start", "stop", "restart"}, caller \in {"user", "sign-out"} :
          /\ Queued(kind, caller)
          /\ applying' = applying \/ (applying' = "no" /\ kind # "start")
    BY DEF ApplyGoesOn, AsksMiner, SignsOut, routeVars
  <1>2. /\ UNCHANGED <<accountVars, runnerVars, pythonVars, helperVars, miner>>
        /\ applying' \in {"no", applying} /\ leaving' \in {leaving, "stopping"}
    BY DEF ApplyGoesOn, AsksMiner, SignsOut, routeVars
  <1>3. /\ ops' \in Seq(OpType)
        /\ \A i \in 1..Len(ops) : i \in 1..Len(ops') /\ ops'[i] = ops[i]
        /\ \E i \in 1..Len(ops') : ops'[i].kind = kind
    BY <1>1, QueuedStep
  <1>4. AccountsAgree'
    BY <1>1, <1>2, <1>3 DEF AccountsAgree, accountVars, helperVars
  <1> QED
    BY <1>2, <1>3, <1>4, AccountStep DEF TypeOK, accountVars, helperVars

LEMMA LeavingStep ==
    ASSUME IInv, DropsHelper \/ Rejected
    PROVE  IInv'
  <1> USE DEF IInv
  <1>1. /\ UNCHANGED <<username, runnerVars, pythonVars, minerVars, applying, helper>>
        /\ loggedIn' = FALSE
        /\ dying' \in {dying, helper # NoHelper}
        /\ leaving' \in {leaving, "recycling", "no"}
        /\ dying' = dying \/ dying' = (helper # NoHelper)
    BY DEF DropsHelper, Rejected, Recycled, accountVars, helperVars, routeVars
  <1>2. AccountsAgree'
    BY <1>1 DEF AccountsAgree, minerVars, TypeOK
  <1> QED
    BY <1>1, <1>2, AccountStep DEF TypeOK, minerVars, OpType

-----------------------------------------------------------------------------
\* The invariant is inductive.
LEMMA NextIInv == IInv /\ [Next]_vars => IInv'
  <1> SUFFICES ASSUME IInv, [Next]_vars PROVE IInv'
    OBVIOUS
  <1>1. ASSUME NEW a \in Attempts, LoginHelper(a) PROVE IInv'
    BY <1>1, PythonStep
  <1>2. ASSUME NEW a \in Attempts, LoginEvents(a) PROVE IInv'
    BY <1>2, ExitStep, LineStep, OkStep DEF LoginEvents
  <1>3. CASE Escalates
    BY <1>3, EscalatesStep
  <1>4. CASE Services
    BY <1>4, ServicesStep
  <1>5. CASE Routes
    BY <1>5, SignsInStep, AppliesStep, AskingStep, DropsCookiesStep, LeavingStep DEF Routes
  <1>6. CASE UNCHANGED vars
    <2>1. UNCHANGED <<username, loggedIn, child, current, killTimer, process, lines, helper,
                      dying, ops, miner, applying, leaving>>
      BY <1>6 DEF vars, accountVars, runnerVars, pythonVars, helperVars, minerVars, routeVars
    <2>2. TypeOK'
      BY <2>1 DEF IInv, TypeOK
    <2>3. NameInv' /\ OneAttempt'
      BY <2>1 DEF IInv, NameInv, OneAttempt, Running
    <2>4. AccountsAgree'
      BY <2>1 DEF IInv, AccountsAgree
    <2> QED
      BY <2>2, <2>3, <2>4 DEF IInv
  <1> QED
    BY <1>1, <1>2, <1>3, <1>4, <1>5, <1>6 DEF Next

LEMMA Invariance == Spec => []IInv
  BY InitIInv, NextIInv, PTL DEF Spec

\* Type correctness of the runner, its helpers, the queue and the routes.
THEOREM TypeCorrect == Spec => []TypeOK
  BY Invariance, PTL DEF IInv

\* At most one login helper runs, and cancel() reaches it (loginRunner.ts:182).
THEOREM OneAttemptAtATime == Spec => []OneAttempt
  BY Invariance, PTL DEF IInv

\* No step order leaves the state helper or the miner with an account that is
\* not the configured one and nothing under way to replace it
\* (server.ts:522-590, 1485-1523).
THEOREM AccountsFollow == Spec => []AccountsAgree
  BY Invariance, PTL DEF IInv

\* One sign-in at a time, and everything ends up with its account.
THEOREM SignInHolds == Spec => []SignInAgrees
  BY OneAttemptAtATime, AccountsFollow, PTL DEF SignInAgrees

-----------------------------------------------------------------------------

HIDE BoundsAssumption
HIDE NamesAssumption DEF Attempts, Accounts

\* A set of naturals that is not empty has a least member.
LEMMA LeastMember ==
    ASSUME NEW T \in SUBSET Nat, T # {}
    PROVE  \E m \in T : \A k \in T : m <= k
<1> DEFINE R == {ss \in Nat \X Nat : ss[1] < ss[2]}
<1>1. IsWellFoundedOn(R, Nat)
  BY NatLessThanWellFounded DEF OpToRel
<1>2. PICK m \in T : \A y \in T : ~ (<<y, m>> \in R)
  BY <1>1, WFMin, Zenon
<1>3. \A k \in T : m <= k
  <2> TAKE k \in T
  <2>1. <<k, m>> \notin R
    BY <1>2
  <2> QED
    BY <2>1
<1> QED
  BY <1>3

\* Induction, as a fact about sets.
LEMMA Induction ==
    ASSUME NEW T \in SUBSET Nat, 0 \in T, \A n \in T : n + 1 \in T
    PROVE  T = Nat
<1> SUFFICES ASSUME Nat \ T # {} PROVE FALSE
  OBVIOUS
<1>1. PICK m \in Nat \ T : \A k \in Nat \ T : m <= k
  BY LeastMember
<1>2. m # 0 /\ m - 1 \in Nat
  BY <1>1
<1>3. m - 1 \in T
  BY <1>1, <1>2
<1>4. (m - 1) + 1 \in T
  BY <1>3
<1> QED
  BY <1>4, <1>1

-----------------------------------------------------------------------------
GiftTypeOK ==
    /\ account \in SUBSET Gifts /\ cached \in SUBSET Gifts /\ rings \in SUBSET account
    /\ owed \in SUBSET account /\ giftList \in SUBSET Gifts
    /\ giftCards \in [Cards -> SUBSET Gifts]
    /\ giftMinute \in Int /\ failed \in BOOLEAN /\ giftUndrawn \in BOOLEAN

\* What a fetch has read has every gift that a fetch was started for.
FetchesOwe ==
    \A f \in fetch :
        /\ f.stage \in {"sent", "read"} /\ f.list \in SUBSET Gifts
        /\ f.stage = "read" => Active(owed) \subseteq f.list

GiftInv == GiftTypeOK /\ FetchesOwe /\ GiftsAreShown

\* A card has a gift that its channel has on the list, and it has one when there is one.
LEMMA OfChannelIs ==
    ASSUME NEW list \in SUBSET Gifts, NEW c, GiftTypeOK
    PROVE  /\ OfChannel(list, c) \in SUBSET Active(list)
           /\ OfChannel(list, c) \in SUBSET Gifts
           /\ \A g \in Active(list) : g.target = c => OfChannel(list, c) # {}
<1> DEFINE own == {g \in Active(list) : g.target = c}
<1>1. CASE own = {}
  BY <1>1 DEF OfChannel, Active
<1>2. CASE own # {}
  <2> DEFINE ids == {g.id : g \in own}
  <2>1. ids \in SUBSET Nat /\ ids # {}
    BY <1>2, GiftSubsAssumption DEF Active
  <2>2. PICK m \in ids : \A k \in ids : m <= k
    BY <2>1, LeastMember
  <2>3. PICK g \in own : \A h \in own : g.id <= h.id
    BY <2>2
  <2>4. (CHOOSE x \in own : \A h \in own : x.id <= h.id) \in own
    BY <2>3
  <2> QED
    BY <1>2, <2>4 DEF OfChannel, Active
<1> QED
  BY <1>1, <1>2

\* A frame drawn of a list matches it.
LEMMA FrameMatches ==
    ASSUME NEW list \in SUBSET Gifts, GiftTypeOK, DrawsFrame(list), giftMinute' = giftMinute
    PROVE  /\ giftList' \in SUBSET Gifts /\ giftCards' \in [Cards -> SUBSET Gifts]
           /\ CardsMatchTheList' /\ Active(giftList)' = Active(list)
<1>1. /\ giftList' = Active(list) /\ giftCards' = [c \in Cards |-> OfChannel(list, c)]
  BY DEF DrawsFrame
<1>2. \A c \in Cards : /\ OfChannel(list, c) \in SUBSET Active(list)
                       /\ OfChannel(list, c) \in SUBSET Gifts
                       /\ \A g \in Active(list) : g.target = c => OfChannel(list, c) # {}
  BY OfChannelIs
<1>3. giftList' \in SUBSET Gifts /\ giftCards' \in [Cards -> SUBSET Gifts]
  BY <1>1, <1>2 DEF Active
<1>4. Active(giftList)' = Active(list)
  BY <1>1 DEF Active
<1>5. CardsMatchTheList'
  BY <1>1, <1>2, <1>4 DEF CardsMatchTheList
<1> QED
  BY <1>3, <1>4, <1>5

LEMMA GiftBegins == GiftInit => GiftInv
<1> SUFFICES ASSUME GiftInit PROVE GiftInv
  OBVIOUS
<1>1. GiftTypeOK
  <2>1. failed \in BOOLEAN /\ giftUndrawn \in BOOLEAN
    BY Zenon DEF GiftInit
  <2>2. giftCards \in [Cards -> SUBSET Gifts]
    BY DEF GiftInit
  <2>3. /\ account \in SUBSET Gifts /\ cached \in SUBSET Gifts /\ rings \in SUBSET account
        /\ owed \in SUBSET account /\ giftList \in SUBSET Gifts /\ giftMinute \in Int
    BY DEF GiftInit
  <2> QED
    BY <2>1, <2>2, <2>3 DEF GiftTypeOK
<1>2. FetchesOwe /\ CardsMatchTheList /\ ListIsTheCaches /\ GiftsAreKnown
  BY DEF GiftInit, FetchesOwe, CardsMatchTheList, ListIsTheCaches, GiftsAreKnown, Active
<1> QED
  BY <1>1, <1>2 DEF GiftInv, GiftsAreShown

LEMMA GiftStep == GiftInv /\ [GiftNext]_giftVars => GiftInv'
<1> SUFFICES ASSUME GiftInv, [GiftNext]_giftVars PROVE GiftInv'
  OBVIOUS
<1> USE DEF GiftInv, GiftsAreShown
<1>1. CASE Reads
  <2>1. /\ fetch' = {[stage |-> "read", list |-> Active(account)]}
        /\ UNCHANGED <<account, giftCache, rings, giftDrawn, giftMinute, owed, giftLeft>>
    BY <1>1 DEF Reads
  <2>2. Active(account) \in SUBSET Gifts /\ Active(owed) \subseteq Active(account)
    BY DEF Active, GiftTypeOK
  <2>3. FetchesOwe'
    BY <2>1, <2>2 DEF FetchesOwe, Active
  <2>4. GiftTypeOK' /\ CardsMatchTheList' /\ ListIsTheCaches' /\ GiftsAreKnown'
    BY <2>1 DEF GiftTypeOK, CardsMatchTheList, ListIsTheCaches, GiftsAreKnown, Active,
       giftCache, giftDrawn
  <2> QED
    BY <2>3, <2>4
<1>2. CASE FetchAnswers
  <2>1. PICK f \in fetch :
          /\ f.stage = "read" /\ cached' = f.list /\ failed' = FALSE /\ fetch' = {}
          /\ IF f.list # cached /\ ~giftUndrawn THEN DrawsFrame(f.list)
             ELSE UNCHANGED <<giftList, giftCards>>
          /\ UNCHANGED <<account, rings, giftUndrawn, giftMinute, owed, giftLeft>>
    BY <1>2 DEF FetchAnswers
  <2>2. f.list \in SUBSET Gifts /\ Active(owed) \subseteq f.list
    BY <2>1 DEF FetchesOwe
  <2>3. GiftsAreKnown' /\ FetchesOwe'
    BY <2>1, <2>2 DEF GiftsAreKnown, FetchesOwe, Active
  <2>4. CASE f.list # cached /\ ~giftUndrawn
    <3>1. /\ giftList' \in SUBSET Gifts /\ giftCards' \in [Cards -> SUBSET Gifts]
          /\ CardsMatchTheList' /\ Active(giftList)' = Active(f.list)
      BY <2>1, <2>2, <2>4, FrameMatches
    <3>2. ListIsTheCaches'
      BY <2>1, <3>1 DEF ListIsTheCaches, Active
    <3>3. GiftTypeOK'
      BY <2>1, <2>2, <3>1 DEF GiftTypeOK
    <3> QED
      BY <2>3, <3>1, <3>2, <3>3
  <2>5. CASE ~(f.list # cached /\ ~giftUndrawn)
    BY <2>1, <2>2, <2>3, <2>5 DEF GiftTypeOK, CardsMatchTheList, ListIsTheCaches, Active
  <2> QED
    BY <2>4, <2>5
<1>3. CASE Fails
  BY <1>3 DEF Fails, GiftSpends, GiftTypeOK, FetchesOwe, CardsMatchTheList, ListIsTheCaches,
     GiftsAreKnown, Active, giftDrawn
<1>4. CASE RingHeard
  <2>1. PICK g \in rings : /\ rings' = rings \ {g}
                           /\ owed' = IF fetch = {} THEN owed \cup {g} ELSE owed
                           /\ Refreshes
                           /\ UNCHANGED <<account, giftCache, giftDrawn, giftMinute, giftLeft>>
    BY <1>4 DEF RingHeard
  <2>2. GiftTypeOK' /\ CardsMatchTheList' /\ ListIsTheCaches'
    BY <2>1 DEF GiftTypeOK, CardsMatchTheList, ListIsTheCaches, Active, giftCache, giftDrawn
  <2>3. fetch' # {} /\ GiftsAreKnown'
    BY <2>1 DEF Refreshes, GiftsAreKnown
  <2>4. FetchesOwe'
    BY <2>1 DEF Refreshes, FetchesOwe, Active
  <2> QED
    BY <2>2, <2>3, <2>4
<1>5. CASE Asked
  <2>1. fetch' # {} /\ GiftsAreKnown'
    BY <1>5 DEF Asked, Refreshes, GiftsAreKnown
  <2> QED
    BY <1>5, <2>1 DEF Asked, Refreshes, GiftTypeOK, FetchesOwe, CardsMatchTheList,
       ListIsTheCaches, Active, giftCache, giftDrawn
<1>6. CASE Derives
  <2>1. /\ giftList' \in SUBSET Gifts /\ giftCards' \in [Cards -> SUBSET Gifts]
        /\ CardsMatchTheList' /\ Active(giftList)' = Active(cached)
    BY <1>6, FrameMatches DEF Derives, GiftTypeOK
  <2> QED
    BY <1>6, <2>1 DEF Derives, GiftTypeOK, FetchesOwe, ListIsTheCaches, GiftsAreKnown, Active,
       giftCache
<1>7. CASE GoesIdle
  BY <1>7 DEF GoesIdle, GiftTypeOK, FetchesOwe, CardsMatchTheList, ListIsTheCaches,
     GiftsAreKnown, Active, giftCache
<1>8. CASE Rederives
  <2>1. PICK c \in Cards : giftCards' = [giftCards EXCEPT ![c] = OfChannel(cached, c)]
    BY <1>8 DEF Rederives
  <2>2. /\ OfChannel(cached, c) \in SUBSET Active(cached) /\ OfChannel(cached, c) \in SUBSET Gifts
        /\ \A g \in Active(cached) : g.target = c => OfChannel(cached, c) # {}
    BY OfChannelIs DEF GiftTypeOK
  <2>3. /\ ~giftUndrawn /\ Active(giftList) = Active(cached)
        /\ UNCHANGED <<account, fetch, giftCache, rings, giftList, giftUndrawn, giftMinute,
                       owed, giftLeft>>
    BY <1>8 DEF Rederives, ListIsTheCaches
  <2>4. CardsMatchTheList'
    BY <2>1, <2>2, <2>3 DEF CardsMatchTheList, Active, GiftTypeOK
  <2>5. GiftTypeOK'
    BY <2>1, <2>2, <2>3 DEF GiftTypeOK, giftCache
  <2> QED
    BY <2>3, <2>4, <2>5 DEF FetchesOwe, ListIsTheCaches, GiftsAreKnown, Active, giftCache
<1>9. CASE GiftComes
  BY <1>9 DEF GiftComes, GiftSpends, GiftTypeOK, FetchesOwe, CardsMatchTheList,
     ListIsTheCaches, GiftsAreKnown, Active, giftCache, giftDrawn
<1>10. CASE MinutePasses
  <2>1. /\ giftMinute' = giftMinute + 1
        /\ UNCHANGED <<account, fetch, giftCache, rings, giftDrawn, owed>>
    BY <1>10 DEF MinutePasses
  <2>3. /\ Active(giftList)' \in SUBSET Active(giftList)
        /\ Active(owed)' \in SUBSET Active(owed)
        /\ Active(giftList)' = {g \in Active(giftList) : g.endsAt > giftMinute + 1}
        /\ Active(cached)' = {g \in Active(cached) : g.endsAt > giftMinute + 1}
    BY <2>1, GiftSubsAssumption DEF Active, GiftTypeOK, giftCache, giftDrawn
  <2>4. GiftTypeOK' /\ CardsMatchTheList'
    BY <2>1, <2>3 DEF GiftTypeOK, CardsMatchTheList, giftCache, giftDrawn
  <2>5. FetchesOwe' /\ GiftsAreKnown'
    BY <2>1, <2>3 DEF FetchesOwe, GiftsAreKnown, giftCache
  <2>6. ListIsTheCaches'
    BY <2>1, <2>3 DEF ListIsTheCaches, giftDrawn
  <2> QED
    BY <2>4, <2>5, <2>6
<1>11. CASE UNCHANGED giftVars
  BY <1>11 DEF giftVars, GiftTypeOK, FetchesOwe, CardsMatchTheList, ListIsTheCaches,
     GiftsAreKnown, Active, giftCache, giftDrawn
<1> QED
  BY <1>1, <1>2, <1>3, <1>4, <1>5, <1>6, <1>7, <1>8, <1>9, <1>10, <1>11 DEF GiftNext

\* The cards and the list are of one frame and of the cache, and no gift that a fetch
\* was started for is forgotten, for any roster, gifts, failures and clock.
THEOREM GiftsStayShown == GiftSpec => []GiftsAreShown
<1>1. GiftInv => GiftsAreShown
  BY DEF GiftInv
<1> QED
  BY <1>1, GiftBegins, GiftStep, PTL DEF GiftSpec

-----------------------------------------------------------------------------
\* The lines there are, and pages of them.
LogLines == [run : Nat, n : Nat]
AnyPage  == [items : Seq(LogLines), total : Nat]

FeedTypeOK ==
    /\ run \in Nat /\ kept \in Nat /\ due \in Nat
    /\ frames \in Seq(AnyPage) /\ early \in Seq(AnyPage)
    /\ base \in AnyPage /\ page \in AnyPage /\ load.page \in AnyPage
    /\ load = [is |-> load.is, page |-> load.page]
    /\ Len(frames) + Len(early) <= MaxWaiting

\* The lines of run r up to the total, the oldest of which may be missing; a page
\* has as many as there are or it takes.
IsChunk(p, r) ==
    /\ Len(p.items) <= p.total
    /\ \A i \in 1..Len(p.items) : p.items[i] = [run |-> r, n |-> p.total - Len(p.items) + i]
IsPage(p, r) == IsChunk(p, r) /\ Len(p.items) = Least(p.total, Capacity)

FramesAreChunks == \A i \in 1..Len(frames) : IsChunk(frames[i], run) /\ frames[i].total <= kept
EarlyAreChunks  == ~carried => \A i \in 1..Len(early) : IsChunk(early[i], run)

\* A frame announces lines past those of the frames before it, and past any that a
\* frame told this mount of.
StartsAt(f, n) == f.total - Len(f.items) >= n
FramesAreNew ==
    /\ \A i, j \in 1..Len(frames) : i < j => StartsAt(frames[j], frames[i].total)
    /\ ~carried => \A i \in 1..Len(frames) : StartsAt(frames[i], due)

\* Of a mount that has not outlived a run of the backend: the page, what frames are put
\* on, and a load's answer are pages of the run, and whatever a frame told the page of
\* is in the answer or in a frame that waits for it.
PagesAreWhole ==
    ~carried =>
        /\ IsPage(page, run) /\ IsPage(base, run) /\ due <= kept
        /\ load.is = "answered" =>
              /\ IsPage(load.page, run)
              /\ due <= load.page.total \/ \E i \in 1..Len(early) : due <= early[i].total
        /\ ~Loading => due <= page.total \/ letGo

BaseIsShown == ~Loading => base = page

FeedInv == /\ FeedTypeOK /\ FramesAreChunks /\ FramesAreNew /\ EarlyAreChunks
           /\ PagesAreWhole /\ BaseIsShown

\* The newest n elements of a sequence.
LEMMA NewestIs ==
    ASSUME NEW S, NEW s \in Seq(S), NEW n \in Nat
    PROVE  /\ Newest(s, n) \in Seq(S) /\ Len(Newest(s, n)) = Least(n, Len(s))
           /\ \A i \in 1..Least(n, Len(s)) : Newest(s, n)[i] = s[Len(s) - Least(n, Len(s)) + i]
<1>1. Len(s) \in Nat /\ \A i \in 1..Len(s) : s[i] \in S
  OBVIOUS
<1>2. PICK k \in Nat : k = Least(n, Len(s)) /\ k <= Len(s)
  BY <1>1 DEF Least
<1>3. PICK m \in Nat : m = Len(s) - k + 1 /\ m >= 1
  BY <1>1, <1>2
<1>4. \A i \in m..Len(s) : s[i] \in S
  BY <1>1, <1>3
<1>5. /\ SubSeq(s, m, Len(s)) \in Seq(S)
      /\ Len(SubSeq(s, m, Len(s))) = IF m <= Len(s) THEN Len(s) - m + 1 ELSE 0
      /\ \A i \in 1..(Len(s) - m + 1) : SubSeq(s, m, Len(s))[i] = s[m + i - 1]
  BY <1>1, <1>3, <1>4, SubSeqProperties
<1>6. Newest(s, n) = SubSeq(s, m, Len(s))
  BY <1>2, <1>3 DEF Newest
<1>7. Len(SubSeq(s, m, Len(s))) = k /\ Len(s) - m + 1 = k
  BY <1>1, <1>2, <1>3, <1>5
<1>8. \A i \in 1..k : SubSeq(s, m, Len(s))[i] = s[Len(s) - k + i]
  BY <1>1, <1>3, <1>5, <1>7
<1> HIDE DEF Least
<1> QED
  BY <1>2, <1>5, <1>6, <1>7, <1>8

\* Lines of a run are a chunk.
LEMMA LinesAre ==
    ASSUME NEW m \in Nat, NEW n \in Nat, m >= 1, m <= n + 1, run \in Nat
    PROVE  /\ Page(Lines(m, n), n) \in AnyPage /\ IsChunk(Page(Lines(m, n), n), run)
           /\ Len(Lines(m, n)) = n + 1 - m
<1>1. PICK k \in Nat : k = n + 1 - m /\ k <= n
  OBVIOUS
<1>2. Lines(m, n) = [i \in 1..k |-> [run |-> run, n |-> m + i - 1]]
  BY <1>1 DEF Lines
<1>3. \A i \in 1..k : [run |-> run, n |-> m + i - 1] \in LogLines
  BY <1>1 DEF LogLines
<1>4. Lines(m, n) \in Seq(LogLines) /\ Len(Lines(m, n)) = k
  <2>1. PICK s : s = Lines(m, n)
    OBVIOUS
  <2>2. s \in [1..k -> LogLines]
    BY <1>2, <1>3, <2>1
  <2>3. s \in Seq(LogLines)
    BY <2>2, SeqDef
  <2>4. Len(s) = k
    BY <2>2, <2>3, LenProperties
  <2> QED
    BY <2>1, <2>3, <2>4
<1>5. \A i \in 1..k : Lines(m, n)[i] = [run |-> run, n |-> n - k + i]
  <2> TAKE i \in 1..k
  <2>1. m + i - 1 = n - k + i
    BY <1>1
  <2>2. Lines(m, n)[i] = [run |-> run, n |-> m + i - 1]
    BY <1>2
  <2> QED
    BY <2>1, <2>2
<1>6. PICK p : p = Page(Lines(m, n), n)
  OBVIOUS
<1>7. p.items = Lines(m, n) /\ p.total = n /\ p \in AnyPage
  BY <1>4, <1>6 DEF Page, AnyPage
<1> QED
  BY <1>1, <1>4, <1>5, <1>6, <1>7 DEF IsChunk

\* A frame of a run put on a page of it, where nothing was missed.
LEMMA AppendedIs ==
    ASSUME NEW c \in AnyPage, NEW f \in AnyPage, ~Missed(c, f), FeedAssumption
    PROVE  /\ Appended(c, f) \in AnyPage
           /\ Appended(c, f).total = IF f.total > c.total THEN f.total ELSE c.total
           /\ \A r : IsPage(c, r) /\ IsChunk(f, r) => IsPage(Appended(c, f), r)
<1>0. /\ c.items \in Seq(LogLines) /\ f.items \in Seq(LogLines)
      /\ c.total \in Nat /\ f.total \in Nat /\ Len(c.items) \in Nat /\ Len(f.items) \in Nat
      /\ Capacity \in Nat
  BY FeedAssumption DEF AnyPage
<1>1. CASE Fresh(c, f) = 0
  BY <1>0, <1>1 DEF Appended, Fresh
<1>2. CASE Fresh(c, f) # 0
  <2>1. PICK d \in Nat : d = f.total - c.total /\ d > 0 /\ Fresh(c, f) = d /\ d <= Len(f.items)
    BY <1>0, <1>2 DEF Fresh, Missed
  <2>2. PICK t : t = Newest(f.items, d)
    OBVIOUS
  <2>3. /\ t \in Seq(LogLines) /\ Len(t) = d
        /\ \A i \in 1..d : t[i] = f.items[Len(f.items) - d + i]
    <3>1. Least(d, Len(f.items)) = d
      BY <1>0, <2>1 DEF Least
    <3>2. PICK s \in Seq(LogLines) : s = f.items
      BY <1>0
    <3>3. /\ Newest(s, d) \in Seq(LogLines) /\ Len(Newest(s, d)) = Least(d, Len(s))
          /\ \A i \in 1..Least(d, Len(s)) :
                Newest(s, d)[i] = s[Len(s) - Least(d, Len(s)) + i]
      BY <2>1, NewestIs
    <3> QED
      BY <2>2, <3>1, <3>2, <3>3
  <2>4. PICK u : u = c.items \o t
    OBVIOUS
  <2>5. /\ u \in Seq(LogLines) /\ Len(u) = Len(c.items) + d
        /\ \A i \in 1..(Len(c.items) + d) :
              u[i] = IF i <= Len(c.items) THEN c.items[i] ELSE t[i - Len(c.items)]
    <3>1. PICK s \in Seq(LogLines) : s = c.items
      BY <1>0
    <3>2. t \in Seq(LogLines) /\ Len(t) = d
      BY <2>3
    <3>3. /\ s \o t \in Seq(LogLines) /\ Len(s \o t) = Len(s) + Len(t)
          /\ \A i \in 1..(Len(s) + Len(t)) :
                (s \o t)[i] = IF i <= Len(s) THEN s[i] ELSE t[i - Len(s)]
      BY <3>2, ConcatProperties
    <3> QED
      BY <2>4, <3>1, <3>2, <3>3
  <2>6. PICK w : w = Newest(u, Capacity)
    OBVIOUS
  <2>7. PICK k \in Nat : k = Least(Capacity, Len(u)) /\ k <= Len(u)
    BY <1>0, <2>1, <2>5 DEF Least
  <2>8. /\ w \in Seq(LogLines) /\ Len(w) = k
        /\ \A i \in 1..k : w[i] = u[Len(u) - k + i]
    BY <1>0, <2>5, <2>6, <2>7, NewestIs
  <2>9. PICK q : q = Appended(c, f)
    OBVIOUS
  <2>10. q = Page(w, f.total)
    BY <1>2, <2>1, <2>2, <2>4, <2>6, <2>9 DEF Appended
  <2>11. q.items = w /\ q.total = f.total /\ q \in AnyPage
    BY <1>0, <2>8, <2>10 DEF Page, AnyPage
  <2>12. ASSUME NEW r, IsPage(c, r), IsChunk(f, r) PROVE IsPage(q, r)
    <3>1. /\ \A i \in 1..Len(c.items) :
                c.items[i] = [run |-> r, n |-> c.total - Len(c.items) + i]
          /\ \A i \in 1..Len(f.items) :
                f.items[i] = [run |-> r, n |-> f.total - Len(f.items) + i]
          /\ Len(c.items) = Least(c.total, Capacity) /\ Len(c.items) <= c.total
      BY <2>12 DEF IsPage, IsChunk
    <3>2. \A i \in 1..d : t[i] = [run |-> r, n |-> c.total + i]
      <4> TAKE i \in 1..d
      <4>1. Len(f.items) - d + i \in 1..Len(f.items)
        BY <1>0, <2>1
      <4>2. f.total - Len(f.items) + (Len(f.items) - d + i) = c.total + i
        BY <1>0, <2>1
      <4> QED
        BY <2>3, <3>1, <4>1, <4>2
    <3>3. \A i \in 1..Len(u) : u[i] = [run |-> r, n |-> c.total - Len(c.items) + i]
      <4> TAKE i \in 1..Len(u)
      <4>1. CASE i <= Len(c.items)
        <5>1. i \in 1..Len(c.items) /\ i \in 1..(Len(c.items) + d)
          BY <1>0, <2>1, <2>5, <4>1
        <5> QED
          BY <2>5, <3>1, <4>1, <5>1
      <4>2. CASE ~(i <= Len(c.items))
        <5>1. i - Len(c.items) \in 1..d /\ i \in 1..(Len(c.items) + d)
          BY <1>0, <2>1, <2>5, <4>2
        <5>2. c.total + (i - Len(c.items)) = c.total - Len(c.items) + i
          BY <1>0
        <5> QED
          BY <2>5, <3>2, <4>2, <5>1, <5>2
      <4> QED
        BY <4>1, <4>2
    <3>4. \A i \in 1..k : w[i] = [run |-> r, n |-> f.total - k + i]
      <4> TAKE i \in 1..k
      <4>1. Len(u) - k + i \in 1..Len(u)
        <5>1. Len(u) \in Nat
          BY <2>5
        <5>2. k \in Nat /\ k <= Len(u) /\ i \in 1..k
          BY <2>7
        <5> QED
          BY <5>1, <5>2
      <4>2. c.total - Len(c.items) + (Len(u) - k + i) = f.total - k + i
        <5>1. PICK a \in Nat, e \in Nat, x \in Nat :
                 a = Len(c.items) /\ e = c.total /\ x = f.total
          BY <1>0
        <5>2. Len(u) = a + d /\ x = e + d /\ d \in Nat
          BY <1>0, <2>1, <2>5, <5>1
        <5>3. e - a + (a + d - k + i) = e + d - k + i
          BY <5>2, <2>7
        <5> QED
          BY <5>1, <5>2, <5>3
      <4> QED
        BY <2>8, <3>3, <4>1, <4>2
    <3>5. k = Least(f.total, Capacity) /\ k <= f.total
      <4>1. PICK a \in Nat : a = Len(c.items)
        BY <1>0
      <4>2. PICK e \in Nat : e = c.total
        BY <1>0
      <4>3. PICK x \in Nat : x = f.total
        BY <1>0
      <4>4. Len(u) = a + d /\ x = e + d /\ d \in Nat
        BY <1>0, <2>1, <2>5, <4>1, <4>2, <4>3
      <4>5. a = IF e < Capacity THEN e ELSE Capacity
        BY <3>1, <4>1, <4>2 DEF Least
      <4>6. k = IF Capacity < a + d THEN Capacity ELSE a + d
        BY <2>7, <4>4 DEF Least
      <4>7. k = (IF x < Capacity THEN x ELSE Capacity) /\ k <= x
        BY <1>0, <4>4, <4>5, <4>6
      <4> QED
        BY <4>3, <4>7 DEF Least
    <3> QED
      BY <2>8, <2>11, <3>4, <3>5 DEF IsPage, IsChunk
  <2> QED
    BY <2>1, <2>9, <2>11, <2>12, <1>0
<1> QED
  BY <1>1, <1>2

\* The recursion of Merged is the one its definition writes.
LEMMA MergedIs ==
    ASSUME FeedAssumption
    PROVE  Merged = [i \in 0..MaxWaiting |->
                        IF i = 0 THEN load.page ELSE Upon(Merged[i - 1], early[i])]
<1> DEFINE Step(f, m) == f = [i \in 0..m |-> IF i = 0 THEN load.page
                                             ELSE Upon(f[i - 1], early[i])]
           T == {m \in Nat : \E f : Step(f, m)}
<1>1. 0 \in T
  <2>1. PICK f : f = [i \in 0..0 |-> load.page]
    OBVIOUS
  <2>2. Step(f, 0)
    BY <2>1
  <2> QED
    BY <2>2
<1>2. ASSUME NEW n \in T PROVE n + 1 \in T
  <2>1. PICK f : Step(f, n)
    OBVIOUS
  <2>2. PICK g : g = [i \in 0..(n + 1) |-> IF i = n + 1 THEN Upon(f[n], early[n + 1])
                                           ELSE f[i]]
    OBVIOUS
  <2>3. ASSUME NEW i \in 0..(n + 1)
        PROVE  g[i] = IF i = 0 THEN load.page ELSE Upon(g[i - 1], early[i])
    <3>1. CASE i = n + 1
      <4>1. i # 0 /\ i - 1 = n /\ n \in 0..(n + 1) /\ n # n + 1
        BY <3>1
      <4>2. g[n] = f[n] /\ g[i] = Upon(f[n], early[i])
        BY <2>2, <3>1, <4>1
      <4> QED
        BY <4>1, <4>2
    <3>2. CASE i # n + 1
      <4>1. i \in 0..n
        BY <3>2
      <4>2. g[i] = f[i] /\ f[i] = IF i = 0 THEN load.page ELSE Upon(f[i - 1], early[i])
        BY <2>1, <2>2, <3>2, <4>1
      <4>3. i # 0 => i - 1 \in 0..(n + 1) /\ i - 1 # n + 1
        BY <4>1
      <4>4. i # 0 => g[i - 1] = f[i - 1]
        BY <2>2, <4>3
      <4> QED
        BY <4>2, <4>4
    <3> QED
      BY <3>1, <3>2
  <2>4. Step(g, n + 1)
    <3>1. g = [i \in 0..(n + 1) |-> g[i]]
      BY <2>2
    <3> QED
      BY <2>3, <3>1
  <2> QED
    BY <2>4
<1>3. \A n \in T : n + 1 \in T
  BY <1>2
<1>4. T = Nat
  <2> HIDE DEF T
  <2>1. T \subseteq Nat
    BY DEF T
  <2> QED
    BY <1>1, <1>3, <2>1, Induction
<1>5. \E f : Step(f, MaxWaiting)
  BY <1>4 DEF FeedAssumption
<1>6. Merged = CHOOSE f : Step(f, MaxWaiting)
  BY DEF Merged
<1>7. Step(Merged, MaxWaiting)
  <2> HIDE DEF Step
  <2> QED
    BY <1>5, <1>6
<1> QED
  BY <1>7

\* A frame that came early put on a page: nothing is lost of the page.
LEMMA UponIs ==
    ASSUME NEW c \in AnyPage, NEW f \in AnyPage, FeedAssumption
    PROVE  /\ Upon(c, f) \in AnyPage /\ Upon(c, f).total >= c.total
           /\ ~Missed(c, f) => Upon(c, f).total >= f.total
           /\ \A r : IsPage(c, r) /\ IsChunk(f, r) => IsPage(Upon(c, f), r)
<1>0. c.total \in Nat /\ f.total \in Nat
  BY DEF AnyPage
<1>1. CASE Missed(c, f)
  BY <1>0, <1>1 DEF Upon
<1>2. CASE ~Missed(c, f)
  <2>1. PICK q : q = Appended(c, f)
    OBVIOUS
  <2>2. Upon(c, f) = q
    BY <1>2, <2>1 DEF Upon
  <2>3. q \in AnyPage /\ q.total = (IF f.total > c.total THEN f.total ELSE c.total)
        /\ \A r : IsPage(c, r) /\ IsChunk(f, r) => IsPage(q, r)
    BY <1>2, <2>1, AppendedIs
  <2>4. q.total >= c.total /\ q.total >= f.total
    BY <1>0, <2>3
  <2> QED
    BY <2>2, <2>3, <2>4
<1> QED
  BY <1>1, <1>2

\* What a load returns to: nothing the answer had is lost, and it is a page of the run
\* if the answer and the frames that came early are of it.
LEMMA MergedAre ==
    ASSUME FeedAssumption, FeedTypeOK
    PROVE  LET m == Merged[Len(early)]
           IN  /\ m \in AnyPage /\ m.total >= load.page.total
               /\ \A r : /\ IsPage(load.page, r)
                         /\ \A i \in 1..Len(early) : IsChunk(early[i], r)
                         => IsPage(m, r)
<1>0. /\ load.page \in AnyPage /\ load.page.total \in Nat
      /\ Len(early) \in Nat /\ Len(early) <= MaxWaiting /\ MaxWaiting \in Nat
      /\ \A i \in 1..Len(early) : early[i] \in AnyPage
  <2>1. /\ load.page \in AnyPage /\ early \in Seq(AnyPage) /\ frames \in Seq(AnyPage)
        /\ Len(frames) + Len(early) <= MaxWaiting /\ MaxWaiting \in Nat
    BY DEF FeedTypeOK, FeedAssumption
  <2>2. Len(early) \in Nat /\ Len(frames) \in Nat
    BY <2>1
  <2>3. Len(early) <= MaxWaiting
    BY <2>1, <2>2
  <2>4. load.page.total \in Nat
    BY <2>1 DEF AnyPage
  <2> QED
    BY <2>1, <2>2, <2>3, <2>4
<1> DEFINE Good(m) == /\ m \in AnyPage /\ m.total >= load.page.total
                      /\ \A r : /\ IsPage(load.page, r)
                                /\ \A i \in 1..Len(early) : IsChunk(early[i], r)
                                => IsPage(m, r)
           T == {j \in Nat : j <= Len(early) => Good(Merged[j])}
<1>1. \A j \in 0..Len(early) : Merged[j] = IF j = 0 THEN load.page
                                         ELSE Upon(Merged[j - 1], early[j])
  <2>1. \A j \in 0..Len(early) : j \in 0..MaxWaiting
    BY <1>0
  <2> QED
    BY <2>1, MergedIs
<1>2. 0 \in T
  <2>1. Merged[0] = load.page
    BY <1>0, <1>1
  <2>2. Good(load.page)
    BY <1>0
  <2> QED
    BY <2>1, <2>2
<1>3. ASSUME NEW n \in T PROVE n + 1 \in T
  <2> SUFFICES ASSUME n + 1 <= Len(early) PROVE Good(Merged[n + 1])
    OBVIOUS
  <2>1. n \in Nat /\ n <= Len(early) /\ n + 1 \in 1..Len(early) /\ n + 1 \in 0..Len(early)
        /\ (n + 1) - 1 = n /\ n + 1 # 0
    BY <1>0
  <2>2. PICK c : c = Merged[n]
    OBVIOUS
  <2>3. PICK f : f = early[n + 1]
    OBVIOUS
  <2>4. Good(c)
    BY <2>1, <2>2
  <2>5. c \in AnyPage /\ f \in AnyPage
    BY <1>0, <2>1, <2>3, <2>4
  <2>6. PICK q : q = Upon(c, f)
    OBVIOUS
  <2>7. Merged[n + 1] = q
    BY <1>1, <2>1, <2>2, <2>3, <2>6
  <2>8. q \in AnyPage /\ q.total >= c.total
        /\ \A r : IsPage(c, r) /\ IsChunk(f, r) => IsPage(q, r)
    BY <2>5, <2>6, UponIs
  <2>9. q.total >= load.page.total
    <3>1. q.total \in Nat /\ c.total \in Nat /\ c.total >= load.page.total
      BY <2>4, <2>5, <2>8 DEF AnyPage
    <3> QED
      BY <1>0, <2>8, <3>1
  <2>10. ASSUME NEW r, IsPage(load.page, r),
                \A i \in 1..Len(early) : IsChunk(early[i], r)
         PROVE  IsPage(q, r)
    BY <2>1, <2>3, <2>4, <2>8, <2>10
  <2>11. Good(q)
    BY <2>8, <2>9, <2>10
  <2> QED
    BY <2>7, <2>11
<1>4. T = Nat
  <2>1. \A n \in T : n + 1 \in T
    BY <1>3
  <2>2. T \subseteq Nat
    OBVIOUS
  <2> HIDE DEF T
  <2> QED
    BY <1>2, <2>1, <2>2, Induction
<1>5. Len(early) \in T
  BY <1>0, <1>4
<1>6. Good(Merged[Len(early)])
  BY <1>0, <1>5
<1> QED
  BY <1>6

\* If a load drops none of the frames that waited for it, they are all on the page.
LEMMA MergedHasEarly ==
    ASSUME FeedAssumption, FeedTypeOK,
           \A i \in 1..Len(early) : ~Missed(Merged[i - 1], early[i])
    PROVE  \A i \in 1..Len(early) : Merged[Len(early)].total >= early[i].total
<1>0. /\ load.page \in AnyPage /\ Len(early) \in Nat
      /\ Len(early) <= MaxWaiting /\ MaxWaiting \in Nat
      /\ \A i \in 1..Len(early) : early[i] \in AnyPage
  <2>1. /\ load.page \in AnyPage /\ early \in Seq(AnyPage) /\ frames \in Seq(AnyPage)
        /\ Len(frames) + Len(early) <= MaxWaiting /\ MaxWaiting \in Nat
    BY DEF FeedTypeOK, FeedAssumption
  <2>2. Len(early) \in Nat /\ Len(frames) \in Nat
    BY <2>1
  <2>3. Len(early) <= MaxWaiting
    BY <2>1, <2>2
  <2> QED
    BY <2>1, <2>2, <2>3
<1> DEFINE Good(j) == /\ Merged[j] \in AnyPage
                      /\ \A i \in 1..j : Merged[j].total >= early[i].total
           T == {j \in Nat : j <= Len(early) => Good(j)}
<1>1. \A j \in 0..Len(early) : Merged[j] = IF j = 0 THEN load.page
                                         ELSE Upon(Merged[j - 1], early[j])
  <2>1. \A j \in 0..Len(early) : j \in 0..MaxWaiting
    BY <1>0
  <2> QED
    BY <2>1, MergedIs
<1>2. 0 \in T
  <2>1. Merged[0] = load.page
    BY <1>0, <1>1
  <2> QED
    BY <1>0, <2>1
<1>3. ASSUME NEW n \in T PROVE n + 1 \in T
  <2> SUFFICES ASSUME n + 1 <= Len(early) PROVE Good(n + 1)
    OBVIOUS
  <2>1. n \in Nat /\ n <= Len(early) /\ n + 1 \in 1..Len(early) /\ n + 1 \in 0..Len(early)
        /\ (n + 1) - 1 = n /\ n + 1 # 0
    BY <1>0
  <2>2. PICK c : c = Merged[n]
    OBVIOUS
  <2>3. PICK f : f = early[n + 1]
    OBVIOUS
  <2>4. /\ c \in AnyPage /\ f \in AnyPage /\ ~Missed(c, f)
        /\ \A i \in 1..n : c.total >= early[i].total
    BY <1>0, <2>1, <2>2, <2>3
  <2>5. PICK q : q = Upon(c, f)
    OBVIOUS
  <2>6. Merged[n + 1] = q
    BY <1>1, <2>1, <2>2, <2>3, <2>5
  <2>7. q \in AnyPage /\ q.total >= c.total /\ q.total >= f.total
    BY <2>4, <2>5, UponIs
  <2>8. ASSUME NEW i \in 1..(n + 1) PROVE q.total >= early[i].total
    <3>1. CASE i = n + 1
      BY <2>3, <2>7, <3>1
    <3>2. CASE i \in 1..n
      <4>1. /\ i \in 1..Len(early) /\ early[i] \in AnyPage
            /\ c.total >= early[i].total
        BY <1>0, <2>1, <2>4, <3>2
      <4>2. q.total \in Nat /\ c.total \in Nat /\ early[i].total \in Nat
        BY <2>4, <2>7, <4>1 DEF AnyPage
      <4> QED
        BY <2>7, <4>1, <4>2
    <3> QED
      BY <2>1, <3>1, <3>2
  <2> QED
    BY <2>6, <2>7, <2>8
<1>4. T = Nat
  <2>1. \A n \in T : n + 1 \in T
    BY <1>3
  <2>2. T \subseteq Nat
    OBVIOUS
  <2> HIDE DEF T
  <2> QED
    BY <1>2, <2>1, <2>2, Induction
<1>5. Len(early) \in T
  BY <1>0, <1>4
<1> QED
  BY <1>0, <1>5

-----------------------------------------------------------------------------
\* What the frames on the wire and the page are to begin with.
LEMMA FeedBegins == ASSUME FeedAssumption, LogInit PROVE FeedInv
<1>1. /\ base = NoPage /\ page = NoPage /\ frames = <<>> /\ early = <<>> /\ due = 0
      /\ run = 1 /\ kept = 0 /\ load = [is |-> "asked", page |-> NoPage]
  BY DEF LogInit, Unloaded
<1>2. NoPage \in AnyPage
  BY DEF AnyPage, NoPage, Page
<1>3. FeedTypeOK
  BY <1>1, <1>2 DEF FeedTypeOK, FeedAssumption
<1>4. \A r : IsPage(NoPage, r)
  BY DEF IsPage, IsChunk, NoPage, Page, Least, FeedAssumption
<1>5. FramesAreChunks /\ FramesAreNew /\ EarlyAreChunks
  BY <1>1 DEF FramesAreChunks, FramesAreNew, EarlyAreChunks
<1>6. PagesAreWhole /\ BaseIsShown
  BY <1>1, <1>4 DEF PagesAreWhole, BaseIsShown, Loading
<1> QED
  BY <1>3, <1>5, <1>6 DEF FeedInv

\* A page that is behind what it was told of misses a line of any frame past that.
LEMMA BehindMisses ==
    ASSUME NEW c \in AnyPage, NEW f \in AnyPage, NEW n \in Nat, StartsAt(f, n), c.total < n
    PROVE  Missed(c, f)
<1>1. c.total \in Nat /\ f.total \in Nat /\ Len(f.items) \in Nat
  BY DEF AnyPage
<1> QED
  BY <1>1 DEF Missed, Fresh, StartsAt

LEMMA FeedStep == ASSUME FeedAssumption, FeedInv, [LogNext]_logVars PROVE FeedInv'
<1> USE DEF FeedInv
<1>0. /\ run \in Nat /\ kept \in Nat /\ due \in Nat /\ frames \in Seq(AnyPage)
      /\ early \in Seq(AnyPage) /\ base \in AnyPage /\ page \in AnyPage
      /\ load.page \in AnyPage /\ load = [is |-> load.is, page |-> load.page]
      /\ Len(frames) + Len(early) <= MaxWaiting /\ Len(frames) \in Nat /\ Len(early) \in Nat
  BY DEF FeedTypeOK
<1>f. \A i \in 1..Len(frames) : frames[i] \in AnyPage /\ frames[i].total \in Nat
  <2> SUFFICES ASSUME NEW i \in 1..Len(frames) PROVE frames[i] \in AnyPage
    BY DEF AnyPage
  <2>1. frames \in Seq(AnyPage)
    BY <1>0
  <2> QED
    BY <2>1, ElementOfSeq
<1>n. NoPage \in AnyPage /\ \A r : IsPage(NoPage, r)
  BY DEF AnyPage, IsPage, IsChunk, NoPage, Page, Least, FeedAssumption
<1>e. /\ <<>> \in Seq(AnyPage) /\ Len(<<>>) = 0 /\ MaxWaiting \in Nat
  BY DEF FeedAssumption
<1>1. ASSUME NEW n \in 1..MaxChunk, Logs(n) PROVE FeedInv'
  <2>1. /\ kept + n \in Nat /\ kept' = kept + n /\ kept <= kept'
        /\ UNCHANGED <<run, base, page, early, load, due, letGo, carried>>
    BY <1>0, <1>1 DEF Logs, FeedAssumption
  <2>2. CASE ~open
    <3>1. UNCHANGED frames
      BY <1>1, <2>2 DEF Logs
    <3>2. FeedTypeOK'
      BY <1>0, <2>1, <3>1 DEF FeedTypeOK
    <3>3. FramesAreChunks'
      <4> SUFFICES ASSUME NEW i \in 1..Len(frames)
                   PROVE  IsChunk(frames[i], run) /\ frames[i].total <= kept'
        BY <2>1, <3>1 DEF FramesAreChunks
      <4>1. IsChunk(frames[i], run) /\ frames[i].total <= kept /\ frames[i].total \in Nat
        BY <1>f DEF FramesAreChunks
      <4>2. frames[i].total <= kept'
        BY <1>0, <2>1, <4>1
      <4> QED
        BY <2>1, <3>1, <4>1, <4>2
    <3>4. EarlyAreChunks' /\ BaseIsShown' /\ FramesAreNew'
      BY <2>1, <3>1 DEF EarlyAreChunks, BaseIsShown, Loading, FramesAreNew
    <3>5. PagesAreWhole'
      BY <1>0, <2>1 DEF PagesAreWhole, Loading
    <3> QED
      BY <3>2, <3>3, <3>4, <3>5
  <2>3. CASE open
    <3>1. PICK p : p = Page(Lines(kept + 1, kept + n), kept + n)
      OBVIOUS
    <3>2. frames' = Append(frames, p) /\ Len(frames) + Len(early) < MaxWaiting
      BY <1>1, <2>1, <2>3, <3>1 DEF Logs
    <3>3. p \in AnyPage /\ IsChunk(p, run) /\ p.total = kept + n /\ StartsAt(p, kept)
      <4>1. PICK a \in Nat, b \in Nat : a = kept + 1 /\ b = kept + n /\ a >= 1 /\ a <= b + 1
        BY <1>0, <2>1
      <4>2. /\ Page(Lines(a, b), b) \in AnyPage /\ IsChunk(Page(Lines(a, b), b), run)
            /\ Len(Lines(a, b)) = b + 1 - a
        BY <1>0, <4>1, LinesAre
      <4>3. p.total = kept + n /\ p.total = b /\ Len(p.items) = b + 1 - a
        BY <3>1, <4>1, <4>2 DEF Page
      <4>4. StartsAt(p, kept)
        <5>1. kept \in Nat
          BY <1>0
        <5>2. p.total - Len(p.items) = kept
          BY <4>1, <4>3, <5>1
        <5> QED
          BY <5>1, <5>2 DEF StartsAt
      <4> QED
        BY <3>1, <4>1, <4>2, <4>3, <4>4
    <3>4. /\ frames' \in Seq(AnyPage) /\ Len(frames') = Len(frames) + 1
          /\ \A i \in 1..Len(frames) : frames'[i] = frames[i]
          /\ frames'[Len(frames) + 1] = p
      BY <1>0, <3>2, <3>3, AppendProperties
    <3>5. FeedTypeOK'
      <4>1. Len(frames') + Len(early') <= MaxWaiting
        BY <1>0, <1>e, <2>1, <3>2, <3>4
      <4> QED
        BY <1>0, <2>1, <3>4, <4>1 DEF FeedTypeOK
    <3>6. FramesAreChunks'
      <4> SUFFICES ASSUME NEW i \in 1..Len(frames')
                   PROVE  IsChunk(frames'[i], run') /\ frames'[i].total <= kept'
        BY DEF FramesAreChunks
      <4>1. CASE i \in 1..Len(frames)
        <5>1. IsChunk(frames[i], run) /\ frames[i].total <= kept /\ frames[i].total \in Nat
          BY <1>f, <4>1 DEF FramesAreChunks
        <5>2. frames[i].total <= kept'
          BY <1>0, <2>1, <5>1
        <5> QED
          BY <2>1, <3>4, <4>1, <5>1, <5>2
      <4>2. CASE i = Len(frames) + 1
        BY <2>1, <3>3, <3>4, <4>2
      <4> QED
        BY <1>0, <3>4, <4>1, <4>2
    <3>7. EarlyAreChunks' /\ BaseIsShown'
      BY <2>1 DEF EarlyAreChunks, BaseIsShown, Loading
    <3>8. PagesAreWhole'
      BY <1>0, <2>1 DEF PagesAreWhole, Loading
    <3>9. FramesAreNew'
      <4>1. p.total \in Nat /\ Len(p.items) \in Nat
        BY <3>3 DEF AnyPage
      <4>2. ASSUME NEW n1 \in Nat, n1 <= kept PROVE StartsAt(p, n1)
        BY <1>0, <3>3, <4>1, <4>2 DEF StartsAt
      <4>3. \A i \in 1..Len(frames') : i \in 1..Len(frames) \/ i = Len(frames) + 1
        BY <1>0, <3>4
      <4>4. ASSUME NEW i \in 1..Len(frames'), NEW j \in 1..Len(frames'), i < j
            PROVE  StartsAt(frames'[j], frames'[i].total)
        <5>1. i \in 1..Len(frames) /\ frames'[i] = frames[i]
          BY <1>0, <3>4, <4>4
        <5>2. frames[i].total \in Nat /\ frames[i].total <= kept
          BY <1>f, <5>1 DEF FramesAreChunks
        <5>3. CASE j = Len(frames) + 1
          BY <3>4, <4>2, <5>1, <5>2, <5>3
        <5>4. CASE j \in 1..Len(frames)
          BY <3>4, <4>4, <5>1, <5>4 DEF FramesAreNew
        <5> QED
          BY <4>3, <5>3, <5>4
      <4>5. ASSUME ~carried, NEW i \in 1..Len(frames') PROVE StartsAt(frames'[i], due)
        <5>1. CASE i = Len(frames) + 1
          BY <1>0, <3>4, <4>2, <4>5, <5>1 DEF PagesAreWhole
        <5>2. CASE i \in 1..Len(frames)
          BY <3>4, <4>5, <5>2 DEF FramesAreNew
        <5> QED
          BY <4>3, <5>1, <5>2
      <4> QED
        BY <2>1, <4>4, <4>5 DEF FramesAreNew
    <3> QED
      BY <3>5, <3>6, <3>7, <3>8, <3>9
  <2> QED
    BY <2>2, <2>3
<1>2. CASE BackendRestarts
  <2>1. /\ run' = run + 1 /\ kept' = 0 /\ frames' = <<>> /\ carried'
        /\ UNCHANGED <<base, page, early, load, due, letGo>>
    BY <1>2 DEF BackendRestarts
  <2>2. FeedTypeOK'
    BY <1>0, <1>e, <2>1 DEF FeedTypeOK
  <2>3. /\ FramesAreChunks' /\ FramesAreNew' /\ EarlyAreChunks' /\ PagesAreWhole'
        /\ BaseIsShown'
    BY <1>e, <2>1
       DEF FramesAreChunks, FramesAreNew, EarlyAreChunks, PagesAreWhole, BaseIsShown, Loading
  <2> QED
    BY <2>2, <2>3
<1>3. CASE Cut \/ Reopens \/ OtherTabSignsIn
  <2>1. frames' \in {frames, <<>>} /\ UNCHANGED <<run, kept, base, page, early, load, due, letGo, carried>>
    BY <1>3 DEF Cut, Reopens, OtherTabSignsIn, UnlessLink
  <2>2. FeedTypeOK'
    <3>1. frames' \in Seq(AnyPage) /\ Len(frames') <= Len(frames) /\ Len(frames') \in Nat
      <4>1. CASE frames' = frames
        BY <1>0, <4>1
      <4>2. CASE frames' = <<>>
        <5>1. Len(frames') = 0 /\ frames' \in Seq(AnyPage)
          BY <1>e, <4>2
        <5> QED
          BY <1>0, <5>1
      <4> QED
        BY <2>1, <4>1, <4>2
    <3>2. Len(frames') + Len(early') <= MaxWaiting
      BY <1>0, <1>e, <2>1, <3>1
    <3> QED
      BY <1>0, <2>1, <3>1, <3>2 DEF FeedTypeOK
  <2>3. FramesAreChunks' /\ FramesAreNew'
    BY <1>e, <2>1 DEF FramesAreChunks, FramesAreNew
  <2>4. EarlyAreChunks' /\ PagesAreWhole' /\ BaseIsShown'
    BY <2>1 DEF EarlyAreChunks, PagesAreWhole, BaseIsShown, Loading
  <2> QED
    BY <2>2, <2>3, <2>4
<1>4. CASE MountsAnew
  <2>1. /\ base' = NoPage /\ page' = NoPage /\ early' = <<>> /\ due' = 0
        /\ letGo' = FALSE
        /\ load' = [is |-> "asked", page |-> NoPage] /\ UNCHANGED <<run, kept, frames>>
    BY <1>4 DEF MountsAnew, Unloaded
  <2>2. FeedTypeOK'
    BY <1>0, <1>n, <1>e, <2>1 DEF FeedTypeOK
  <2>3. FramesAreChunks' /\ FramesAreNew'
    <3>1. ASSUME NEW i \in 1..Len(frames) PROVE StartsAt(frames[i], 0)
      <4>1. Len(frames[i].items) <= frames[i].total
        BY DEF FramesAreChunks, IsChunk
      <4>2. frames[i].total \in Nat /\ Len(frames[i].items) \in Nat
        BY <1>f DEF AnyPage
      <4> QED
        BY <4>1, <4>2 DEF StartsAt
    <3> QED
      BY <2>1, <3>1 DEF FramesAreChunks, FramesAreNew
  <2>4. EarlyAreChunks' /\ PagesAreWhole' /\ BaseIsShown'
    BY <1>0, <1>n, <1>e, <2>1 DEF EarlyAreChunks, PagesAreWhole, BaseIsShown, Loading
  <2> QED
    BY <2>2, <2>3, <2>4
<1>5. CASE Frame
  <2>1. PICK f : f = Head(frames)
    OBVIOUS
  <2>2. /\ frames # <<>> /\ frames' = Tail(frames) /\ UNCHANGED <<run, kept, carried>>
        /\ due' = IF f.total > due THEN f.total ELSE due
    BY <1>5, <2>1 DEF Frame
  <2>3. /\ Len(frames) > 0 /\ f = frames[1] /\ f \in AnyPage /\ frames' \in Seq(AnyPage)
        /\ Len(frames') = Len(frames) - 1
        /\ \A i \in 1..Len(frames') : frames'[i] = frames[i + 1]
    <3> PICK t : t = Tail(frames)
      OBVIOUS
    <3>1. /\ f \in AnyPage /\ t \in Seq(AnyPage) /\ Len(t) = Len(frames) - 1
          /\ \A i \in 1..Len(t) : t[i] = frames[i + 1]
      BY <1>0, <2>1, <2>2, HeadTailProperties
    <3>3. frames' = t
      BY <2>2
    <3>2. Len(frames) > 0 /\ f = frames[1]
      BY <1>0, <2>1, <2>2
    <3> QED
      BY <3>1, <3>2, <3>3
  <2>4. IsChunk(f, run) /\ f.total <= kept /\ f.total \in Nat
    <3>1. 1 \in 1..Len(frames)
      BY <1>0, <2>3
    <3> QED
      BY <1>f, <2>3, <3>1 DEF FramesAreChunks
  <2>5. FramesAreChunks'
    <3> SUFFICES ASSUME NEW i \in 1..Len(frames')
                 PROVE  IsChunk(frames'[i], run') /\ frames'[i].total <= kept'
      BY DEF FramesAreChunks
    <3>1. i + 1 \in 1..Len(frames)
      BY <1>0, <2>3
    <3> QED
      BY <2>2, <2>3, <3>1 DEF FramesAreChunks
  <2>d. due' \in Nat /\ (due <= kept => due' <= kept) /\ due' \in {due, f.total}
    BY <1>0, <2>2, <2>4
  <2>n. FramesAreNew'
    <3>1. ASSUME NEW i \in 1..Len(frames')
          PROVE  /\ i + 1 \in 1..Len(frames) /\ frames'[i] = frames[i + 1]
                 /\ StartsAt(frames[i + 1], f.total)
      <4>1. i + 1 \in 1..Len(frames) /\ 1 \in 1..Len(frames) /\ 1 < i + 1
        BY <1>0, <2>3
      <4> QED
        BY <2>3, <4>1 DEF FramesAreNew
    <3>2. ASSUME NEW i \in 1..Len(frames'), NEW j \in 1..Len(frames'), i < j
          PROVE  StartsAt(frames'[j], frames'[i].total)
      <4>1. i + 1 < j + 1
        BY <3>2
      <4> QED
        BY <3>1, <4>1 DEF FramesAreNew
    <3>3. ASSUME ~carried, NEW i \in 1..Len(frames') PROVE StartsAt(frames'[i], due')
      BY <2>d, <3>1, <3>3 DEF FramesAreNew
    <3> QED
      BY <2>2, <3>2, <3>3 DEF FramesAreNew
  <2>6. CASE FrameWaits
    <3>1. Loading /\ early' = Append(early, f) /\ UNCHANGED <<base, page, load, letGo>>
      BY <2>1, <2>6 DEF FrameWaits
    <3>2. /\ early' \in Seq(AnyPage) /\ Len(early') = Len(early) + 1
          /\ \A i \in 1..Len(early) : early'[i] = early[i]
          /\ early'[Len(early) + 1] = f
      BY <1>0, <2>3, <3>1, AppendProperties
    <3>3. Len(frames') + Len(early') <= MaxWaiting
      BY <1>0, <1>e, <2>3, <3>2
    <3>4. FeedTypeOK'
      BY <1>0, <2>2, <2>3, <2>d, <3>1, <3>2, <3>3 DEF FeedTypeOK
    <3>5. EarlyAreChunks'
      <4> SUFFICES ASSUME ~carried, NEW i \in 1..Len(early') PROVE IsChunk(early'[i], run)
        BY <2>2 DEF EarlyAreChunks
      <4>1. CASE i \in 1..Len(early)
        BY <3>2, <4>1 DEF EarlyAreChunks
      <4>2. CASE i = Len(early) + 1
        BY <2>4, <3>2, <4>2
      <4> QED
        BY <1>0, <3>2, <4>1, <4>2
    <3>6. BaseIsShown'
      BY <3>1 DEF BaseIsShown, Loading
    <3>7. ASSUME ~carried, load.is = "answered"
          PROVE  \/ due' <= load.page.total
                 \/ \E i \in 1..Len(early') : due' <= early'[i].total
      <4>1. CASE due' = f.total
        <5>1. Len(early) + 1 \in 1..Len(early') /\ due' <= early'[Len(early) + 1].total
          BY <1>0, <2>d, <3>2, <4>1
        <5> QED
          BY <5>1
      <4>2. CASE due' = due /\ due <= load.page.total
        BY <4>2
      <4>3. CASE due' = due /\ \E i \in 1..Len(early) : due <= early[i].total
        <5>1. PICK i \in 1..Len(early) : due <= early[i].total
          BY <4>3
        <5>2. i \in 1..Len(early') /\ early'[i] = early[i]
          BY <1>0, <3>2
        <5> QED
          BY <4>3, <5>1, <5>2
      <4> QED
        BY <2>d, <3>7, <4>1, <4>2, <4>3 DEF PagesAreWhole
    <3>8. PagesAreWhole'
      BY <2>2, <2>d, <3>1, <3>7 DEF PagesAreWhole, Loading
    <3> QED
      BY <2>5, <2>n, <3>4, <3>5, <3>6, <3>8
  <2>7. CASE FramePlaced
    <3>1. ~Loading /\ due' = (IF f.total > due THEN f.total ELSE due) /\ base = page
      BY <2>2, <2>7 DEF FramePlaced, BaseIsShown
    <3>2. due' \in Nat /\ (due <= kept => due' <= kept)
      BY <2>d
    <3>3. Len(frames') + Len(early) <= MaxWaiting
      BY <1>0, <1>e, <2>3
    <3>4. CASE Missed(base, f)
      <4>1. /\ base' = NoPage /\ early' = <<>> /\ UNCHANGED page
            /\ load' = [is |-> "asked", page |-> NoPage]
        BY <2>1, <2>7, <3>4 DEF FramePlaced, Reloads, Unloaded
      <4>2. Len(frames') + Len(early') <= MaxWaiting
        BY <1>0, <1>e, <2>3, <3>3, <4>1
      <4>3. FeedTypeOK'
        BY <1>0, <1>n, <1>e, <2>2, <2>3, <3>2, <4>1, <4>2 DEF FeedTypeOK
      <4>4. EarlyAreChunks' /\ BaseIsShown'
        BY <1>e, <4>1 DEF EarlyAreChunks, BaseIsShown, Loading
      <4>5. PagesAreWhole'
        BY <1>n, <2>2, <3>2, <4>1 DEF PagesAreWhole, Loading
      <4> QED
        BY <2>5, <2>n, <4>3, <4>4, <4>5
    <3>5. CASE ~Missed(base, f)
      <4>1. PICK q : q = Appended(base, f)
        OBVIOUS
      <4>2. base' = q /\ page' = q /\ UNCHANGED <<early, load, letGo>>
        BY <2>1, <2>7, <3>5, <4>1 DEF FramePlaced, Shows
      <4>3. PICK c \in AnyPage : c = base
        BY <1>0
      <4>4. /\ q \in AnyPage /\ q.total = IF f.total > c.total THEN f.total ELSE c.total
            /\ IsPage(c, run) /\ IsChunk(f, run) => IsPage(q, run)
        BY <2>3, <3>5, <4>1, <4>3, AppendedIs
      <4>5. FeedTypeOK'
        BY <1>0, <2>2, <2>3, <3>2, <3>3, <4>2, <4>4 DEF FeedTypeOK
      <4>6. EarlyAreChunks' /\ BaseIsShown'
        BY <2>2, <4>2 DEF EarlyAreChunks, BaseIsShown, Loading
      <4>7. ASSUME ~carried PROVE IsPage(q, run) /\ due' <= kept /\ (due' <= q.total \/ letGo)
        <5>1. /\ IsPage(c, run) /\ due <= kept /\ (due <= c.total \/ letGo)
              /\ c.total \in Nat
          BY <3>1, <4>3, <4>7 DEF PagesAreWhole, AnyPage
        <5>2. due' <= q.total \/ letGo
          BY <1>0, <2>4, <3>1, <4>4, <5>1
        <5> QED
          BY <2>4, <3>2, <4>4, <5>1, <5>2
      <4>8. PagesAreWhole'
        BY <2>2, <3>1, <4>2, <4>7 DEF PagesAreWhole, Loading
      <4> QED
        BY <2>5, <2>n, <4>5, <4>6, <4>8
    <3> QED
      BY <3>4, <3>5
  <2> QED
    BY <1>5, <2>6, <2>7 DEF Frame
<1>6. CASE LoadAnswered
  <2>1. /\ load' = [is |-> "answered", page |-> Ring]
        /\ UNCHANGED <<run, kept, frames, base, page, early, due, letGo, carried>>
    BY <1>6 DEF LoadAnswered
  <2>2. PICK p : p = Ring
    OBVIOUS
  <2>3. p \in AnyPage /\ IsPage(p, run) /\ p.total = kept
    <3>1. PICK k \in Nat : k = Least(kept, Capacity) /\ k <= kept
      BY <1>0 DEF Least, FeedAssumption
    <3>2. PICK m \in Nat : m = kept + 1 - k /\ m >= 1 /\ m <= kept + 1 /\ kept + 1 - m = k
      BY <1>0, <3>1
    <3>3. p = Page(Lines(m, kept), kept)
      BY <2>2, <3>1, <3>2 DEF Ring
    <3>4. p \in AnyPage /\ IsChunk(p, run) /\ Len(Lines(m, kept)) = k
      BY <1>0, <3>2, <3>3, LinesAre
    <3>5. p.items = Lines(m, kept) /\ p.total = kept
      BY <3>3 DEF Page
    <3> QED
      BY <3>1, <3>4, <3>5 DEF IsPage
  <2>4. load'.page = p /\ load'.is = "answered" /\ load' = [is |-> load'.is, page |-> load'.page]
    BY <2>1, <2>2
  <2>5. FeedTypeOK'
    BY <1>0, <2>1, <2>3, <2>4 DEF FeedTypeOK
  <2>6. FramesAreChunks' /\ FramesAreNew' /\ EarlyAreChunks' /\ BaseIsShown'
    BY <2>1, <2>4 DEF FramesAreChunks, FramesAreNew, EarlyAreChunks, BaseIsShown, Loading
  <2>7. PagesAreWhole'
    BY <2>1, <2>3, <2>4 DEF PagesAreWhole, Loading
  <2> QED
    BY <2>5, <2>6, <2>7
<1>7. CASE LoadFails \/ LoadRetried
  <2>1. UNCHANGED <<run, kept, frames, base, page, early, due, letGo, carried>> /\ Loading
    BY <1>7 DEF LoadFails, LoadRetried, Loading
  <2>2. PICK q : q = load'
    OBVIOUS
  <2>3. q.is \in {"asked", "retry"} /\ q.page = load.page /\ q = [is |-> q.is, page |-> q.page]
    BY <1>0, <1>7, <2>2 DEF LoadFails, LoadRetried
  <2>4. FeedTypeOK'
    BY <1>0, <2>1, <2>2, <2>3 DEF FeedTypeOK
  <2>5. FramesAreChunks' /\ FramesAreNew' /\ EarlyAreChunks' /\ BaseIsShown'
    BY <2>1, <2>2, <2>3 DEF FramesAreChunks, FramesAreNew, EarlyAreChunks, BaseIsShown, Loading
  <2>6. PagesAreWhole'
    BY <2>1, <2>2, <2>3 DEF PagesAreWhole, Loading
  <2> QED
    BY <2>4, <2>5, <2>6
<1>8. CASE LoadReturns
  <2>1. PICK q : q = Merged[Len(early)]
    OBVIOUS
  <2>2. /\ load.is = "answered" /\ base' = q /\ page' = q /\ early' = <<>>
        /\ load' = [is |-> "none", page |-> NoPage]
        /\ letGo' = \E i \in 1..Len(early) : Missed(Merged[i - 1], early[i])
        /\ UNCHANGED <<run, kept, frames, due, carried>>
    BY <1>8, <2>1 DEF LoadReturns, Shows, Unloaded
  <2>3. /\ q \in AnyPage /\ q.total >= load.page.total
        /\ IsPage(load.page, run) /\ (\A i \in 1..Len(early) : IsChunk(early[i], run))
             => IsPage(q, run)
    BY <2>1, MergedAre
  <2>4. Len(frames') + Len(early') <= MaxWaiting
    BY <1>0, <1>e, <2>2
  <2>5. FeedTypeOK'
    BY <1>0, <1>n, <1>e, <2>2, <2>3, <2>4 DEF FeedTypeOK
  <2>6. FramesAreChunks' /\ FramesAreNew' /\ EarlyAreChunks' /\ BaseIsShown'
    BY <1>e, <2>2 DEF FramesAreChunks, FramesAreNew, EarlyAreChunks, BaseIsShown, Loading
  <2>7. ASSUME ~carried PROVE IsPage(q, run) /\ due <= kept /\ (due <= q.total \/ letGo')
    <3>1. /\ IsPage(load.page, run) /\ due <= kept
          /\ due <= load.page.total \/ \E i \in 1..Len(early) : due <= early[i].total
      BY <2>2, <2>7 DEF PagesAreWhole
    <3>2. IsPage(q, run)
      BY <2>3, <2>7, <3>1 DEF EarlyAreChunks
    <3>3. load.page.total \in Nat /\ q.total \in Nat
      BY <1>0, <2>3 DEF AnyPage
    <3>4. due <= load.page.total => due <= q.total
      BY <1>0, <2>3, <3>3
    <3>5. ASSUME ~letGo', NEW i \in 1..Len(early), due <= early[i].total
          PROVE  due <= q.total
      <4>1. q.total >= early[i].total
        BY <2>1, <2>2, <3>5, MergedHasEarly
      <4>2. early \in Seq(AnyPage)
        BY <1>0
      <4>3. early[i] \in AnyPage
        BY <4>2, ElementOfSeq
      <4>4. early[i].total \in Nat
        BY <4>3 DEF AnyPage
      <4> QED
        BY <1>0, <3>3, <3>5, <4>1, <4>4
    <3> QED
      BY <3>1, <3>2, <3>4, <3>5
  <2>8. PagesAreWhole'
    BY <2>2, <2>7 DEF PagesAreWhole, Loading
  <2> QED
    BY <2>5, <2>6, <2>8
<1>9. CASE UNCHANGED logVars
  <2>1. UNCHANGED <<run, kept, frames, base, page, early, load, due, letGo, carried>>
    BY <1>9 DEF logVars
  <2>2. /\ FeedTypeOK' /\ FramesAreChunks' /\ FramesAreNew' /\ EarlyAreChunks'
        /\ BaseIsShown'
    BY <2>1 DEF FeedTypeOK, FramesAreChunks, FramesAreNew, EarlyAreChunks, BaseIsShown, Loading
  <2>3. PagesAreWhole'
    BY <2>1 DEF PagesAreWhole, Loading
  <2> QED
    BY <2>2, <2>3
<1> QED
  BY <1>1, <1>2, <1>3, <1>4, <1>5, <1>6, <1>7, <1>8, <1>9 DEF LogNext

LEMMA WholeLog == ASSUME FeedInv PROVE LogIsWhole
<1>1. ASSUME ~carried PROVE \A i \in DOMAIN page.items :
              page.items[i] = [run |-> run, n |-> page.total + i - Len(page.items)]
  <2>1. page.items \in Seq(LogLines) /\ page.total \in Nat /\ Len(page.items) \in Nat
    BY DEF FeedInv, FeedTypeOK, AnyPage
  <2> TAKE i \in DOMAIN page.items
  <2>2. i \in 1..Len(page.items)
    BY <2>1
  <2>3. page.items[i] = [run |-> run, n |-> page.total - Len(page.items) + i]
    BY <1>1, <2>2 DEF FeedInv, PagesAreWhole, IsPage, IsChunk
  <2>4. page.total - Len(page.items) + i = page.total + i - Len(page.items)
    BY <2>1, <2>2
  <2> QED
    BY <2>3, <2>4
<1>2. LogIsUnbroken
  BY <1>1 DEF LogIsUnbroken, FeedInv, PagesAreWhole, IsPage
<1>3. WhatWasMissedIsFetched
  <2> SUFFICES ASSUME page.total < due, ~carried, ~Loading
               PROVE  letGo /\ \A i \in 1..Len(frames) : Missed(base, frames[i])
    BY DEF WhatWasMissedIsFetched
  <2>1. page.total \in Nat /\ due \in Nat /\ page \in AnyPage /\ frames \in Seq(AnyPage)
    BY DEF FeedInv, FeedTypeOK, AnyPage
  <2>2. letGo
    BY <2>1 DEF FeedInv, PagesAreWhole
  <2>3. ASSUME NEW i \in 1..Len(frames) PROVE Missed(base, frames[i])
    <3>1. base = page /\ StartsAt(frames[i], due)
      BY DEF FeedInv, BaseIsShown, FramesAreNew
    <3>2. frames[i] \in AnyPage
      BY <2>1, ElementOfSeq
    <3>3. Missed(page, frames[i])
      BY <2>1, <3>1, <3>2, BehindMisses
    <3> QED
      BY <3>1, <3>3
  <2> QED
    BY <2>2, <2>3
<1> QED
  BY <1>2, <1>3 DEF LogIsWhole

\* The log a page shows has no gap, and has whatever a frame told of or wants a load that
\* has it, for a ring of any size, chunks of any number of lines, and any order of frames,
\* loads, failures and cuts; but for a load that dropped a frame that waited for it, after
\* which the next frame starts another.
THEOREM LogStaysWhole == LogSpec => []LogIsWhole
<1>1. LogInit => FeedInv
  BY FeedBegins, FeedAssumption
<1>2. FeedInv /\ [LogNext]_logVars => FeedInv'
  BY FeedStep, FeedAssumption
<1>3. FeedInv => LogIsWhole
  BY WholeLog
<1> QED
  BY <1>1, <1>2, <1>3, PTL DEF LogSpec

-----------------------------------------------------------------------------
\* A line of the event log's files, the events of a file, and what was lost of them with
\* a torn line: that line's and the next run's first.
FileLine == [events : Seq(Nat), ended : BOOLEAN]
Has(rows, n) == \E i \in 1..Len(rows) :
                    \E j \in 1..Len(rows[i].events) : rows[i].events[j] = n
LostIn(rows, set) ==
    \A i \in 1..Len(rows) :
        \/ Whole(rows[i])
        \/ \A j \in 1..Len(rows[i].events) :
              rows[i].events[j] \in set \/ rows[i].events[j] - 1 \in set

EventsTypeOK ==
    /\ files.app \in Seq(FileLine) /\ files.previous \in Seq(FileLine)
    /\ files = [app |-> files.app, previous |-> files.previous]
    /\ bytes \in Nat /\ written \in Nat

\* Half a line is at the end of the file, and is that of the last event.
HalfIsLast ==
    LET rows == files.app
    IN  rows # <<>> /\ ~rows[Len(rows)].ended =>
            /\ written \in torn
            /\ \A j \in 1..Len(rows[Len(rows)].events) :
                  rows[Len(rows)].events[j] \in torn

\* As many of the newest events as the file has lines, or as the sink has counted, are in it.
FileHasNewest ==
    /\ \A n \in 1..written : written - n < Len(files.app) => Has(files.app, n)
    /\ state = "up" => \A n \in 1..written : written - n < bytes => Has(files.app, n)

\* Of the two files: a file's worth of events.
FilesHaveRecent ==
    \A n \in 1..written :
        written - n < MaxBytes => Has(files.app, n) \/ Has(files.previous, n)

EventsInv == /\ EventsTypeOK /\ HalfIsLast /\ FileHasNewest /\ FilesHaveRecent
             /\ LostIn(files.app, torn) /\ LostIn(files.previous, torn)

\* A line put at the end of a file: nothing in it is lost, and if it shares a torn line
\* both are.
LEMMA JoinedIs ==
    ASSUME NEW rows \in Seq(FileLine), NEW n \in Nat,
           NEW line \in FileLine, line.events = <<n>>,
           NEW old, NEW new, old \subseteq new, LostIn(rows, old), ~line.ended => n \in new,
           rows # <<>> /\ ~rows[Len(rows)].ended =>
               /\ n - 1 \in old
               /\ \A j \in 1..Len(rows[Len(rows)].events) :
                     rows[Len(rows)].events[j] \in old
    PROVE  LET joined == Joined(rows, line)
           IN  /\ joined \in Seq(FileLine) /\ Len(joined) <= Len(rows) + 1 /\ joined # <<>>
               /\ Has(joined, n) /\ \A k : Has(rows, k) => Has(joined, k)
               /\ LostIn(joined, new)
               /\ joined[Len(joined)].ended <=> line.ended
               /\ ~line.ended => \A j \in 1..Len(joined[Len(joined)].events) :
                                   joined[Len(joined)].events[j] \in new
<1>2. /\ line.events = <<n>> /\ line.events \in Seq(Nat) /\ Len(line.events) = 1
      /\ line.events[1] = n /\ line.ended \in BOOLEAN
  BY DEF FileLine
<1>3. PICK joined : joined = Joined(rows, line)
  OBVIOUS
<1>4. PICK m \in Nat : m = Len(rows)
  OBVIOUS
<1>5. \A i \in 1..m : rows[i] \in FileLine
  BY <1>4, ElementOfSeq
<1>6. CASE rows # <<>> /\ ~rows[m].ended
  <2>1. m \in 1..m
    <3>1. m # 0
      BY <1>4, <1>6, EmptySeq
    <3> QED
      BY <3>1
  <2>2. PICK s \in Seq(Nat) : s = rows[m].events
    BY <1>5, <2>1 DEF FileLine
  <2>3. PICK t : t = s \o <<n>>
    OBVIOUS
  <2>4. /\ t \in Seq(Nat) /\ Len(t) = Len(s) + 1 /\ Len(s) \in Nat
        /\ \A j \in 1..Len(s) : t[j] = s[j]
    BY <1>2, <2>3, ConcatProperties
  <2>5. t[Len(s) + 1] = n
    BY <1>2, <2>3, ConcatProperties
  <2>6. PICK last : last = [events |-> t, ended |-> line.ended]
    OBVIOUS
  <2>7. last \in FileLine /\ last.events = t /\ last.ended = line.ended
    BY <1>2, <2>4, <2>6 DEF FileLine
  <2>8. joined = [rows EXCEPT ![m] = last]
    BY <1>2, <1>3, <1>4, <1>6, <2>2, <2>3, <2>6 DEF Joined
  <2>9. /\ joined \in Seq(FileLine) /\ Len(joined) = m /\ joined[m] = last
        /\ \A i \in 1..m : i # m => joined[i] = rows[i]
    BY <1>4, <2>1, <2>7, <2>8, ExceptSeq
  <2>10. \A j \in 1..Len(s) : s[j] \in old
    BY <1>4, <1>6, <2>2
  <2>11. n - 1 \in old
    BY <1>4, <1>6
  <2>12. Has(joined, n)
    <3>1. Len(s) + 1 \in 1..Len(joined[m].events) /\ joined[m].events[Len(s) + 1] = n
      BY <2>4, <2>5, <2>7, <2>9
    <3> QED
      BY <2>1, <2>9, <3>1 DEF Has
  <2>13. ASSUME NEW k, Has(rows, k) PROVE Has(joined, k)
    <3>1. PICK i \in 1..m : \E j \in 1..Len(rows[i].events) : rows[i].events[j] = k
      BY <1>4, <2>13 DEF Has
    <3>2. PICK j \in 1..Len(rows[i].events) : rows[i].events[j] = k
      BY <3>1
    <3>3. CASE i = m
      <4>1. j \in 1..Len(s) /\ j \in 1..Len(t) /\ t[j] = k
        <5>1. j \in 1..Len(s) /\ s[j] = k
          BY <2>2, <3>2, <3>3
        <5> QED
          BY <2>4, <5>1
      <4> QED
        BY <2>1, <2>7, <2>9, <4>1 DEF Has
    <3>4. CASE i # m
      BY <2>9, <3>2, <3>4 DEF Has
    <3> QED
      BY <3>3, <3>4
  <2>14. \A j \in 1..Len(t) : t[j] \in new \/ t[j] - 1 \in new
    <3> TAKE j \in 1..Len(t)
    <3>1. CASE j \in 1..Len(s)
      BY <2>4, <2>10, <3>1
    <3>2. CASE j = Len(s) + 1
      BY <2>5, <2>11, <3>2
    <3> QED
      BY <2>4, <3>1, <3>2
  <2>15. LostIn(joined, new)
    <3> SUFFICES ASSUME NEW i \in 1..m
                 PROVE  \/ Whole(joined[i])
                        \/ \A j \in 1..Len(joined[i].events) :
                              joined[i].events[j] \in new \/ joined[i].events[j] - 1 \in new
      BY <2>9 DEF LostIn
    <3>1. CASE i = m
      BY <2>7, <2>9, <2>14, <3>1
    <3>2. CASE i # m
      BY <1>4, <2>9, <3>2 DEF LostIn
    <3> QED
      BY <3>1, <3>2
  <2>16. ASSUME ~line.ended PROVE \A j \in 1..Len(t) : t[j] \in new
    <3> TAKE j \in 1..Len(t)
    <3>1. CASE j \in 1..Len(s)
      BY <2>4, <2>10, <3>1
    <3>2. CASE j = Len(s) + 1
      BY <2>5, <2>16, <3>2
    <3> QED
      BY <2>4, <3>1, <3>2
  <2>17. joined # <<>>
    BY <2>1, <2>9
  <2> QED
    BY <1>3, <1>4, <2>7, <2>9, <2>12, <2>13, <2>15, <2>16, <2>17
<1>7. CASE ~(rows # <<>> /\ ~rows[m].ended)
  <2>1. joined = Append(rows, line)
    BY <1>3, <1>4, <1>7 DEF Joined
  <2>2. /\ joined \in Seq(FileLine) /\ Len(joined) = m + 1 /\ joined[m + 1] = line
        /\ \A i \in 1..m : joined[i] = rows[i]
    BY <1>2, <1>4, <2>1, AppendProperties
  <2>3. m + 1 \in 1..Len(joined) /\ joined # <<>>
    BY <2>2
  <2>4. 1 \in 1..Len(joined[m + 1].events) /\ joined[m + 1].events[1] = n
    <3>1. joined[m + 1].events = line.events
      BY <2>2
    <3> QED
      BY <1>2, <3>1
  <2>5. Has(joined, n)
    BY <2>3, <2>4 DEF Has
  <2>6. ASSUME NEW k, Has(rows, k) PROVE Has(joined, k)
    <3>1. PICK i \in 1..m : \E j \in 1..Len(rows[i].events) : rows[i].events[j] = k
      BY <1>4, <2>6 DEF Has
    <3>2. i \in 1..Len(joined)
      BY <2>2
    <3> QED
      BY <2>2, <3>1, <3>2 DEF Has
  <2>7. LostIn(joined, new)
    <3> SUFFICES ASSUME NEW i \in 1..(m + 1)
                 PROVE  \/ Whole(joined[i])
                        \/ \A j \in 1..Len(joined[i].events) :
                              joined[i].events[j] \in new \/ joined[i].events[j] - 1 \in new
      BY <2>2 DEF LostIn
    <3>1. CASE i = m + 1
      <4>1. CASE line.ended
        BY <1>2, <2>2, <3>1, <4>1 DEF Whole
      <4>2. CASE ~line.ended
        BY <1>2, <2>2, <3>1, <4>2
      <4> QED
        BY <4>1, <4>2
    <3>2. CASE i \in 1..m
      BY <1>4, <2>2, <3>2 DEF LostIn
    <3> QED
      BY <3>1, <3>2
  <2>8. ~line.ended => \A j \in 1..Len(line.events) : line.events[j] \in new
    BY <1>2
  <2> QED
    BY <1>2, <1>3, <1>4, <2>2, <2>3, <2>5, <2>6, <2>7, <2>8
<1> QED
  BY <1>6, <1>7

\* A line put at the end of app.ndjson by the next event, of which a kill may leave half.
LEMMA NextEvent ==
    ASSUME EventsInv, NEW line \in FileLine, line.events = <<written + 1>>,
           NEW lost, torn \subseteq lost, ~line.ended => written + 1 \in lost
    PROVE  LET joined == Joined(files.app, line)
           IN  /\ joined \in Seq(FileLine) /\ LostIn(joined, lost)
               /\ joined[Len(joined)].ended <=> line.ended
               /\ ~line.ended => \A j \in 1..Len(joined[Len(joined)].events) :
                                   joined[Len(joined)].events[j] \in lost
               /\ \A n \in 1..(written + 1) :
                     /\ written + 1 - n < Len(joined) => Has(joined, n)
                     /\ state = "up" /\ written + 1 - n < bytes + 1 => Has(joined, n)
                     /\ Has(files.app, n) => Has(joined, n)
               /\ Has(joined, written + 1)
<1>1. PICK w \in Nat : w = written
  BY DEF EventsInv, EventsTypeOK
<1>2. PICK rows \in Seq(FileLine) : rows = files.app
  BY DEF EventsInv, EventsTypeOK
<1>3. PICK joined : joined = Joined(rows, line)
  OBVIOUS
<1>4. LostIn(rows, torn) /\ w + 1 \in Nat /\ (w + 1) - 1 = w
  BY <1>1, <1>2 DEF EventsInv
<1>5. rows # <<>> /\ ~rows[Len(rows)].ended =>
          /\ w \in torn
          /\ \A j \in 1..Len(rows[Len(rows)].events) : rows[Len(rows)].events[j] \in torn
  BY <1>1, <1>2 DEF EventsInv, HalfIsLast
<1>6. PICK x \in Nat : x = w + 1 /\ x - 1 = w
  BY <1>4
<1>7. /\ joined \in Seq(FileLine) /\ Len(joined) <= Len(rows) + 1
      /\ Has(joined, x) /\ \A k : Has(rows, k) => Has(joined, k)
      /\ LostIn(joined, lost)
      /\ joined[Len(joined)].ended <=> line.ended
      /\ ~line.ended => \A j \in 1..Len(joined[Len(joined)].events) :
                          joined[Len(joined)].events[j] \in lost
  <2>1. line.events = <<x>> /\ (~line.ended => x \in lost)
    BY <1>1, <1>6
  <2>3. rows # <<>> /\ ~rows[Len(rows)].ended =>
            /\ x - 1 \in torn
            /\ \A j \in 1..Len(rows[Len(rows)].events) :
                  rows[Len(rows)].events[j] \in torn
    BY <1>5, <1>6
  <2> QED
    BY <1>3, <1>4, <2>1, <2>3, JoinedIs
<1>8. ASSUME NEW n \in 1..x
      PROVE  /\ x - n < Len(joined) => Has(joined, n)
             /\ state = "up" /\ x - n < bytes + 1 => Has(joined, n)
             /\ Has(rows, n) => Has(joined, n)
  <2>1. CASE n = x
    BY <1>7, <2>1
  <2>2. CASE n # x
    <3>1. n \in 1..w /\ w - n = x - n - 1
      BY <1>6, <2>2
    <3>2. bytes \in Nat /\ Len(joined) \in Nat /\ Len(rows) \in Nat
      BY <1>7 DEF EventsInv, EventsTypeOK
    <3>3. /\ w - n < Len(rows) => Has(rows, n)
          /\ state = "up" /\ w - n < bytes => Has(rows, n)
      BY <1>1, <1>2, <3>1 DEF EventsInv, FileHasNewest
    <3>4. x - n < Len(joined) => w - n < Len(rows)
      BY <1>6, <1>7, <3>1, <3>2
    <3>5. x - n < bytes + 1 => w - n < bytes
      BY <1>6, <3>1, <3>2
    <3> QED
      BY <1>7, <3>3, <3>4, <3>5
  <2> QED
    BY <2>1, <2>2
<1> QED
  BY <1>1, <1>2, <1>3, <1>6, <1>7, <1>8

LEMMA EventsBegin == ASSUME EventsAssumption, EventsInit PROVE EventsInv
<1>1. /\ files.app = <<>> /\ files.previous = <<>> /\ written = 0 /\ bytes = 0
      /\ files = [app |-> <<>>, previous |-> <<>>]
  BY DEF EventsInit
<1>2. EventsTypeOK
  BY <1>1 DEF EventsTypeOK
<1>3. HalfIsLast /\ LostIn(files.app, torn) /\ LostIn(files.previous, torn)
  BY <1>1 DEF HalfIsLast, LostIn
<1>4. FileHasNewest /\ FilesHaveRecent
  BY <1>1 DEF FileHasNewest, FilesHaveRecent
<1> QED
  BY <1>2, <1>3, <1>4 DEF EventsInv

LEMMA WritesKeep == ASSUME EventsAssumption, EventsInv, Writes PROVE EventsInv'
<1>1. PICK app : app = Joined(files.app, Line(written + 1))
  OBVIOUS
<1>2. /\ written' = written + 1 /\ state = "up" /\ UNCHANGED <<state, torn>>
      /\ IF bytes + 1 >= MaxBytes THEN Rotated(app)
         ELSE files' = [files EXCEPT !.app = app] /\ bytes' = bytes + 1
  BY <1>1 DEF Writes
<1>3. /\ written \in Nat /\ bytes \in Nat /\ MaxBytes \in Nat /\ files.previous \in Seq(FileLine)
      /\ files = [app |-> files.app, previous |-> files.previous]
      /\ LostIn(files.previous, torn)
  BY DEF EventsInv, EventsTypeOK, EventsAssumption
<1>4. PICK line \in FileLine : /\ line = Line(written + 1) /\ line.events = <<written + 1>>
                              /\ line.ended = TRUE
  <2>1. PICK w \in Nat : w = written + 1
    BY <1>3
  <2>2. <<w>> \in Seq(Nat)
    OBVIOUS
  <2>3. PICK line : line = [events |-> <<w>>, ended |-> TRUE]
    OBVIOUS
  <2>4. line \in FileLine /\ line.events = <<w>> /\ line.ended = TRUE
    BY <2>2, <2>3 DEF FileLine
  <2>5. line = Line(written + 1)
    BY <2>1, <2>3 DEF Line
  <2> QED
    BY <2>1, <2>4, <2>5
<1>5. PICK w \in Nat : w = written + 1
  BY <1>3
<1>6. /\ app \in Seq(FileLine) /\ LostIn(app, torn) /\ app[Len(app)].ended
      /\ \A n \in 1..w : /\ w - n < Len(app) => Has(app, n)
                         /\ w - n < bytes + 1 => Has(app, n)
                         /\ Has(files.app, n) => Has(app, n)
      /\ Has(app, w)
  <2>1. PICK lost : lost = torn
    OBVIOUS
  <2>2. torn \subseteq lost /\ (~line.ended => written + 1 \in lost)
    BY <1>4, <2>1
  <2>4. app = Joined(files.app, line)
    BY <1>1, <1>4
  <2>3. /\ app \in Seq(FileLine) /\ LostIn(app, lost)
        /\ app[Len(app)].ended <=> line.ended
        /\ ~line.ended => \A j \in 1..Len(app[Len(app)].events) :
                             app[Len(app)].events[j] \in lost
        /\ \A n \in 1..(written + 1) :
              /\ written + 1 - n < Len(app) => Has(app, n)
              /\ state = "up" /\ written + 1 - n < bytes + 1 => Has(app, n)
              /\ Has(files.app, n) => Has(app, n)
        /\ Has(app, written + 1)
    BY <1>4, <2>2, <2>4, NextEvent
  <2> QED
    BY <1>2, <1>3, <1>4, <1>5, <2>1, <2>3
<1>7. /\ Len(app) \in Nat /\ \A set : LostIn(<<>>, set)
      /\ <<>> \in Seq(FileLine) /\ Len(<<>>) = 0
  BY <1>6 DEF LostIn
<1>8. written' = w /\ torn' = torn /\ state' = "up" /\ w \in Nat
  BY <1>2, <1>5
<1>9. CASE bytes + 1 < MaxBytes
  <2>1. PICK next : next = files'
    OBVIOUS
  <2>2. /\ next = [app |-> app, previous |-> files.previous] /\ bytes' = bytes + 1
    <3>1. next = [files EXCEPT !.app = app] /\ bytes' = bytes + 1
      BY <1>2, <1>3, <1>9, <2>1
    <3> QED
      BY <1>3, <3>1
  <2>3. files'.app = app /\ files'.previous = files.previous
        /\ files' = [app |-> files'.app, previous |-> files'.previous]
    BY <2>1, <2>2
  <2>4. EventsTypeOK'
    BY <1>3, <1>6, <1>8, <2>2, <2>3 DEF EventsTypeOK
  <2>5. HalfIsLast' /\ LostIn(files'.app, torn') /\ LostIn(files'.previous, torn')
    BY <1>3, <1>6, <1>8, <2>3 DEF HalfIsLast
  <2>6. FileHasNewest'
    BY <1>6, <1>8, <2>2, <2>3 DEF FileHasNewest
  <2>7. ASSUME NEW n \in 1..w, w - n < MaxBytes
        PROVE  Has(app, n) \/ Has(files.previous, n)
    <3>1. CASE n = w
      BY <1>6, <3>1
    <3>2. CASE n # w
      <4>1. n \in 1..written /\ written - n < MaxBytes
        BY <1>3, <1>5, <2>7, <3>2
      <4>2. Has(files.app, n) \/ Has(files.previous, n)
        BY <4>1 DEF EventsInv, FilesHaveRecent
      <4> QED
        BY <1>6, <4>2
    <3> QED
      BY <3>1, <3>2
  <2>8. FilesHaveRecent'
    BY <1>8, <2>3, <2>7 DEF FilesHaveRecent
  <2> QED
    BY <2>4, <2>5, <2>6, <2>8 DEF EventsInv
<1>10. CASE bytes + 1 >= MaxBytes
  <2>1. Rotated(app)
    BY <1>2, <1>10
  <2>2. \A n \in 1..w : w - n < MaxBytes => Has(app, n)
    <3> TAKE n \in 1..w
    <3>1. w - n < MaxBytes => w - n < bytes + 1
      BY <1>3, <1>5, <1>10
    <3> QED
      BY <1>6, <3>1
  <2>3. CASE files' = [app |-> <<>>, previous |-> app] /\ bytes' = 0
    <3>1. files'.app = <<>> /\ files'.previous = app
          /\ files' = [app |-> files'.app, previous |-> files'.previous]
      BY <2>3
    <3>2. EventsTypeOK'
      BY <1>6, <1>7, <1>8, <2>3, <3>1 DEF EventsTypeOK
    <3>3. HalfIsLast' /\ LostIn(files'.app, torn') /\ LostIn(files'.previous, torn')
      BY <1>6, <1>7, <1>8, <3>1 DEF HalfIsLast
    <3>4. FileHasNewest'
      BY <1>7, <1>8, <2>3, <3>1 DEF FileHasNewest
    <3>5. FilesHaveRecent'
      BY <1>8, <2>2, <3>1 DEF FilesHaveRecent
    <3> QED
      BY <3>2, <3>3, <3>4, <3>5 DEF EventsInv
  <2>4. ASSUME NEW older \in {files.previous, <<>>}, files' = [app |-> app, previous |-> older],
               bytes' = Len(app)
        PROVE  EventsInv'
    <3>1. files'.app = app /\ files'.previous = older
          /\ files' = [app |-> files'.app, previous |-> files'.previous]
      BY <2>4
    <3>2. older \in Seq(FileLine) /\ LostIn(older, torn)
      BY <1>3, <1>7
    <3>3. EventsTypeOK'
      BY <1>6, <1>7, <1>8, <2>4, <3>1, <3>2 DEF EventsTypeOK
    <3>4. HalfIsLast' /\ LostIn(files'.app, torn') /\ LostIn(files'.previous, torn')
      BY <1>6, <1>8, <3>1, <3>2 DEF HalfIsLast
    <3>5. FileHasNewest'
      BY <1>6, <1>8, <2>4, <3>1 DEF FileHasNewest
    <3>6. FilesHaveRecent'
      BY <1>8, <2>2, <3>1 DEF FilesHaveRecent
    <3> QED
      BY <3>3, <3>4, <3>5, <3>6 DEF EventsInv
  <2> QED
    BY <2>1, <2>3, <2>4 DEF Rotated
<1> QED
  BY <1>3, <1>9, <1>10

LEMMA TearsKeep == ASSUME EventsAssumption, EventsInv, Tears, UNCHANGED bytes, state' = "down"
                   PROVE  EventsInv'
<1>0. written \in Nat
  BY DEF EventsInv, EventsTypeOK
<1>1. PICK line \in FileLine : /\ line = HalfLine(written + 1) /\ line.events = <<written + 1>>
                              /\ line.ended = FALSE
  <2>1. PICK w \in Nat : w = written + 1
    BY <1>0
  <2>2. <<w>> \in Seq(Nat)
    OBVIOUS
  <2>3. PICK line : line = [events |-> <<w>>, ended |-> FALSE]
    OBVIOUS
  <2>4. line \in FileLine /\ line.events = <<w>> /\ line.ended = FALSE
    BY <2>2, <2>3 DEF FileLine
  <2>5. line = HalfLine(written + 1)
    BY <2>1, <2>3 DEF HalfLine
  <2> QED
    BY <2>1, <2>4, <2>5
<1>2. PICK app : app = Joined(files.app, line)
  OBVIOUS
<1>3. /\ written' = written + 1 /\ torn' = torn \cup {written + 1}
      /\ files' = [files EXCEPT !.app = app]
  BY <1>1, <1>2 DEF Tears
<1>4. /\ written \in Nat /\ bytes \in Nat /\ files.previous \in Seq(FileLine)
      /\ files = [app |-> files.app, previous |-> files.previous]
      /\ LostIn(files.previous, torn)
  BY DEF EventsInv, EventsTypeOK
<1>5. PICK w \in Nat : w = written + 1
  BY <1>4
<1>6. PICK lost : lost = torn \cup {w}
  OBVIOUS
<1>7. /\ app \in Seq(FileLine) /\ LostIn(app, lost)
      /\ \A j \in 1..Len(app[Len(app)].events) : app[Len(app)].events[j] \in lost
      /\ \A n \in 1..w : /\ w - n < Len(app) => Has(app, n)
                         /\ Has(files.app, n) => Has(app, n)
      /\ Has(app, w)
  <2>1. torn \subseteq lost /\ written + 1 \in lost /\ ~line.ended
    BY <1>1, <1>5, <1>6
  <2>2. /\ app \in Seq(FileLine) /\ LostIn(app, lost)
        /\ app[Len(app)].ended <=> line.ended
        /\ ~line.ended => \A j \in 1..Len(app[Len(app)].events) :
                             app[Len(app)].events[j] \in lost
        /\ \A n \in 1..(written + 1) :
              /\ written + 1 - n < Len(app) => Has(app, n)
              /\ state = "up" /\ written + 1 - n < bytes + 1 => Has(app, n)
              /\ Has(files.app, n) => Has(app, n)
        /\ Has(app, written + 1)
    BY <1>1, <1>2, <2>1, NextEvent
  <2> QED
    BY <1>0, <1>5, <2>1, <2>2
<1>8. files'.app = app /\ files'.previous = files.previous
      /\ files' = [app |-> files'.app, previous |-> files'.previous]
  <2>1. PICK next : next = files'
    OBVIOUS
  <2>2. next = [app |-> app, previous |-> files.previous]
    BY <1>3, <1>4, <2>1
  <2> QED
    BY <2>1, <2>2
<1>9. written' = w /\ torn' = lost /\ w \in lost /\ torn \subseteq lost
  BY <1>3, <1>5, <1>6
<1>10. EventsTypeOK'
  BY <1>4, <1>7, <1>8, <1>9 DEF EventsTypeOK
<1>11. HalfIsLast' /\ LostIn(files'.app, torn')
  BY <1>7, <1>8, <1>9 DEF HalfIsLast
<1>12. LostIn(files'.previous, torn')
  BY <1>4, <1>8, <1>9 DEF LostIn
<1>13. FileHasNewest'
  BY <1>7, <1>8, <1>9 DEF FileHasNewest
<1>14. ASSUME NEW n \in 1..w, w - n < MaxBytes
       PROVE  Has(app, n) \/ Has(files.previous, n)
  <2>1. CASE n = w
    BY <1>7, <2>1
  <2>2. CASE n # w
    <3>1. n \in 1..written /\ written - n < MaxBytes
      BY <1>4, <1>5, <1>14, <2>2 DEF EventsAssumption
    <3>2. Has(files.app, n) \/ Has(files.previous, n)
      BY <3>1 DEF EventsInv, FilesHaveRecent
    <3> QED
      BY <1>7, <3>2
  <2> QED
    BY <2>1, <2>2
<1>15. FilesHaveRecent'
  BY <1>8, <1>9, <1>14 DEF FilesHaveRecent
<1> QED
  BY <1>10, <1>11, <1>12, <1>13, <1>15 DEF EventsInv

LEMMA EventsStep == ASSUME EventsAssumption, EventsInv, [EventsNext]_eventVars PROVE EventsInv'
<1>1. CASE Writes
  BY <1>1, WritesKeep
<1>2. CASE Killed /\ Tears
  BY <1>2, TearsKeep DEF Killed
<1>3. ASSUME UNCHANGED <<files, written, torn>>, bytes' \in {bytes, Len(files.app)},
             state' = "up" => bytes' = Len(files.app) \/ (state = "up" /\ bytes' = bytes)
      PROVE  EventsInv'
  <2>1. EventsTypeOK'
    <3>1. Len(files.app) \in Nat /\ bytes \in Nat
      BY DEF EventsInv, EventsTypeOK
    <3> QED
      BY <1>3, <3>1 DEF EventsInv, EventsTypeOK
  <2>2. HalfIsLast' /\ LostIn(files'.app, torn') /\ LostIn(files'.previous, torn')
    BY <1>3 DEF EventsInv, HalfIsLast
  <2>3. FilesHaveRecent'
    BY <1>3 DEF EventsInv, FilesHaveRecent
  <2>4. FileHasNewest'
    BY <1>3 DEF EventsInv, FileHasNewest
  <2> QED
    BY <2>1, <2>2, <2>3, <2>4 DEF EventsInv
<1>4. CASE Killed /\ UNCHANGED <<written, files, torn>>
  BY <1>3, <1>4 DEF Killed
<1>5. CASE Closes \/ Exits
  BY <1>3, <1>5 DEF Closes, Exits
<1>6. CASE Boots
  BY <1>3, <1>6 DEF Boots
<1>7. CASE UNCHANGED eventVars
  BY <1>3, <1>7 DEF eventVars
<1> QED
  BY <1>1, <1>2, <1>4, <1>5, <1>6, <1>7 DEF EventsNext, Killed

LEMMA OnDiskBy == ASSUME EventsInv PROVE RecentEventsAreOnDisk
<1> SUFFICES ASSUME NEW n \in 1..written, written - n < MaxBytes, {n, n - 1} \cap torn = {}
             PROVE  n \in OnDisk
  BY DEF RecentEventsAreOnDisk
<1>1. ASSUME NEW rows \in Seq(FileLine), LostIn(rows, torn), Has(rows, n)
      PROVE  \E line \in ToSet(rows) : Whole(line) /\ n \in ToSet(line.events)
  <2>1. PICK i \in 1..Len(rows) : \E j \in 1..Len(rows[i].events) : rows[i].events[j] = n
    BY <1>1 DEF Has
  <2>2. PICK j \in 1..Len(rows[i].events) : rows[i].events[j] = n
    BY <2>1
  <2>3. rows[i] \in ToSet(rows) /\ rows[i] \in FileLine
    BY <1>1, ElementOfSeq DEF ToSet
  <2>4. n \in ToSet(rows[i].events)
    BY <2>2, <2>3 DEF ToSet, FileLine
  <2>5. Whole(rows[i])
    BY <1>1, <2>2 DEF LostIn
  <2> QED
    BY <2>3, <2>4, <2>5
<1>2. Has(files.app, n) \/ Has(files.previous, n)
  BY DEF EventsInv, FilesHaveRecent
<1>3. \E line \in ToSet(files.previous) \cup ToSet(files.app) :
          Whole(line) /\ n \in ToSet(line.events)
  BY <1>1, <1>2 DEF EventsInv, EventsTypeOK
<1> QED
  BY <1>3 DEF OnDisk

\* The newest events are on disk, for files and a ring of any size, and whatever rotations,
\* renames that fail, kills and boots there were: only a torn line and the next are lost.
THEOREM EventsStayOnDisk == EventsSpec => []RecentEventsAreOnDisk
<1>1. EventsInit => EventsInv
  BY EventsBegin, EventsAssumption
<1>2. EventsInv /\ [EventsNext]_eventVars => EventsInv'
  BY EventsStep, EventsAssumption
<1>3. EventsInv => RecentEventsAreOnDisk
  BY OnDiskBy
<1> QED
  BY <1>1, <1>2, <1>3, PTL DEF EventsSpec

-----------------------------------------------------------------------------
\* What a list has and that it has each once, by its places.
LEMMA ListIs ==
    ASSUME NEW S, NEW s \in Seq(S)
    PROVE  /\ ToSet(s) = {s[i] : i \in 1..Len(s)} /\ ToSet(s) \subseteq S
           /\ IsInjective(s) <=> \A i, j \in 1..Len(s) : s[i] = s[j] => i = j
<1>1. DOMAIN s = 1..Len(s) /\ \A i \in 1..Len(s) : s[i] \in S
  BY LenProperties, ElementOfSeq
<1> QED
  BY <1>1 DEF ToSet, IsInjective

LEMMA ListAppends ==
    ASSUME NEW S, NEW s \in Seq(S), NEW e \in S
    PROVE  /\ Append(s, e) \in Seq(S) /\ ToSet(Append(s, e)) = ToSet(s) \cup {e}
           /\ IsInjective(s) /\ e \notin ToSet(s) => IsInjective(Append(s, e))
<1>1. PICK t : t = Append(s, e)
  OBVIOUS
<1>2. /\ t \in Seq(S) /\ Len(t) = Len(s) + 1 /\ t[Len(s) + 1] = e
      /\ \A i \in 1..Len(s) : t[i] = s[i]
  BY <1>1, AppendProperties
<1>3. Len(s) \in Nat
  OBVIOUS
<1>4. /\ ToSet(s) = {s[i] : i \in 1..Len(s)} /\ ToSet(t) = {t[i] : i \in 1..Len(t)}
  BY <1>2, ListIs
<1>5. /\ IsInjective(s) <=> \A i, j \in 1..Len(s) : s[i] = s[j] => i = j
      /\ IsInjective(t) <=> \A i, j \in 1..Len(t) : t[i] = t[j] => i = j
  BY <1>2, ListIs
<1>6. \A i \in 1..Len(t) : i \in 1..Len(s) \/ i = Len(s) + 1
  BY <1>2, <1>3
<1>7. \A i \in 1..Len(s) : i \in 1..Len(t)
  BY <1>2, <1>3
<1>8. Len(s) + 1 \in 1..Len(t)
  BY <1>2, <1>3
<1>9. ToSet(t) = ToSet(s) \cup {e}
  <2>1. ASSUME NEW x \in ToSet(t) PROVE x \in ToSet(s) \cup {e}
    BY <1>2, <1>4, <1>6, <2>1
  <2>2. ASSUME NEW x \in ToSet(s) \cup {e} PROVE x \in ToSet(t)
    BY <1>2, <1>4, <1>7, <1>8, <2>2
  <2> QED
    BY <2>1, <2>2
<1>10. ASSUME IsInjective(s), e \notin ToSet(s) PROVE IsInjective(t)
  <2> SUFFICES ASSUME NEW i \in 1..Len(t), NEW j \in 1..Len(t), t[i] = t[j] PROVE i = j
    BY <1>5
  <2>1. CASE i \in 1..Len(s) /\ j \in 1..Len(s)
    BY <1>2, <1>5, <1>10, <2>1
  <2>2. CASE i \in 1..Len(s) /\ j = Len(s) + 1
    BY <1>2, <1>4, <1>10, <2>2
  <2>3. CASE i = Len(s) + 1 /\ j \in 1..Len(s)
    BY <1>2, <1>4, <1>10, <2>3
  <2> QED
    BY <1>6, <2>1, <2>2, <2>3
<1> QED
  BY <1>1, <1>2, <1>9, <1>10

LEMMA ListsJoin ==
    ASSUME NEW S, NEW s \in Seq(S), NEW t \in Seq(S)
    PROVE  /\ s \o t \in Seq(S) /\ ToSet(s \o t) = ToSet(s) \cup ToSet(t)
           /\ Len(s \o t) = Len(s) + Len(t)
           /\ \A i \in 1..Len(s) : (s \o t)[i] = s[i]
           /\ IsInjective(s) /\ IsInjective(t) /\ ToSet(s) \cap ToSet(t) = {}
                => IsInjective(s \o t)
<1>1. PICK u : u = s \o t
  OBVIOUS
<1>2. PICK m \in Nat, n \in Nat : m = Len(s) /\ n = Len(t)
  OBVIOUS
<1>3. /\ u \in Seq(S) /\ Len(u) = m + n
      /\ \A i \in 1..(m + n) : u[i] = IF i <= m THEN s[i] ELSE t[i - m]
  BY <1>1, <1>2, ConcatProperties
<1>4. \A i \in 1..m : i \in 1..(m + n) /\ u[i] = s[i]
  BY <1>3
<1>5. \A i \in 1..n : m + i \in 1..(m + n) /\ u[m + i] = t[i]
  <2> TAKE i \in 1..n
  <2>1. m + i \in 1..(m + n) /\ ~(m + i <= m) /\ (m + i) - m = i
    OBVIOUS
  <2> QED
    BY <1>3, <2>1
<1>6. \A i \in 1..(m + n) : i \in 1..m \/ \E j \in 1..n : i = m + j
  <2> TAKE i \in 1..(m + n)
  <2>1. CASE i <= m
    BY <2>1
  <2>2. CASE ~(i <= m)
    <3>1. i - m \in 1..n /\ i = m + (i - m)
      BY <2>2
    <3> QED
      BY <3>1
  <2> QED
    BY <2>1, <2>2
<1>7. /\ ToSet(s) = {s[i] : i \in 1..m} /\ ToSet(t) = {t[i] : i \in 1..n}
      /\ ToSet(u) = {u[i] : i \in 1..(m + n)}
      /\ IsInjective(s) <=> \A i, j \in 1..m : s[i] = s[j] => i = j
      /\ IsInjective(t) <=> \A i, j \in 1..n : t[i] = t[j] => i = j
      /\ IsInjective(u) <=> \A i, j \in 1..(m + n) : u[i] = u[j] => i = j
  <2>1. /\ ToSet(s) = {s[i] : i \in 1..m}
        /\ IsInjective(s) <=> \A i, j \in 1..m : s[i] = s[j] => i = j
    BY <1>2, ListIs
  <2>2. /\ ToSet(t) = {t[i] : i \in 1..n}
        /\ IsInjective(t) <=> \A i, j \in 1..n : t[i] = t[j] => i = j
    BY <1>2, ListIs
  <2>3. PICK k \in Nat : k = m + n /\ Len(u) = k
    BY <1>3
  <2>4. /\ ToSet(u) = {u[i] : i \in 1..k}
        /\ IsInjective(u) <=> \A i, j \in 1..k : u[i] = u[j] => i = j
    BY <1>3, <2>3, ListIs
  <2> QED
    BY <2>1, <2>2, <2>3, <2>4
<1>8. ToSet(u) = ToSet(s) \cup ToSet(t)
  <2>1. ASSUME NEW i \in 1..(m + n) PROVE u[i] \in ToSet(s) \cup ToSet(t)
    <3>1. CASE i \in 1..m
      <4>1. u[i] = s[i]
        BY <1>4, <3>1
      <4> QED
        BY <1>7, <3>1, <4>1
    <3>2. CASE i \notin 1..m
      <4>1. PICK j \in 1..n : i = m + j
        BY <1>6, <3>2
      <4>2. u[i] = t[j]
        BY <1>5, <4>1
      <4> QED
        BY <1>7, <4>2
    <3> QED
      BY <3>1, <3>2
  <2>2. ASSUME NEW i \in 1..m PROVE s[i] \in ToSet(u)
    <3>1. i \in 1..(m + n) /\ s[i] = u[i]
      BY <1>4
    <3>2. u[i] \in ToSet(u)
      BY <1>7, <3>1
    <3> QED
      BY <3>1, <3>2
  <2>3. ASSUME NEW i \in 1..n PROVE t[i] \in ToSet(u)
    <3>1. m + i \in 1..(m + n) /\ t[i] = u[m + i]
      BY <1>5
    <3>2. u[m + i] \in ToSet(u)
      BY <1>7, <3>1
    <3> QED
      BY <3>1, <3>2
  <2>4. ToSet(u) \subseteq ToSet(s) \cup ToSet(t)
    BY <1>7, <2>1
  <2>5. ToSet(s) \subseteq ToSet(u) /\ ToSet(t) \subseteq ToSet(u)
    BY <1>7, <2>2, <2>3
  <2> QED
    BY <2>4, <2>5
<1>9. ASSUME IsInjective(s), IsInjective(t), ToSet(s) \cap ToSet(t) = {}
      PROVE  IsInjective(u)
  <2>1. \A i \in 1..m, j \in 1..n : u[i] # u[m + j]
    <3> TAKE i \in 1..m, j \in 1..n
    <3>1. u[i] = s[i] /\ u[m + j] = t[j]
      BY <1>4, <1>5
    <3>2. s[i] \in ToSet(s) /\ t[j] \in ToSet(t)
      BY <1>7
    <3> QED
      BY <1>9, <3>1, <3>2
  <2>2. \A i, j \in 1..m : u[i] = u[j] => i = j
    BY <1>4, <1>7, <1>9
  <2>3. \A i, j \in 1..n : u[m + i] = u[m + j] => i = j
    BY <1>5, <1>7, <1>9
  <2> SUFFICES ASSUME NEW i \in 1..(m + n), NEW j \in 1..(m + n), u[i] = u[j] PROVE i = j
    BY <1>7
  <2>4. CASE i \in 1..m /\ j \in 1..m
    BY <2>2, <2>4
  <2>5. CASE i \in 1..m /\ j \notin 1..m
    BY <1>6, <2>1, <2>5
  <2>6. CASE i \notin 1..m /\ j \in 1..m
    BY <1>6, <2>1, <2>6
  <2>7. CASE i \notin 1..m /\ j \notin 1..m
    BY <1>6, <2>3, <2>7
  <2> QED
    BY <2>4, <2>5, <2>6, <2>7
<1> QED
  BY <1>1, <1>2, <1>3, <1>4, <1>8, <1>9

\* A finite set as a list: each once, and no other.
LEMMA SetToSeqIs ==
    ASSUME NEW S, IsFiniteSet(S)
    PROVE  /\ SetToSeq(S) \in Seq(S) /\ ToSet(SetToSeq(S)) = S
           /\ IsInjective(SetToSeq(S))
<1>1. PICK n \in Nat : n = Cardinality(S)
  BY FS_CardinalityType
<1>2. PICK g : g \in Bijection(1..n, S)
  BY <1>1, FS_CardinalityType DEF ExistsBijection
<1>3. g \in [1..n -> S] /\ IsInjective(g)
  BY <1>2 DEF Bijection, Injection
<1>4. PICK f : f = SetToSeq(S)
  OBVIOUS
<1>5. f \in [1..n -> S] /\ IsInjective(f)
  BY <1>1, <1>3, <1>4 DEF SetToSeq
<1>6. f \in Injection(1..n, S)
  BY <1>5 DEF Injection
<1>7. IsFiniteSet(1..n) /\ Cardinality(1..n) = n
  <2>1. ExistsBijection(1..n, 1..n)
    <3>1. PICK h : h = [i \in 1..n |-> i]
      OBVIOUS
    <3>2. h \in Bijection(1..n, 1..n)
      BY <3>1 DEF Bijection, Injection, Surjection, IsInjective
    <3> QED
      BY <3>2 DEF ExistsBijection
  <2> QED
    BY <2>1, FS_NatBijection, FS_CountingElements
<1>8. f \in Surjection(1..n, S)
  BY <1>1, <1>6, <1>7, FS_Injection
<1>9. f \in Seq(S) /\ DOMAIN f = 1..n
  BY <1>5, SeqDef
<1>10. ToSet(f) = S
  BY <1>5, <1>8, <1>9 DEF ToSet, Surjection
<1> QED
  BY <1>4, <1>5, <1>9, <1>10

\* The list without these games: the others of it, each once if it had each once.
LEMMA WithoutIs ==
    ASSUME NEW S, NEW list \in Seq(S), NEW games
    PROVE  /\ Without(list, games) \in Seq(S)
           /\ ToSet(Without(list, games)) = ToSet(list) \ games
           /\ IsInjective(list) => IsInjective(Without(list, games))
<1> DEFINE OneMore(prev, n) == IF list[n] \in games THEN prev ELSE Append(prev, list[n])
           Step(f, m) == f = [n \in 0..m |-> IF n = 0 THEN <<>> ELSE OneMore(f[n - 1], n)]
           Exists == {m \in Nat : \E f : Step(f, m)}
<1>0. PICK len \in Nat : len = Len(list)
  OBVIOUS
<1>1. 0 \in Exists
  <2>1. PICK f : f = [n \in 0..0 |-> <<>>]
    OBVIOUS
  <2>2. Step(f, 0)
    BY <2>1
  <2> QED
    BY <2>2
<1>2. ASSUME NEW m \in Exists PROVE m + 1 \in Exists
  <2> HIDE DEF OneMore
  <2>1. PICK f : Step(f, m)
    OBVIOUS
  <2>2. PICK g : g = [i \in 0..(m + 1) |-> IF i = m + 1 THEN OneMore(f[m], m + 1) ELSE f[i]]
    OBVIOUS
  <2>3. ASSUME NEW i \in 0..(m + 1)
        PROVE  g[i] = IF i = 0 THEN <<>> ELSE OneMore(g[i - 1], i)
    <3>1. CASE i = m + 1
      <4>1. i # 0 /\ i - 1 = m /\ m \in 0..(m + 1) /\ m # m + 1
        BY <3>1
      <4>2. g[m] = f[m] /\ g[i] = OneMore(f[m], i)
        BY <2>2, <3>1, <4>1
      <4> QED
        BY <4>1, <4>2
    <3>2. CASE i # m + 1
      <4>1. i \in 0..m
        BY <3>2
      <4>2. g[i] = f[i] /\ f[i] = IF i = 0 THEN <<>> ELSE OneMore(f[i - 1], i)
        BY <2>1, <2>2, <3>2, <4>1
      <4>3. i # 0 => i - 1 \in 0..(m + 1) /\ i - 1 # m + 1
        BY <4>1
      <4>4. i # 0 => g[i - 1] = f[i - 1]
        BY <2>2, <4>3
      <4> QED
        BY <4>2, <4>4
    <3> QED
      BY <3>1, <3>2
  <2>4. Step(g, m + 1)
    <3>1. g = [i \in 0..(m + 1) |-> g[i]]
      BY <2>2
    <3> QED
      BY <2>3, <3>1
  <2> QED
    BY <2>4
<1>3. Exists = Nat
  <2>1. \A m \in Exists : m + 1 \in Exists
    BY <1>2
  <2>2. Exists \subseteq Nat
    OBVIOUS
  <2> HIDE DEF Exists
  <2> QED
    BY <1>1, <2>1, <2>2, Induction
<1>4. \E f : Step(f, len)
  BY <1>0, <1>3
<1>5. PICK partial : partial = CHOOSE f : Step(f, len)
  OBVIOUS
<1>6. Step(partial, len)
  <2> HIDE DEF Step
  <2> QED
    BY <1>4, <1>5
<1>7. Without(list, games) = partial[len]
  BY <1>0, <1>5 DEF Without
<1> HIDE DEF Exists
<1> DEFINE Rest(n) == {list[i] : i \in {k \in 1..n : list[k] \notin games}}
           Good(n) == /\ partial[n] \in Seq(S) /\ ToSet(partial[n]) = Rest(n)
                      /\ IsInjective(list) => IsInjective(partial[n])
           T == {n \in Nat : n <= len => Good(n)}
<1>8. 0 \in T
  <2>1. partial[0] = <<>>
    BY <1>6
  <2>2. Rest(0) = {}
    OBVIOUS
  <2>3. <<>> \in Seq(S) /\ ToSet(<<>>) = {} /\ IsInjective(<<>>)
    BY DEF ToSet, IsInjective
  <2> QED
    BY <2>1, <2>2, <2>3
<1>9. ASSUME NEW n \in T PROVE n + 1 \in T
  <2> SUFFICES ASSUME n + 1 <= len PROVE Good(n + 1)
    OBVIOUS
  <2>1. /\ n \in Nat /\ n <= len /\ n + 1 \in 0..len /\ n + 1 \in 1..len /\ n + 1 # 0
        /\ (n + 1) - 1 = n
    OBVIOUS
  <2>2. PICK e : e = list[n + 1]
    OBVIOUS
  <2>3. PICK s : s = partial[n]
    OBVIOUS
  <2>4. /\ s \in Seq(S) /\ ToSet(s) = Rest(n) /\ (IsInjective(list) => IsInjective(s))
    BY <2>1, <2>3
  <2>5. e \in S
    BY <1>0, <2>1, <2>2, ElementOfSeq
  <2>6. partial[n + 1] = IF e \in games THEN s ELSE Append(s, e)
    BY <1>6, <2>1, <2>2, <2>3
  <2>7. Rest(n + 1) = IF e \in games THEN Rest(n) ELSE Rest(n) \cup {e}
    <3>1. \A i \in 1..(n + 1) : i \in 1..n \/ i = n + 1
      BY <2>1
    <3>2. \A i \in 1..n : i \in 1..(n + 1)
      BY <2>1
    <3>3. n + 1 \in 1..(n + 1)
      BY <2>1
    <3> QED
      BY <2>2, <3>1, <3>2, <3>3
  <2>8. ASSUME IsInjective(list) PROVE e \notin Rest(n)
    <3>1. ASSUME NEW i \in 1..n PROVE list[i] # e
      <4>1. i \in 1..len /\ i # n + 1
        BY <2>1
      <4> QED
        BY <1>0, <2>1, <2>2, <2>8, <4>1, ListIs
    <3> QED
      BY <3>1
  <2> HIDE DEF Rest
  <2>9. CASE e \in games
    BY <2>3, <2>4, <2>6, <2>7, <2>9
  <2>10. CASE e \notin games
    <3>1. PICK t : t = Append(s, e)
      OBVIOUS
    <3>2. /\ t \in Seq(S) /\ ToSet(t) = ToSet(s) \cup {e}
          /\ IsInjective(s) /\ e \notin ToSet(s) => IsInjective(t)
      BY <2>4, <2>5, <3>1, ListAppends
    <3> QED
      BY <2>4, <2>6, <2>7, <2>8, <2>10, <3>1, <3>2
  <2> QED
    BY <2>9, <2>10
<1>10. T = Nat
  <2>1. \A n \in T : n + 1 \in T
    BY <1>9
  <2>2. T \subseteq Nat
    OBVIOUS
  <2> HIDE DEF T
  <2> QED
    BY <1>8, <2>1, <2>2, Induction
<1>11. Good(len)
  <2>1. len \in T
    BY <1>10
  <2> QED
    BY <2>1
<1>12. Rest(len) = ToSet(list) \ games
  BY <1>0, ListIs
<1> QED
  BY <1>7, <1>11, <1>12

\* What a search answers: each game once, the one whose id was typed among them, and
\* nothing only if nothing matches.
LEMMA FindIs ==
    ASSUME FollowDialogAssumption, NEW q \in Queries
    PROVE  /\ Find(q) \in Seq(Games) /\ IsInjective(Find(q))
           /\ Exact[q] \subseteq ToSet(Find(q))
           /\ Find(q) = <<>> => Named[q] = <<>> /\ Exact[q] = {}
<1>1. PICK named : named = Named[q]
  OBVIOUS
<1>2. PICK ids : ids = Exact[q]
  OBVIOUS
<1>3. /\ named \in Seq(Games) /\ IsInjective(named) /\ MaxResults \in Nat /\ MaxResults > 0
      /\ \A g, h \in ids : g = h
  BY <1>1, <1>2 DEF FollowDialogAssumption
<1>4. ids \subseteq Games
  BY <1>2 DEF Games
<1>5. IsFiniteSet(ids)
  <2>1. CASE ids = {}
    BY <2>1, FS_EmptySet
  <2>2. CASE ids # {}
    <3>1. PICK g : g \in ids
      BY <2>2
    <3>2. ids = {g}
      BY <1>3, <3>1
    <3> QED
      BY <3>2, FS_Singleton
  <2> QED
    BY <2>1, <2>2
<1>6. PICK exact : exact = SetToSeq(ids)
  OBVIOUS
<1>7. exact \in Seq(Games) /\ ToSet(exact) = ids /\ IsInjective(exact)
  <2>1. exact \in Seq(ids) /\ ToSet(exact) = ids /\ IsInjective(exact)
    BY <1>5, <1>6, SetToSeqIs
  <2>2. exact \in Seq(Games)
    <3>1. \A i \in 1..Len(exact) : exact[i] \in Games
      BY <1>4, <2>1, ElementOfSeq
    <3>2. exact \in [1..Len(exact) -> Games] /\ Len(exact) \in Nat
      BY <2>1, <3>1, LenProperties
    <3> QED
      BY <3>2, SeqDef
  <2> QED
    BY <2>1, <2>2
<1>8. PICK rest : rest = Without(named, ids)
  OBVIOUS
<1>9. rest \in Seq(Games) /\ ToSet(rest) = ToSet(named) \ ids /\ IsInjective(rest)
  BY <1>3, <1>8, WithoutIs
<1>10. PICK found : found = exact \o rest
  OBVIOUS
<1>11. /\ found \in Seq(Games) /\ ToSet(found) = ids \cup (ToSet(named) \ ids)
       /\ IsInjective(found) /\ Len(found) = Len(exact) + Len(rest)
       /\ \A i \in 1..Len(exact) : found[i] = exact[i]
  <2>1. ToSet(exact) \cap ToSet(rest) = {}
    BY <1>7, <1>9
  <2> QED
    BY <1>7, <1>9, <1>10, <2>1, ListsJoin
<1>12. Len(found) \in Nat /\ Len(exact) \in Nat /\ Len(rest) \in Nat
  BY <1>7, <1>9, <1>11
<1>13. PICK k \in Nat : k = (IF Len(found) > MaxResults THEN MaxResults ELSE Len(found))
  BY <1>3, <1>12
<1>14. k <= Len(found) /\ (k = 0 => Len(found) = 0)
  BY <1>3, <1>12, <1>13
<1>15. PICK cut : cut = SubSeq(found, 1, k)
  OBVIOUS
<1>16. /\ cut \in Seq(Games) /\ Len(cut) = k
       /\ \A i \in 1..k : cut[i] = found[i]
  <2>1. \A i \in 1..k : found[i] \in Games
    BY <1>11, <1>12, <1>14, ElementOfSeq
  <2>2. /\ cut \in Seq(Games) /\ Len(cut) = IF 1 <= k THEN k - 1 + 1 ELSE 0
        /\ \A i \in 1..(k - 1 + 1) : cut[i] = found[1 + i - 1]
    <3>1. 1 \in Int /\ k \in Int
      OBVIOUS
    <3> QED
      BY <1>15, <2>1, <3>1, SubSeqProperties
  <2>3. Len(cut) = k
    BY <2>2
  <2>4. \A i \in 1..k : i \in 1..(k - 1 + 1) /\ 1 + i - 1 = i
    OBVIOUS
  <2> QED
    BY <2>2, <2>3, <2>4
<1>17. Find(q) = cut
  BY <1>1, <1>2, <1>6, <1>8, <1>10, <1>13, <1>15 DEF Find
<1>18. IsInjective(cut)
  <2>1. \A i \in 1..k : i \in 1..Len(found)
    BY <1>12, <1>14
  <2>2. \A i, j \in 1..Len(found) : found[i] = found[j] => i = j
    BY <1>11, ListIs
  <2>3. \A i, j \in 1..Len(cut) : cut[i] = cut[j] => i = j
    BY <1>16, <2>1, <2>2
  <2> QED
    BY <1>16, <2>3, ListIs
<1>19. ids \subseteq ToSet(cut)
  <2> SUFFICES ASSUME NEW g \in ids PROVE g \in ToSet(cut)
    OBVIOUS
  <2>1. PICK i \in 1..Len(exact) : exact[i] = g
    BY <1>7, ListIs
  <2>2. 1 \in 1..Len(exact) /\ Len(found) # 0
    BY <1>11, <1>12, <2>1
  <2>3. exact[1] = g
    <3>1. exact[1] \in {exact[j] : j \in 1..Len(exact)}
      BY <2>2
    <3>2. exact[1] \in ids
      BY <1>7, <3>1, ListIs
    <3> QED
      BY <1>3, <3>2
  <2>4. 1 \in 1..k
    BY <1>14, <2>2
  <2>5. cut[1] = g
    BY <1>11, <1>16, <2>2, <2>3, <2>4
  <2>6. ToSet(cut) = {cut[j] : j \in 1..k}
    BY <1>16, ListIs
  <2> QED
    BY <2>4, <2>5, <2>6
<1>20. ASSUME cut = <<>> PROVE named = <<>> /\ ids = {}
  <2>1. Len(found) = 0
    BY <1>14, <1>16, <1>20
  <2>2. ToSet(found) = {}
    <3>1. ToSet(found) = {found[i] : i \in 1..Len(found)}
      BY <1>11, ListIs
    <3>2. 1..Len(found) = {}
      BY <2>1
    <3> QED
      BY <3>1, <3>2
  <2>3. ids = {} /\ ToSet(named) = {}
    BY <1>11, <2>2
  <2>4. Len(named) = 0
    <3>1. Len(named) \in Nat
      BY <1>3
    <3>2. Len(named) # 0 => 1 \in 1..Len(named)
      BY <3>1
    <3> QED
      BY <1>3, <2>3, <3>2, ListIs
  <2> QED
    BY <1>3, <2>3, <2>4
<1> QED
  BY <1>1, <1>2, <1>16, <1>17, <1>18, <1>19, <1>20

-----------------------------------------------------------------------------
\* The dialog's fields.
Dialog(o, q, d, p, s, f) ==
    [opened |-> o, query |-> q, debounced |-> d, picked |-> p, saving |-> s, failed |-> f]

\* A search that is heeded is of the words that have settled, so whatever answers it.
AskedOf(a, words) == /\ a = [of |-> a.of, live |-> a.live] /\ a.of \in Queries
                     /\ a.live => a.of = words

SearchInv ==
    /\ dialog = Dialog(dialog.opened, dialog.query, dialog.debounced, dialog.picked,
                       dialog.saving, dialog.failed)
    /\ dialog.query \in Queries \cup {Empty}
    /\ search = [state |-> search.state, of |-> search.of, games |-> search.games]
    /\ search.games \in Seq(Games)
    /\ \A a \in asked : AskedOf(a, dialog.debounced)
    /\ SearchIsHonest

\* A follow call; and what it is for, which as long as it looks up is among what it found
\* or was followed, or has been unfollowed since.
GoodCall(f) ==
    /\ f = [ids |-> f.ids, by |-> f.by, stage |-> f.stage, found |-> f.found]
    /\ IsFiniteSet(f.ids) /\ f.ids \subseteq Games /\ f.found \subseteq f.ids
Kept(f) ==
    f.by = "dialog" =>
        /\ f.stage = "looking" =>
              f.ids \cap twitch \subseteq f.found \cup ToSet(followed) \cup removed
        /\ f.stage = "done" => f.ids \cap twitch \subseteq ToSet(followed) \cup removed

\* The dialog has one call under way at the most, and saves while it has.
FollowInv ==
    /\ IsFiniteSet(dialog.picked) /\ dialog.picked \subseteq Games
    /\ followed \in Seq(Games) /\ FollowedOnce
    /\ \A f \in followCalls : GoodCall(f) /\ Kept(f)
    /\ \A f \in followCalls : f.by = "dialog" => dialog.saving = TRUE
    /\ \A f, g \in followCalls : f.by = "dialog" /\ g.by = "dialog" => f = g

\* The dialog's own steps leave the search alone.
LEMMA DialogKeepsSearch ==
    ASSUME SearchInv, UNCHANGED <<search, asked>>, NEW o, NEW q, NEW p, NEW s, NEW f,
           q \in Queries \cup {Empty}, dialog' = Dialog(o, q, dialog.debounced, p, s, f)
    PROVE  SearchInv'
<1>1. PICK d : d = Dialog(o, q, dialog.debounced, p, s, f)
  OBVIOUS
<1>2. /\ d.query = q /\ d.debounced = dialog.debounced
      /\ d = Dialog(d.opened, d.query, d.debounced, d.picked, d.saving, d.failed)
  BY <1>1 DEF Dialog
<1>3. dialog' = d
  BY <1>1
<1> QED
  BY <1>2, <1>3 DEF SearchInv, SearchIsHonest

LEMMA SearchStep == ASSUME FollowDialogAssumption, SearchInv, [DialogNext]_dialogVars
                    PROVE  SearchInv'
<1>0. /\ dialog = Dialog(dialog.opened, dialog.query, dialog.debounced, dialog.picked,
                         dialog.saving, dialog.failed)
      /\ dialog.query \in Queries \cup {Empty}
      /\ search = [state |-> search.state, of |-> search.of, games |-> search.games]
      /\ search.games \in Seq(Games) /\ SearchIsHonest
  BY DEF SearchInv
<1>1. CASE Types
  <2>1. PICK q \in Queries \cup {Empty} : dialog' = [dialog EXCEPT !.query = q]
    BY <1>1 DEF Types
  <2>2. PICK d : d = [dialog EXCEPT !.query = q]
    OBVIOUS
  <2>3. d = Dialog(dialog.opened, q, dialog.debounced, dialog.picked, dialog.saving,
                   dialog.failed)
    BY <1>0, <2>2 DEF Dialog
  <2>4. UNCHANGED <<search, asked>>
    BY <1>1 DEF Types
  <2>5. dialog' = Dialog(dialog.opened, q, dialog.debounced, dialog.picked, dialog.saving,
                         dialog.failed)
    BY <2>1, <2>2, <2>3
  <2> QED
    BY <2>4, <2>5, DialogKeepsSearch
<1>2. CASE Opens \/ Toggles \/ DialogCloses \/ Confirms \/ Returns
  <2>1. UNCHANGED <<search, asked>>
    BY <1>2 DEF Opens, Toggles, DialogCloses, Confirms, Returns
  <2>2. PICK d : d = dialog'
    OBVIOUS
  <2>3. /\ d = Dialog(d.opened, d.query, dialog.debounced, d.picked, d.saving, d.failed)
        /\ d.query \in {dialog.query, Empty}
    <3>1. CASE Opens
      BY <1>0, <2>2, <3>1 DEF Opens, Dialog
    <3>2. CASE Toggles
      <4>1. PICK g : d = [dialog EXCEPT !.picked = IF g \in @ THEN @ \ {g} ELSE @ \cup {g}]
        BY <2>2, <3>2 DEF Toggles
      <4> QED
        BY <1>0, <4>1 DEF Dialog
    <3>3. CASE DialogCloses
      BY <1>0, <2>2, <3>3 DEF DialogCloses, Shut, Dialog
    <3>4. CASE Confirms
      BY <1>0, <2>2, <3>4 DEF Confirms, Dialog
    <3>5. CASE Returns
      <4>1. PICK freed : freed = [dialog EXCEPT !.saving = FALSE]
        OBVIOUS
      <4>2. /\ freed = Dialog(freed.opened, freed.query, freed.debounced, freed.picked,
                              freed.saving, freed.failed)
            /\ freed.query = dialog.query /\ freed.debounced = dialog.debounced
        BY <1>0, <4>1 DEF Dialog
      <4>3. d = Shut(freed) \/ d = [freed EXCEPT !.failed = TRUE]
        BY <2>2, <3>5, <4>1 DEF Returns
      <4>4. CASE d = Shut(freed)
        BY <4>2, <4>4 DEF Shut, Dialog
      <4>5. CASE d = [freed EXCEPT !.failed = TRUE]
        BY <4>2, <4>5 DEF Dialog
      <4> QED
        BY <4>3, <4>4, <4>5
    <3> QED
      BY <1>2, <3>1, <3>2, <3>3, <3>4, <3>5
  <2>4. d.query \in Queries \cup {Empty}
    BY <1>0, <2>3
  <2> QED
    BY <2>1, <2>2, <2>3, <2>4, DialogKeepsSearch
<1>3. CASE Settles
  <2>1. PICK q : q = dialog.query
    OBVIOUS
  <2>2. PICK older : older = {[a EXCEPT !.live = FALSE] : a \in asked}
    OBVIOUS
  <2>3. \A a \in older : a = [of |-> a.of, live |-> FALSE] /\ a.of \in Queries
    <3> SUFFICES ASSUME NEW b \in asked, NEW a, a = [b EXCEPT !.live = FALSE]
                 PROVE  a = [of |-> a.of, live |-> FALSE] /\ a.of \in Queries
      BY <2>2
    <3>1. b = [of |-> b.of, live |-> b.live] /\ b.of \in Queries
      BY DEF SearchInv, AskedOf
    <3> QED
      BY <3>1
  <2>4. PICK d : d = [dialog EXCEPT !.debounced = q]
    OBVIOUS
  <2>5. /\ d = Dialog(d.opened, d.query, d.debounced, d.picked, d.saving, d.failed)
        /\ d.query = q /\ d.debounced = q /\ q \in Queries \cup {Empty}
    BY <1>0, <2>1, <2>4 DEF Dialog
  <2>6. PICK s : s = [state |-> IF q = Empty THEN "short" ELSE "loading",
                      of |-> q, games |-> <<>>]
    OBVIOUS
  <2>7. /\ s = [state |-> s.state, of |-> s.of, games |-> s.games]
        /\ s.games \in Seq(Games) /\ s.of = q /\ s.state # "done"
        /\ s.state = "loading" => q # Empty
    BY <2>6
  <2>8. PICK new : new = [of |-> q, live |-> TRUE]
    OBVIOUS
  <2>9. new.of = q /\ new.live /\ new = [of |-> new.of, live |-> new.live]
    BY <2>8
  <2>10. /\ dialog' = d /\ search' = s
         /\ asked' = IF q = Empty THEN older ELSE older \cup {new}
    BY <1>3, <2>1, <2>2, <2>4, <2>6, <2>8 DEF Settles
  <2>11. ASSUME NEW a \in asked' PROVE AskedOf(a, d.debounced)
    <3>1. CASE a \in older
      <4>1. a = [of |-> a.of, live |-> FALSE] /\ a.of \in Queries
        BY <2>3, <3>1
      <4>2. ~a.live /\ a.live = FALSE
        BY <4>1
      <4> QED
        BY <4>1, <4>2 DEF AskedOf
    <3>2. CASE a = new /\ q # Empty
      BY <2>5, <2>9, <3>2 DEF AskedOf
    <3> QED
      BY <2>10, <2>11, <3>1, <3>2
  <2>12. SearchIsHonest'
    <3>1. s.state = "loading" => \E a \in asked' : a.live /\ a.of = s.of
      BY <2>7, <2>9, <2>10
    <3> QED
      BY <2>7, <2>10, <3>1 DEF SearchIsHonest
  <2> QED
    BY <2>5, <2>7, <2>10, <2>11, <2>12 DEF SearchInv
<1>4. CASE SearchAnswers \/ SearchFails
  <2>1. PICK a \in asked :
            /\ asked' = asked \ {a}
            /\ \/ ~a.live /\ search' = search
               \/ a.live /\ search' = [state |-> "done", of |-> a.of, games |-> Find(a.of)]
               \/ a.live /\ search' = [search EXCEPT !.state = "error", !.games = <<>>]
    <3>1. CASE SearchAnswers
      BY <3>1 DEF SearchAnswers, Heeded
    <3>2. CASE SearchFails
      BY <3>2 DEF SearchFails, Heeded
    <3> QED
      BY <1>4, <3>1, <3>2
  <2>2. dialog' = dialog
    BY <1>4 DEF SearchAnswers, SearchFails
  <2>3. a.of \in Queries /\ (a.live => a.of = dialog.debounced)
    BY DEF SearchInv, AskedOf
  <2>4. \A b \in asked' : AskedOf(b, dialog'.debounced)
    BY <2>1, <2>2 DEF SearchInv
  <2>5. PICK s : s = search'
    OBVIOUS
  <2>6. CASE ~a.live /\ search' = search
    <3>1. search.state = "loading" => \E b \in asked' : b.live /\ b.of = search.of
      BY <2>1, <2>6 DEF SearchInv, SearchIsHonest
    <3>2. SearchIsHonest'
      BY <2>2, <2>6, <3>1 DEF SearchInv, SearchIsHonest
    <3> QED
      BY <1>0, <2>2, <2>4, <2>6, <3>2 DEF SearchInv
  <2>7. CASE a.live /\ s = [state |-> "done", of |-> a.of, games |-> Find(a.of)]
    <3>1. /\ s.state = "done" /\ s.of = a.of /\ s.games = Find(a.of)
          /\ s = [state |-> s.state, of |-> s.of, games |-> s.games]
      BY <2>7
    <3>2. /\ s.games \in Seq(Games) /\ IsInjective(s.games)
          /\ Exact[s.of] \subseteq ToSet(s.games)
          /\ s.games = <<>> => Named[s.of] = <<>> /\ Exact[s.of] = {}
      BY <2>3, <3>1, FindIs
    <3>3. SearchIsHonest'
      BY <2>2, <2>3, <2>5, <2>7, <3>1, <3>2 DEF SearchIsHonest
    <3>4. dialog' = Dialog(dialog'.opened, dialog'.query, dialog'.debounced, dialog'.picked,
                           dialog'.saving, dialog'.failed)
          /\ dialog'.query \in Queries \cup {Empty}
      BY <1>0, <2>2
    <3>5. search' = [state |-> search'.state, of |-> search'.of, games |-> search'.games]
          /\ search'.games \in Seq(Games)
      BY <2>5, <3>1, <3>2
    <3> QED
      BY <2>4, <3>3, <3>4, <3>5 DEF SearchInv
  <2>8. CASE a.live /\ s = [search EXCEPT !.state = "error", !.games = <<>>]
    <3>1. /\ s.state = "error" /\ s.games = <<>>
          /\ s = [state |-> s.state, of |-> s.of, games |-> s.games]
      BY <2>8 DEF SearchInv
    <3>2. SearchIsHonest'
      BY <2>5, <3>1 DEF SearchIsHonest
    <3>3. s.games \in Seq(Games)
      BY <3>1
    <3>4. dialog' = Dialog(dialog'.opened, dialog'.query, dialog'.debounced, dialog'.picked,
                           dialog'.saving, dialog'.failed)
          /\ dialog'.query \in Queries \cup {Empty}
      BY <1>0, <2>2
    <3>5. search' = [state |-> search'.state, of |-> search'.of, games |-> search'.games]
          /\ search'.games \in Seq(Games)
      BY <2>5, <3>1, <3>3
    <3> QED
      BY <2>4, <3>2, <3>4, <3>5 DEF SearchInv
  <2> QED
    BY <2>1, <2>5, <2>6, <2>7, <2>8
<1>5. CASE \/ LooksUp \/ LookupFails \/ Saves \/ FollowedElsewhere \/ UnfollowedElsewhere
           \/ GameGoes \/ UNCHANGED dialogVars
  <2>1. UNCHANGED <<dialog, search, asked>>
    BY <1>5 DEF LooksUp, LookupFails, Saves, FollowedElsewhere, UnfollowedElsewhere,
                GameGoes, dialogVars
  <2> QED
    BY <2>1 DEF SearchInv, SearchIsHonest
<1> QED
  BY <1>1, <1>2, <1>3, <1>4, <1>5 DEF DialogNext

-----------------------------------------------------------------------------
\* A step of the dialog that saves nothing and calls nobody.
LEMMA DialogKeepsFollows ==
    ASSUME FollowInv, UNCHANGED <<followed, followCalls, removed>>, twitch' \subseteq twitch,
           dialog'.saving = dialog.saving,
           IsFiniteSet(dialog'.picked), dialog'.picked \subseteq Games
    PROVE  FollowInv'
<1>1. \A f \in followCalls : Kept(f)'
  BY DEF FollowInv, Kept
<1>2. \A f \in followCalls : GoodCall(f)
  BY DEF FollowInv
<1>3. FollowedOnce'
  BY DEF FollowInv, FollowedOnce
<1> QED
  BY <1>1, <1>2, <1>3 DEF FollowInv, GoodCall

\* A call that goes on, whatever it has come to, when what is followed only grows.
LEMMA CallGoesOn ==
    ASSUME FollowInv, UNCHANGED <<dialog, removed, twitch>>, NEW f \in followCalls, NEW g,
           CallBecomes(f, g), GoodCall(g), g.by = f.by, Kept(g)',
           followed' \in Seq(Games), IsInjective(followed'),
           ToSet(followed) \subseteq ToSet(followed')
    PROVE  FollowInv'
<1>1. followCalls' = (followCalls \ {f}) \cup {g}
  BY DEF CallBecomes
<1>2. \A h \in followCalls : Kept(h)'
  BY DEF FollowInv, Kept
<1>3. \A h \in followCalls' : GoodCall(h) /\ Kept(h)'
  BY <1>1, <1>2 DEF FollowInv
<1>4. /\ \A h \in followCalls' : h.by = "dialog" => dialog'.saving = TRUE
      /\ \A h, k \in followCalls' : h.by = "dialog" /\ k.by = "dialog" => h = k
  <2>1. /\ \A h \in followCalls : h.by = "dialog" => dialog.saving = TRUE
        /\ \A h, k \in followCalls : h.by = "dialog" /\ k.by = "dialog" => h = k
    BY DEF FollowInv
  <2>2. \A h \in followCalls' : h = g \/ (h \in followCalls /\ h # f)
    BY <1>1
  <2>3. dialog'.saving = dialog.saving
    OBVIOUS
  <2>4. \A h \in followCalls' : h.by = "dialog" => dialog'.saving = TRUE
    BY <2>1, <2>2, <2>3
  <2> SUFFICES ASSUME NEW h \in followCalls', NEW k \in followCalls',
                      h.by = "dialog", k.by = "dialog"
               PROVE  h = k
    BY <2>4
  <2> QED
    BY <2>1, <2>2
<1>5. IsFiniteSet(dialog'.picked) /\ dialog'.picked \subseteq Games
  BY DEF FollowInv
<1>6. \A h \in followCalls' : GoodCall(h)'
  BY <1>3 DEF GoodCall
<1> QED
  BY <1>3, <1>4, <1>5, <1>6 DEF FollowInv, FollowedOnce

LEMMA FollowStep ==
    ASSUME FollowDialogAssumption, SearchInv, FollowInv, [DialogNext]_dialogVars
    PROVE  FollowInv'
<1>0. /\ dialog = Dialog(dialog.opened, dialog.query, dialog.debounced, dialog.picked,
                         dialog.saving, dialog.failed)
      /\ search.games \in Seq(Games) /\ IsFiniteSet(dialog.picked)
      /\ dialog.picked \subseteq Games
  BY DEF SearchInv, FollowInv
<1>c. \A f \in followCalls :
         /\ f = [ids |-> f.ids, by |-> f.by, stage |-> f.stage, found |-> f.found]
         /\ IsFiniteSet(f.ids) /\ f.ids \subseteq Games /\ f.found \subseteq f.ids
  BY DEF FollowInv, GoodCall
<1>t. /\ followed \in Seq(Games) /\ IsInjective(followed) /\ ToSet(followed) \subseteq Games
  BY ListIs DEF FollowInv, FollowedOnce
<1>1. CASE \/ Types \/ Settles \/ SearchAnswers \/ SearchFails \/ Opens \/ Toggles
           \/ DialogCloses \/ GameGoes \/ UNCHANGED dialogVars
  <2>1. UNCHANGED <<followed, followCalls, removed>> /\ twitch' \subseteq twitch
    BY <1>1 DEF Types, Settles, SearchAnswers, SearchFails, Opens, Toggles, DialogCloses,
                GameGoes, dialogVars
  <2>2. PICK d : d = dialog'
    OBVIOUS
  <2>3. d.saving = dialog.saving /\ d.picked \subseteq Games /\ IsFiniteSet(d.picked)
    <3>1. CASE Types
      <4>1. PICK q : d = [dialog EXCEPT !.query = q]
        BY <2>2, <3>1 DEF Types
      <4>2. d.saving = dialog.saving /\ d.picked = dialog.picked
        BY <1>0, <4>1 DEF Dialog
      <4> QED
        BY <1>0, <4>2
    <3>2. CASE Settles
      <4>1. d.saving = dialog.saving /\ d.picked = dialog.picked
        BY <1>0, <2>2, <3>2 DEF Dialog, Settles
      <4> QED
        BY <1>0, <4>1
    <3>3. CASE Opens
      <4>1. d.saving = dialog.saving /\ d.picked = dialog.picked
        BY <1>0, <2>2, <3>3 DEF Dialog, Opens
      <4> QED
        BY <1>0, <4>1
    <3>4. CASE Toggles
      <4>1. PICK g \in (ToSet(search.games) \ known) \cup dialog.picked :
               d = [dialog EXCEPT !.picked = IF g \in @ THEN @ \ {g} ELSE @ \cup {g}]
        BY <2>2, <3>4 DEF Toggles
      <4>2. d.saving = dialog.saving
            /\ d.picked \in {dialog.picked \ {g}, dialog.picked \cup {g}}
        BY <1>0, <4>1 DEF Dialog
      <4>3. g \in Games
        BY <1>0, <4>1, ListIs
      <4>4. IsFiniteSet(dialog.picked \ {g}) /\ IsFiniteSet(dialog.picked \cup {g})
        BY <1>0, FS_AddElement, FS_RemoveElement
      <4> QED
        BY <1>0, <4>2, <4>3, <4>4
    <3>5. CASE DialogCloses
      <4>1. d.saving = dialog.saving /\ d.picked = {}
        BY <1>0, <2>2, <3>5 DEF Dialog, DialogCloses, Shut
      <4> QED
        BY <4>1, FS_EmptySet
    <3>6. CASE SearchAnswers \/ SearchFails \/ GameGoes \/ UNCHANGED dialogVars
      BY <1>0, <2>2, <3>6 DEF SearchAnswers, SearchFails, GameGoes, dialogVars
    <3> QED
      BY <1>1, <3>1, <3>2, <3>3, <3>4, <3>5, <3>6
  <2> QED
    BY <2>1, <2>2, <2>3, DialogKeepsFollows
<1>2. CASE Confirms
  <2>1. PICK d : d = [dialog EXCEPT !.saving = TRUE, !.failed = FALSE]
    OBVIOUS
  <2>2. d.saving = TRUE /\ d.picked = dialog.picked
    BY <1>0, <2>1 DEF Dialog
  <2>3. PICK c : c = Call(dialog.picked, "dialog")
    OBVIOUS
  <2>4. c.by = "dialog" /\ c.stage = "sent" /\ GoodCall(c)
    BY <1>0, <2>3 DEF Call, GoodCall
  <2>5. /\ dialog' = d /\ followCalls' = followCalls \cup {c} /\ removed' = {}
        /\ UNCHANGED <<followed, twitch>> /\ ~dialog.saving
    BY <1>2, <2>1, <2>3 DEF Confirms
  <2>6. \A f \in followCalls : f.by # "dialog"
    BY <2>5 DEF FollowInv
  <2>7. \A f \in followCalls' : GoodCall(f) /\ Kept(f)'
    BY <2>4, <2>5, <2>6 DEF FollowInv, Kept
  <2>8. \A f \in followCalls' : f.by = "dialog" => f = c
    BY <2>5, <2>6
  <2>9. IsFiniteSet(dialog'.picked) /\ dialog'.picked \subseteq Games /\ dialog'.saving = TRUE
    BY <1>0, <2>2, <2>5
  <2>10. \A f \in followCalls' : GoodCall(f)'
    BY <2>7 DEF GoodCall
  <2> QED
    BY <1>t, <2>5, <2>7, <2>8, <2>9, <2>10 DEF FollowInv, FollowedOnce
<1>3. CASE Returns
  <2>1. PICK f \in followCalls :
            /\ f.by = "dialog" /\ followCalls' = followCalls \ {f}
            /\ dialog' = LET freed == [dialog EXCEPT !.saving = FALSE]
                         IN  IF f.stage = "done" THEN Shut(freed)
                             ELSE [freed EXCEPT !.failed = TRUE]
            /\ UNCHANGED <<twitch, followed, removed>>
    BY <1>3 DEF Returns
  <2>2. PICK d : d = dialog'
    OBVIOUS
  <2>3. d.picked \in {{}, dialog.picked}
    <3>1. PICK freed : freed = [dialog EXCEPT !.saving = FALSE]
      OBVIOUS
    <3>2. /\ freed = Dialog(freed.opened, freed.query, freed.debounced, freed.picked,
                            freed.saving, freed.failed)
          /\ freed.picked = dialog.picked
      BY <1>0, <3>1 DEF Dialog
    <3>3. d = Shut(freed) \/ d = [freed EXCEPT !.failed = TRUE]
      BY <2>1, <2>2, <3>1
    <3>4. CASE d = Shut(freed)
      BY <3>2, <3>4 DEF Shut, Dialog
    <3>5. CASE d = [freed EXCEPT !.failed = TRUE]
      BY <3>2, <3>5 DEF Dialog
    <3> QED
      BY <3>3, <3>4, <3>5
  <2>4. IsFiniteSet(d.picked) /\ d.picked \subseteq Games
    BY <1>0, <2>3, FS_EmptySet
  <2>5. \A g \in followCalls' : g.by # "dialog"
    BY <2>1 DEF FollowInv
  <2>6. \A g \in followCalls' : GoodCall(g) /\ Kept(g)'
    BY <2>1, <2>5 DEF FollowInv, Kept
  <2>7. \A g \in followCalls' : GoodCall(g)'
    BY <2>6 DEF GoodCall
  <2> QED
    BY <1>t, <2>1, <2>2, <2>4, <2>5, <2>6, <2>7 DEF FollowInv, FollowedOnce
<1>4. CASE LooksUp \/ LookupFails
  <2>1. UNCHANGED <<dialog, removed, twitch, followed>>
    BY <1>4 DEF LooksUp, LookupFails
  <2>a. PICK f \in followCalls :
            \/ CallBecomes(f, [f EXCEPT !.stage = "failed"])
            \/ CallBecomes(f, [f EXCEPT !.stage = "looking",
                                        !.found = (f.ids \ ToSet(followed)) \cap twitch])
    <3>1. CASE LooksUp
      BY <3>1 DEF LooksUp
    <3>2. CASE LookupFails
      BY <3>2 DEF LookupFails
    <3> QED
      BY <1>4, <3>1, <3>2
  <2>2. PICK g :
            /\ CallBecomes(f, g)
            /\ \/ g = [f EXCEPT !.stage = "failed"]
               \/ g = [f EXCEPT !.stage = "looking",
                                !.found = (f.ids \ ToSet(followed)) \cap twitch]
    BY <2>a
  <2>3. /\ GoodCall(g) /\ g.by = f.by /\ g.ids = f.ids
        /\ \/ g.stage = "failed"
           \/ g.stage = "looking" /\ g.found = (f.ids \ ToSet(followed)) \cap twitch
    <3>1. /\ f = [ids |-> f.ids, by |-> f.by, stage |-> f.stage, found |-> f.found]
          /\ IsFiniteSet(f.ids) /\ f.ids \subseteq Games /\ f.found \subseteq f.ids
      BY <1>c
    <3>2. CASE g = [f EXCEPT !.stage = "failed"]
      <4>1. g = [ids |-> f.ids, by |-> f.by, stage |-> "failed", found |-> f.found]
        BY <3>1, <3>2
      <4> QED
        BY <3>1, <4>1 DEF GoodCall
    <3>3. CASE g = [f EXCEPT !.stage = "looking",
                             !.found = (f.ids \ ToSet(followed)) \cap twitch]
      <4>1. PICK found : found = (f.ids \ ToSet(followed)) \cap twitch /\ found \subseteq f.ids
        OBVIOUS
      <4>2. g = [ids |-> f.ids, by |-> f.by, stage |-> "looking", found |-> found]
        BY <3>1, <3>3, <4>1
      <4> QED
        BY <3>1, <4>1, <4>2 DEF GoodCall
    <3> QED
      BY <2>2, <3>2, <3>3
  <2>4. Kept(g)'
    BY <2>1, <2>3 DEF Kept
  <2> QED
    BY <1>t, <2>1, <2>2, <2>3, <2>4, CallGoesOn
<1>5. CASE Saves
  <2>1. PICK f \in followCalls :
            /\ f.stage = "looking" /\ followed' = followed \o SetToSeq(Added(f))
            /\ CallBecomes(f, [f EXCEPT !.stage = "done"])
            /\ UNCHANGED <<dialog, removed, twitch>>
    BY <1>5 DEF Saves
  <2>2. PICK added : added = Added(f)
    OBVIOUS
  <2>3. /\ added = f.found \ ToSet(followed) /\ IsFiniteSet(added) /\ added \subseteq Games
    <3>1. added = f.found \ ToSet(followed) /\ added \subseteq f.ids
      BY <1>c, <2>2 DEF Added
    <3> QED
      BY <1>c, <3>1, FS_Subset
  <2>4. PICK t : t = SetToSeq(added)
    OBVIOUS
  <2>5. t \in Seq(added) /\ ToSet(t) = added /\ IsInjective(t)
    BY <2>3, <2>4, SetToSeqIs
  <2>6. t \in Seq(Games)
    <3>1. \A i \in 1..Len(t) : t[i] \in Games
      BY <2>3, <2>5, ElementOfSeq
    <3>2. t \in [1..Len(t) -> Games] /\ Len(t) \in Nat
      BY <2>5, <3>1, LenProperties
    <3> QED
      BY <3>2, SeqDef
  <2>7. PICK next : next = followed \o t
    OBVIOUS
  <2>8. next \in Seq(Games) /\ ToSet(next) = ToSet(followed) \cup added /\ IsInjective(next)
    <3>1. ToSet(followed) \cap ToSet(t) = {}
      BY <2>3, <2>5
    <3> QED
      BY <1>t, <2>5, <2>6, <2>7, <3>1, ListsJoin
  <2>9. followed' = next
    BY <2>1, <2>2, <2>4, <2>7
  <2>10. PICK g : g = [f EXCEPT !.stage = "done"]
    OBVIOUS
  <2>11. GoodCall(g) /\ g.by = f.by /\ g.ids = f.ids /\ g.stage = "done"
    <3>1. /\ f = [ids |-> f.ids, by |-> f.by, stage |-> f.stage, found |-> f.found]
          /\ IsFiniteSet(f.ids) /\ f.ids \subseteq Games /\ f.found \subseteq f.ids
      BY <1>c
    <3>2. g = [ids |-> f.ids, by |-> f.by, stage |-> "done", found |-> f.found]
      BY <2>10, <3>1
    <3> QED
      BY <3>1, <3>2 DEF GoodCall
  <2>12. Kept(g)'
    <3>1. f.by = "dialog" => f.ids \cap twitch \subseteq f.found \cup ToSet(followed) \cup removed
      BY <2>1 DEF FollowInv, Kept
    <3>2. f.found \subseteq ToSet(followed) \cup added
      BY <2>3
    <3>3. ToSet(followed)' = ToSet(followed) \cup added
      BY <2>8, <2>9
    <3> QED
      BY <2>1, <2>11, <3>1, <3>2, <3>3 DEF Kept
  <2>13. ToSet(followed) \subseteq ToSet(followed') /\ CallBecomes(f, g)
    BY <2>1, <2>8, <2>9, <2>10
  <2> QED
    BY <2>1, <2>8, <2>9, <2>11, <2>12, <2>13, CallGoesOn
<1>6. CASE FollowedElsewhere
  <2>1. PICK h \in Games : followCalls' = followCalls \cup {Call({h}, "another")}
    BY <1>6 DEF FollowedElsewhere
  <2>2. UNCHANGED <<dialog, twitch, followed, removed>>
    BY <1>6 DEF FollowedElsewhere
  <2>3. PICK c : c = Call({h}, "another")
    OBVIOUS
  <2>4. c.by = "another" /\ GoodCall(c)
    <3>1. IsFiniteSet({h})
      BY FS_Singleton
    <3> QED
      BY <2>1, <2>3, <3>1 DEF Call, GoodCall
  <2>5. \A f \in followCalls' : f \in followCalls \/ f = c
    BY <2>1, <2>3
  <2>6. \A f \in followCalls : Kept(f)'
    BY <2>2 DEF FollowInv, Kept
  <2>7. Kept(c)'
    BY <2>4 DEF Kept
  <2>8. \A f \in followCalls' : GoodCall(f) /\ GoodCall(f)' /\ Kept(f)'
    BY <2>4, <2>5, <2>6, <2>7 DEF FollowInv, GoodCall
  <2>9. \A f \in followCalls' : f.by = "dialog" => f \in followCalls
    BY <2>4, <2>5
  <2> QED
    BY <1>t, <2>2, <2>8, <2>9 DEF FollowInv, FollowedOnce
<1>7. CASE UnfollowedElsewhere
  <2>1. PICK h \in ToSet(followed) :
            followed' = Without(followed, {h}) /\ removed' = removed \cup {h}
    BY <1>7 DEF UnfollowedElsewhere
  <2>2. UNCHANGED <<dialog, twitch, followCalls>>
    BY <1>7 DEF UnfollowedElsewhere
  <2>3. PICK next : next = Without(followed, {h})
    OBVIOUS
  <2>4. next \in Seq(Games) /\ ToSet(next) = ToSet(followed) \ {h} /\ IsInjective(next)
    BY <1>t, <2>3, WithoutIs
  <2>5. followed' = next
    BY <2>1, <2>3
  <2>6. ToSet(followed) \cup removed \subseteq ToSet(followed') \cup removed'
    BY <2>1, <2>4, <2>5
  <2>7. \A f \in followCalls : Kept(f)'
    BY <2>2, <2>6 DEF FollowInv, Kept
  <2>8. \A f \in followCalls' : GoodCall(f)'
    BY <2>2 DEF FollowInv, GoodCall
  <2> QED
    BY <2>2, <2>4, <2>5, <2>7, <2>8 DEF FollowInv, FollowedOnce
<1> QED
  BY <1>1, <1>2, <1>3, <1>4, <1>5, <1>6, <1>7 DEF DialogNext

\* The dialog shows what was searched for and a follow it is told has worked has: for any
\* queries and what they match, any order of answers and failures, and any other tabs.
THEOREM FollowsStayHonest == DialogSpec => []FollowsAreHonest
<1>1. DialogInit => SearchInv /\ FollowInv
  <2> SUFFICES ASSUME DialogInit PROVE SearchInv /\ FollowInv
    OBVIOUS
  <2>1. /\ dialog = Dialog(FALSE, Empty, Empty, {}, FALSE, FALSE)
        /\ search = [state |-> "short", of |-> Empty, games |-> <<>>]
        /\ asked = {} /\ followed = <<>> /\ followCalls = {}
    BY DEF DialogInit, Dialog
  <2>2. SearchInv
    BY <2>1 DEF SearchInv, SearchIsHonest, Dialog
  <2>3. dialog.picked = {} /\ followed \in Seq(Games) /\ FollowedOnce
    BY <2>1 DEF Dialog, FollowedOnce, IsInjective
  <2>4. FollowInv
    BY <2>1, <2>3, FS_EmptySet DEF FollowInv
  <2> QED
    BY <2>2, <2>4
<1>2. SearchInv /\ FollowInv /\ [DialogNext]_dialogVars => (SearchInv /\ FollowInv)'
  BY SearchStep, FollowStep, FollowDialogAssumption
<1>3. SearchInv /\ FollowInv => FollowsAreHonest
  BY DEF SearchInv, FollowInv, FollowsAreHonest, FollowIsDone, Kept
<1> QED
  BY <1>1, <1>2, <1>3, PTL DEF DialogSpec
=============================================================================
