------------------------------- MODULE SignIn -------------------------------
(***************************************************************************)
(* Signing in to Twitch and out of it: the login runner with its helper    *)
(* process (helpers/loginRunner.ts, python/helpers/login.py), the routes   *)
(* that sign in, sign out and apply a config (http/server.ts), and what    *)
(* each sets in motion: the state helper, which keeps the account it was   *)
(* started with, and the miner, which reads the account when it is forked. *)
(*                                                                         *)
(* An attempt is a process that talks to Twitch and writes lines; its      *)
(* lines and its exit reach the runner later, the exit not necessarily     *)
(* after the lines.  The supervisor is a queue of operations, each one     *)
(* step when it ends (Supervisor has the detail); a pending restart is the *)
(* bit "proposed" (PendingRestart).  The polls that the state helper       *)
(* answers are in Refresh.                                                 *)
(***************************************************************************)
EXTENDS Integers, Sequences

CONSTANTS
    Names,        \* Twitch accounts
    NoName,       \* username: ""
    MaxAttempts,  \* bound: attempts of one run of the backend
    MaxOps        \* bound: operations waiting before the user asks for one more

ASSUME NamesAssumption == NoName \notin Names
ASSUME BoundsAssumption == MaxAttempts \in Nat /\ MaxOps \in Nat

Attempts == 1..MaxAttempts
NoMiner  == "no miner"
NoHelper == "no helper"
Accounts == Names \cup {NoName}

VARIABLES
    username,     \* config.json
    loggedIn,     \* LoginStatus
    child,        \* this.child: the attempt, 0 for none
    current,      \* this.current: its stage
    killTimer,    \* this.killTimer is set
    process,      \* of each attempt: what it does, its account, its signal
    lines,        \* of each attempt: what it wrote that has not been read
    helper,       \* the account the state helper was started with
    dying,        \* it has been told to end and has not
    ops,          \* the supervisor's operations, the head holding the lock
    miner,        \* the account the miner read, or NoMiner
    applying,     \* the apply route: what it waits for
    leaving       \* the sign-out route: what it waits for

accountVars == <<username, loggedIn>>
runnerVars  == <<child, current, killTimer>>
pythonVars  == <<process, lines>>
helperVars  == <<helper, dying>>
minerVars   == <<ops, miner>>
routeVars   == <<applying, leaving>>
vars == <<accountVars, runnerVars, pythonVars, helperVars, minerVars, routeVars>>

\* "code" and "pending" are one: both carry the code the user is to enter.
Terminal == {"ok", "error"}
Stages   == Terminal \cup {"waiting"}

\* A process that has not been started; one may fail to start ("unspawned"),
\* and one that has ended may not have been noticed yet.
Unborn == [at |-> "unborn", name |-> NoName, signal |-> "none"]
Signals == {"none", "TERM", "KILL"}
Alive  == {"starting", "polling"}
Running(a) == process[a].at \in Alive

\* Who waits for an operation: the sign-out route, or nobody that matters here.
Op(kind, caller) == [kind |-> kind, for |-> caller]

TypeOK ==
    /\ username \in Accounts
    /\ loggedIn \in BOOLEAN
    /\ child \in 0..MaxAttempts
    /\ current \in Stages \cup {"none"}
    /\ killTimer \in BOOLEAN
    /\ process \in [Attempts -> [at : Alive \cup {"unborn", "unspawned", "ended", "reaped"},
                                 name : Accounts, signal : Signals]]
    /\ lines \in [Attempts -> Seq(Stages)]
    /\ helper \in Accounts \cup {NoHelper}
    /\ dying \in BOOLEAN
    /\ ops \in Seq([kind : {"start", "stop", "restart"}, for : {"user", "sign-out"}])
    /\ miner \in Accounts \cup {NoMiner}
    /\ applying \in {"no", "recycling", "recycled"}
    /\ leaving \in {"no", "stopping", "removing", "recycling"}

\* A boot: check_login has answered, and a miner runs where there is a session.
Init ==
    /\ username \in Accounts
    /\ loggedIn \in BOOLEAN /\ (loggedIn => username # NoName)
    /\ miner = IF loggedIn THEN username ELSE NoMiner
    /\ helper = username /\ dying = FALSE
    /\ child = 0 /\ current = "none" /\ killTimer = FALSE
    /\ process = [a \in Attempts |-> Unborn]
    /\ lines = [a \in Attempts |-> <<>>]
    /\ ops = <<>>
    /\ applying = "no" /\ leaving = "no"

-----------------------------------------------------------------------------
(* The login helper, one request to Twitch at a time.  A process that was  *)
(* sent SIGTERM installs no handler for it and does nothing any more.      *)

Steps(a, at) == process[a].at = at /\ process[a].signal = "none"
Becomes(a, at) == process' = [process EXCEPT ![a].at = at]
Says(a, stage) == lines' = [lines EXCEPT ![a] = Append(@, stage)]
UnlessPython == UNCHANGED <<accountVars, runnerVars, helperVars, minerVars, routeVars>>

\* An account is named and Twitch gives a device code.
ShowsCode(a) ==
    /\ Steps(a, "starting") /\ process[a].name # NoName
    /\ Says(a, "waiting") /\ Becomes(a, "polling")
    /\ UnlessPython

\* The user has not entered the code yet; one such line may be unread.
StillPending(a) ==
    /\ Steps(a, "polling") /\ lines[a] = <<>>
    /\ Says(a, "waiting") /\ UNCHANGED process
    /\ UnlessPython

\* No account, a refusal, the deadline, a token that is no good.
GivesUp(a) ==
    /\ Steps(a, "starting") \/ Steps(a, "polling")
    /\ Says(a, "error") /\ Becomes(a, "ended")
    /\ UnlessPython

\* An exception that login.py does not catch.
Crashes(a) ==
    /\ Running(a) /\ process[a].signal = "none"
    /\ Becomes(a, "ended") /\ UNCHANGED lines
    /\ UnlessPython

\* The code was entered and the token is good: save_cookies(), then "ok".
SaysOk(a) ==
    /\ Steps(a, "polling")
    /\ Says(a, "ok") /\ Becomes(a, "ended")
    /\ UnlessPython

DiesOfSignal(a) ==
    /\ Running(a) /\ process[a].signal # "none"
    /\ process' = [process EXCEPT ![a].at = "ended", ![a].signal = "none"]
    /\ UNCHANGED lines
    /\ UnlessPython

-----------------------------------------------------------------------------
(* The runner.                                                             *)

\* A process for the next attempt, with the account that is configured now.
Spawned ==
    \E a \in Attempts :
        /\ process[a].at = "unborn" /\ \A b \in 1..(a - 1) : process[b].at # "unborn"
        /\ child' = a
        /\ \E at \in {"starting", "unspawned"} :
              process' = [process EXCEPT ![a] =
                            [at |-> at, name |-> username, signal |-> "none"]]

\* Mutant: a cancelled attempt does not stop the next one.
StartedOverCancelled ==
    IF child # 0 /\ ~killTimer THEN UNCHANGED <<child, process>> ELSE Spawned

\* start()
Started ==
    IF child # 0 THEN UNCHANGED <<child, process>> ELSE Spawned

Signalled(a, signal) ==
    process' = [process EXCEPT ![a].signal =
                  IF Running(a) /\ @ # "KILL" THEN signal ELSE @]

\* Mutant: a second cancel() clears the first one's timer and sets none.
CancelledOnce ==
    IF child = 0
      THEN UNCHANGED <<process, killTimer>>
    ELSE killTimer' = ~killTimer /\ Signalled(child, "TERM")

\* cancel()
Cancelled ==
    IF child = 0
      THEN UNCHANGED <<process, killTimer>>
    ELSE killTimer' = TRUE /\ Signalled(child, "TERM")

Escalates ==
    /\ killTimer
    /\ killTimer' = FALSE
    /\ Signalled(child, "KILL")
    /\ UNCHANGED <<accountVars, child, current, lines, helperVars, minerVars, routeVars>>

\* finish(), of the child that is the runner's.
Finished(a, forced) ==
    /\ Becomes(a, "reaped")
    /\ IF child = a
         THEN /\ child' = 0 /\ killTimer' = FALSE
              /\ current' = IF forced THEN "error" ELSE current
       ELSE UNCHANGED runnerVars
    /\ UNCHANGED <<accountVars, lines, helperVars, minerVars, routeVars>>

\* The exit event; lines of the child may still be unread.
ExitArrives(a) ==
    /\ process[a].at = "ended"
    /\ Finished(a, current \notin Terminal)

SpawnFails(a) ==
    /\ process[a].at = "unspawned"
    /\ Finished(a, TRUE)

\* onLine(), and the server's "progress" listener for any stage but "ok".
LineArrives(a) ==
    /\ lines[a] # <<>> /\ Head(lines[a]) # "ok"
    /\ lines' = [lines EXCEPT ![a] = Tail(@)]
    /\ current' = Head(lines[a])
    /\ UNCHANGED <<accountVars, child, killTimer, process, helperVars, minerVars,
                   routeVars>>

-----------------------------------------------------------------------------
(* The state helper and the supervisor, as the routes use them.            *)

\* helper.restart(), up to its await.
Recycled == dying' = (helper # NoHelper) /\ UNCHANGED helper

HelperEnds ==
    /\ dying
    /\ dying' = FALSE /\ helper' = NoHelper
    /\ applying' = IF applying = "recycling" THEN "recycled" ELSE applying
    /\ leaving' = IF leaving = "recycling" THEN "no" ELSE leaving
    /\ UNCHANGED <<accountVars, runnerVars, pythonVars, minerVars>>

\* The next request starts a helper, with the account configured then.
HelperStarts ==
    /\ helper = NoHelper
    /\ helper' = username
    /\ UNCHANGED <<accountVars, runnerVars, pythonVars, dying, minerVars, routeVars>>

Queued(kind, caller) == ops' = Append(ops, Op(kind, caller))

\* The operation at the head ends: the miner it forks reads the account then.
Served ==
    /\ ops' = Tail(ops)
    /\ miner' = CASE Head(ops).kind = "stop" -> NoMiner
                  [] Head(ops).kind = "start" /\ miner # NoMiner -> miner
                  [] OTHER -> username

OpEnds ==
    /\ ops # <<>> /\ Head(ops).for = "user"
    /\ Served
    /\ UNCHANGED <<accountVars, runnerVars, pythonVars, helperVars, routeVars>>

\* It exits by itself, and is forked again or not.
MinerExits ==
    /\ miner # NoMiner
    /\ miner' \in {NoMiner, username}
    /\ UNCHANGED <<accountVars, runnerVars, pythonVars, helperVars, ops,
                   routeVars>>

\* A restart was pending (PendingRestart), which nobody cancels on a sign-out.
PendingFires ==
    /\ Len(ops) < MaxOps
    /\ Queued("restart", "user")
    /\ UNCHANGED <<accountVars, runnerVars, pythonVars, helperVars, miner, routeVars>>

-----------------------------------------------------------------------------
(* The routes.                                                             *)

SignsIn ==
    /\ Started
    /\ UNCHANGED <<accountVars, current, killTimer, lines, helperVars, minerVars, routeVars>>

\* The "progress" listener for "ok".  persistUsername() may fail to save.
OkArrives(a) ==
    /\ lines[a] # <<>> /\ Head(lines[a]) = "ok"
    /\ lines' = [lines EXCEPT ![a] = Tail(@)]
    /\ current' = "ok"
    /\ loggedIn' = TRUE
    /\ username' \in {process[a].name, username}
    /\ Recycled
    /\ IF username' # NoName THEN Queued("restart", "user") ELSE UNCHANGED ops
    /\ UNCHANGED <<child, killTimer, process, miner, routeVars>>

\* POST /api/config/apply of whatever username is staged.  A save that throws
\* changes nothing.
Applies(name) ==
    /\ applying = "no" /\ Len(ops) < MaxOps
    /\ username' = name
    /\ Recycled /\ applying' = IF helper # NoHelper THEN "recycling" ELSE "recycled"
    /\ UNCHANGED <<loggedIn, runnerVars, pythonVars, minerVars, leaving>>

ApplyGoesOn ==
    /\ applying = "recycled"
    /\ applying' = "no"
    /\ Queued(IF loggedIn /\ username # NoName THEN "restart" ELSE "stop", "user")
    /\ UNCHANGED <<accountVars, runnerVars, pythonVars, helperVars, miner,
                   leaving>>

\* POST /api/miner/:action
AsksMiner(kind) ==
    /\ Len(ops) < MaxOps
    /\ Queued(kind, "user")
    /\ UNCHANGED <<accountVars, runnerVars, pythonVars, helperVars, miner,
                   routeVars>>

\* POST /api/twitch/logout, from one await to the next.
SignsOut ==
    /\ leaving = "no" /\ Len(ops) < MaxOps
    /\ Queued("stop", "sign-out")
    /\ leaving' = "stopping"
    /\ UNCHANGED <<accountVars, runnerVars, pythonVars, helperVars, miner,
                   applying>>

\* supervisor.stop() returns: cancel(), and rm() of the cookies begins.
DropsCookies ==
    /\ ops # <<>> /\ Head(ops).for = "sign-out"
    /\ Served
    /\ Cancelled
    /\ leaving' = "removing"
    /\ UNCHANGED <<username, loggedIn, child, current, lines, helperVars, applying>>

DropsHelper ==
    /\ leaving = "removing"
    /\ loggedIn' = FALSE
    /\ Recycled
    /\ leaving' = IF helper # NoHelper THEN "recycling" ELSE "no"
    /\ UNCHANGED <<username, runnerVars, pythonVars, minerVars, applying>>

\* A poll is rejected, on what the helper then reads of the cookies.
Rejected ==
    /\ loggedIn
    /\ loggedIn' = FALSE
    /\ UNCHANGED <<username, runnerVars, pythonVars, helperVars, minerVars,
                   routeVars>>

-----------------------------------------------------------------------------
LoginHelper(a) ==
    \/ ShowsCode(a) \/ StillPending(a) \/ GivesUp(a) \/ Crashes(a)
    \/ SaysOk(a) \/ DiesOfSignal(a)
LoginEvents(a) == ExitArrives(a) \/ SpawnFails(a) \/ LineArrives(a) \/ OkArrives(a)
Services == HelperEnds \/ HelperStarts \/ OpEnds \/ MinerExits \/ PendingFires
Routes ==
    \/ SignsIn \/ ApplyGoesOn
    \/ \E name \in Accounts : Applies(name)
    \/ \E kind \in {"start", "stop", "restart"} : AsksMiner(kind)
    \/ SignsOut \/ DropsCookies \/ DropsHelper
    \/ Rejected

Next ==
    \/ \E a \in Attempts : LoginHelper(a) \/ LoginEvents(a)
    \/ Escalates \/ Services \/ Routes

\* Node delivers events and runs timers, the kernel kills, the supervisor's
\* operations end.  A login helper owes nothing, nor does Twitch.
Fairness ==
    /\ \A a \in Attempts :
          /\ WF_vars(ExitArrives(a)) /\ WF_vars(SpawnFails(a))
          /\ WF_vars(process[a].signal = "KILL" /\ DiesOfSignal(a))
    /\ WF_vars(Escalates) /\ WF_vars(HelperEnds) /\ WF_vars(OpEnds)
    /\ WF_vars(DropsCookies) /\ WF_vars(DropsHelper)

Spec == Init /\ [][Next]_vars /\ Fairness

-----------------------------------------------------------------------------
\* One login helper runs at a time, and it is the one the runner would
\* cancel: an attempt nobody can cancel would write cookies after a sign-out.
OneAttempt ==
    \A a \in Attempts : Running(a) => child = a

\* A sign-in may name another account than config.json, an apply may stage a
\* third, while restarts, recycles and sign-outs are under way.  The state
\* helper answers for the configured account or is on its way out, and a
\* miner of another account is about to be stopped or restarted.
AccountsAgree ==
    /\ helper \in {username, NoHelper} \/ dying
    /\ \/ miner \in {username, NoMiner}
       \/ applying # "no"
       \/ \E i \in 1..Len(ops) : ops[i].kind # "start"

\* One sign-in at a time, and everything ends up with its account.
SignInAgrees == OneAttempt /\ AccountsAgree

\* cancel() ends in bounded time: a cancelled helper does not stay, whatever
\* it does with SIGTERM, so that the next sign-in can start, and a shutdown,
\* which waits for "done", ends.
CancelledAttemptsEnd ==
    killTimer ~> (child = 0)

=============================================================================
