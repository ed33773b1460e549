---------------------------- MODULE HelperClient ----------------------------
(***************************************************************************)
(* NdjsonClient (helpers/ndjsonClient.ts): requests to a long-lived Python *)
(* helper over its stdin and stdout, one JSON line each way.               *)
(*                                                                         *)
(* The helper answers its lines one at a time, in order.  The client       *)
(* spawns it on the first request, spawns another after it died, and       *)
(* settles every request by the answer, the helper's exit, a failed write  *)
(* or the timer, whichever comes first.  restart() and stop() end the      *)
(* process: SIGTERM, then SIGKILL after a grace period.                    *)
(*                                                                         *)
(* A process that has died is "dead" until Node delivers its exit event;   *)
(* until then this.child is still that process and requests are written    *)
(* to it.  Its exit codes are set by the same callback that emits the      *)
(* event, so a child that is not null never has one.                       *)
(***************************************************************************)
EXTENDS Naturals, Sequences, FiniteSets

CONSTANTS
    Requests,   \* ids 1..Requests are handed out in a behaviour
    Children,   \* how often a helper may be spawned
    Calls,      \* calls of restart() and stop() that may be made, once each
    Stops,      \* those that are stop()
    Garbled     \* requests whose line the helper cannot parse

ASSUME ClientBoundsAssumption ==
    /\ Requests \in Nat /\ Children \in Nat
    /\ IsFiniteSet(Calls) /\ Stops \subseteq Calls /\ Garbled \subseteq 1..Requests

RequestIds == 1..Requests
Procs      == 1..Children
NoId  == 0
NoChild == 0

VARIABLES
    nextId,     \* this.nextId
    pending,    \* the keys of this.pending
    sentTo,     \* the child whose stdin a request was written to
    outcome,    \* how a request's promise settled, and whose answer it got
    unwritten,  \* requests whose write callback will report an error
    child,      \* this.child
    spawned,    \* how many helpers were spawned so far
    proc,       \* each helper's process
    inbox,      \* requests the current helper has still to answer
    outbox,     \* lines of the current helper that have still to arrive
    stopped,    \* this.stopped
    call,       \* each call of restart() or stop()
    target      \* the child a call terminates

requestVars == <<nextId, sentTo, spawned>>
settleVars  == <<pending, outcome>>
callVars    == <<stopped, call, target>>
clientVars == <<requestVars, settleVars, unwritten, child, proc, inbox, outbox, callVars>>

Unsettled == [how |-> "open", from |-> NoId]

ClientInit ==
    /\ nextId = 1 /\ pending = {} /\ unwritten = {}
    /\ sentTo = [r \in RequestIds |-> NoChild]
    /\ outcome = [r \in RequestIds |-> Unsettled]
    /\ child = NoChild /\ spawned = 0
    /\ proc = [c \in Procs |-> "none"]
    /\ inbox = <<>> /\ outbox = <<>>
    /\ stopped = FALSE
    /\ call = [k \in Calls |-> "notMade"]
    /\ target = [k \in Calls |-> NoChild]

\* The promises of the given requests settle; those no longer pending keep
\* what they have.
Settle(ids, how, from) ==
    /\ pending' = pending \ ids
    /\ outcome' = [r \in RequestIds |-> IF r \in ids \cap pending
                                 THEN [how |-> how, from |-> from]
                                 ELSE outcome[r]]

\* A failed spawn is reported on the next tick, before anything but the rest
\* of the code that asked for it.
Calm == child # NoChild => proc[child] # "failing"

-----------------------------------------------------------------------------
(* request()                                                               *)

\* killChild() ends the stdin of the child it waits for.
StdinEnded(c) == \E k \in Calls : call[k] = "waiting" /\ target[k] = c

\* ensure(): the current child, or a new one, which may fail to start.
Ensure ==
    \/ /\ child # NoChild
       /\ UNCHANGED <<child, spawned, proc>>
    \/ /\ child = NoChild /\ spawned < Children
       /\ child' = spawned + 1 /\ spawned' = spawned + 1
       /\ \E born \in {"up", "failing"} : proc' = [proc EXCEPT ![spawned + 1] = born]

IdAfter(id) == id + 1

Request ==
    /\ ~stopped /\ nextId \in RequestIds
    /\ Ensure
    /\ nextId' = IdAfter(nextId)
    /\ pending' = pending \cup {nextId}
    /\ sentTo' = [sentTo EXCEPT ![nextId] = child']
    /\ IF proc'[child'] = "up" /\ ~StdinEnded(child')
         THEN inbox' = Append(inbox, nextId) /\ UNCHANGED unwritten
         ELSE unwritten' = unwritten \cup {nextId} /\ UNCHANGED inbox
    /\ UNCHANGED <<outcome, outbox, callVars>>

\* The callback of a write that met a dead pipe or an ended stream.
WriteFails(r) ==
    /\ r \in unwritten /\ Calm
    /\ unwritten' = unwritten \ {r}
    /\ Settle({r}, "writeFailed", NoId)
    /\ UNCHANGED <<requestVars, child, proc, inbox, outbox, callVars>>

Timeout(r) ==
    /\ r \in pending /\ Calm
    /\ Settle({r}, "timedOut", NoId)
    /\ UNCHANGED <<requestVars, unwritten, child, proc, inbox, outbox, callVars>>

-----------------------------------------------------------------------------
(* The helper                                                              *)

\* state.py's serve(): one line is read, handled and answered at a time. A
\* line that is not JSON is answered without an id.
HelperAnswers ==
    /\ child # NoChild /\ proc[child] = "up" /\ inbox # <<>>
    /\ LET r == Head(inbox) IN
       \E ok \in IF r \in Garbled THEN {FALSE} ELSE BOOLEAN :
           outbox' = Append(outbox, [id   |-> IF r \in Garbled THEN NoId ELSE r,
                                     ok   |-> ok,
                                     from |-> r])
    /\ inbox' = Tail(inbox)
    /\ UNCHANGED <<requestVars, settleVars, unwritten, child, proc, callVars>>

\* It crashes, honours SIGTERM, or reads the end of its stdin.
HelperDies ==
    /\ child # NoChild /\ proc[child] = "up"
    /\ proc' = [proc EXCEPT ![child] = "dead"]
    /\ UNCHANGED <<requestVars, settleVars, unwritten, child, inbox, outbox, callVars>>

-----------------------------------------------------------------------------
(* What arrives                                                            *)

\* The requests a line settles: the one it names, or for an error without an
\* id the only one there is.
Addressed(line) ==
    IF line.id # NoId THEN {line.id} \cap pending
    ELSE IF Cardinality(pending) = 1 THEN pending ELSE {}

\* onLine()
LineArrives ==
    /\ outbox # <<>> /\ Calm
    /\ LET line == Head(outbox) IN
       Settle(Addressed(line), IF line.ok THEN "answered" ELSE "refused", line.from)
    /\ outbox' = Tail(outbox)
    /\ UNCHANGED <<requestVars, unwritten, child, proc, inbox, callVars>>

\* Mutant: the exit handler replaces the child but rejects nothing.
ChildGoneQuietly(how) ==
    /\ proc' = [proc EXCEPT ![child] = "gone"]
    /\ child' = NoChild
    /\ inbox' = <<>> /\ outbox' = <<>>
    /\ UNCHANGED <<requestVars, settleVars, unwritten>>

\* The end of a child, for onExit() and onSpawnError(): whatever is pending
\* is rejected, the reader is closed and the next request spawns afresh.
ChildGone(how) ==
    /\ Settle(pending, how, NoId)
    /\ proc' = [proc EXCEPT ![child] = "gone"]
    /\ child' = NoChild
    /\ inbox' = <<>> /\ outbox' = <<>>
    /\ UNCHANGED <<requestVars, unwritten>>

\* onExit(), then the "exit" listeners of the calls that wait.
ExitArrives ==
    /\ child # NoChild /\ proc[child] = "dead"
    /\ ChildGone("exited")
    /\ call' = [k \in Calls |-> IF call[k] = "waiting" /\ target[k] = child
                                THEN "returned" ELSE call[k]]
    /\ UNCHANGED <<stopped, target>>

\* onSpawnError()
SpawnErrorArrives ==
    /\ child # NoChild /\ proc[child] = "failing"
    /\ ChildGone("notStarted")
    /\ UNCHANGED callVars

-----------------------------------------------------------------------------
(* stop() and restart()                                                    *)

\* killChild() waits for the child there is. restart() after stop() does
\* nothing.
Terminate(k) ==
    /\ call[k] = "notMade" /\ Calm
    /\ LET idle == child = NoChild \/ (k \notin Stops /\ stopped) IN
       /\ call'   = [call EXCEPT ![k] = IF idle THEN "returned" ELSE "waiting"]
       /\ target' = [target EXCEPT ![k] = IF idle THEN NoChild ELSE child]
    /\ stopped' = (stopped \/ k \in Stops)
    /\ UNCHANGED <<requestVars, settleVars, unwritten, child, proc, inbox, outbox>>

\* Mutant: the grace timer sends SIGTERM once more.
GraceAsksAgain(k) ==
    call[k] = "waiting" /\ UNCHANGED clientVars

\* STOP_GRACE_MS after SIGTERM: SIGKILL.
GraceExpires(k) ==
    /\ call[k] = "waiting" /\ proc[target[k]] = "up"
    /\ proc' = [proc EXCEPT ![target[k]] = "dead"]
    /\ UNCHANGED <<requestVars, settleVars, unwritten, child, inbox, outbox, callVars>>

-----------------------------------------------------------------------------
ClientNext ==
    \/ Request
    \/ \E r \in RequestIds : WriteFails(r) \/ Timeout(r)
    \/ HelperAnswers \/ HelperDies
    \/ LineArrives \/ ExitArrives \/ SpawnErrorArrives
    \/ \E k \in Calls : Terminate(k) \/ GraceExpires(k)

\* Node delivers exit events and runs timers; the helper owes nothing.
ClientFairness ==
    /\ WF_clientVars(ExitArrives \/ SpawnErrorArrives)
    /\ WF_clientVars(\E k \in Calls : GraceExpires(k))

ClientSpec     == ClientInit /\ [][ClientNext]_clientVars
ClientFairSpec == ClientSpec /\ ClientFairness

-----------------------------------------------------------------------------
(* Properties                                                              *)

Lines == [id : RequestIds \cup {NoId}, ok : BOOLEAN, from : RequestIds]

Hows == {"open", "answered", "refused", "timedOut", "writeFailed",
         "exited", "notStarted"}

\* Every variable has its type.
ClientTypeOK ==
    /\ nextId \in 1..(Requests + 1)
    /\ pending \subseteq RequestIds /\ unwritten \subseteq RequestIds
    /\ sentTo \in [RequestIds -> 0..Children]
    /\ outcome \in [RequestIds -> [how : Hows, from : RequestIds \cup {NoId}]]
    /\ child \in 0..Children /\ spawned \in 0..Children
    /\ proc \in [Procs -> {"none", "failing", "up", "dead", "gone"}]
    /\ inbox \in Seq(RequestIds) /\ outbox \in Seq(Lines)
    /\ stopped \in BOOLEAN
    /\ call \in [Calls -> {"notMade", "waiting", "returned"}]
    /\ target \in [Calls -> 0..Children]

\* A request that is still pending was written to the child there is, so the
\* exit of that child rejects it: none hangs on a helper that is gone, and
\* none is forgotten (onExit, onSpawnError and fail; the comments at
\* ndjsonClient.ts:87-98 and 234-237).
PendingIsServed ==
    \A r \in RequestIds :
        /\ r \in pending => child # NoChild /\ sentTo[r] = child
        /\ r < nextId /\ r \notin pending => outcome[r].how # "open"

\* A request resolves only with the answer to itself, whatever timed out,
\* arrived late or was answered without an id before it (onLine).
AnswersAreOwn ==
    \A r \in RequestIds : outcome[r].how = "answered" => outcome[r].from = r

\* When restart() has returned, the helper it ended is gone, so that every
\* later request meets one that reads the new account; when stop() has
\* returned no helper is left and none ever comes (killChild).
RetiredIsGone ==
    \A k \in Calls : call[k] = "returned" =>
        /\ target[k] # NoChild => proc[target[k]] = "gone"
        /\ k \in Stops => child = NoChild /\ \A c \in Procs : proc[c] \in {"none", "gone"}

\* Every request meets its own end: an answer to itself or a helper's end, never
\* a helper that is gone or of the account before.
RequestsAreKept == PendingIsServed /\ AnswersAreOwn /\ RetiredIsGone

\* Every restart() and stop() returns, also when the helper ignores SIGTERM
\* (STOP_GRACE_MS).  As each call is made once, those that wait and those that
\* come meanwhile are done with together.
CallsReturn ==
    (\E k \in Calls : call[k] = "waiting") ~> (\A k \in Calls : call[k] # "waiting")

=============================================================================
