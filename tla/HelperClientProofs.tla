------------------------- MODULE HelperClientProofs -------------------------
(***************************************************************************)
(* Theorems about the client of the Python helper (HelperClient), and      *)
(* about two parts of the backend that ask through it: the sweep of the    *)
(* campaigns (Sweep) and the drop badges (Badges).                         *)
(*                                                                         *)
(* SweepIsComplete is not inductive: that what a sweep ends with is all    *)
(* that is owed rests on what its lists said (OwedIsListed) and on what    *)
(* each page said (OwedIsRead), however old they were.  BadgeCatchesUp     *)
(* rests on what is held, on its way or being asked for: each of them was  *)
(* right when it was taken, or what the badge should say has changed since *)
(* (AnswersWereRight, EventsAreTrue, PassIsTrue).                          *)
(***************************************************************************)
EXTENDS HelperClient, Sweep, Badges, SequenceTheorems, TLAPS

(* The inductive invariant, in parts.                                      *)

\* The processes: those to come, those gone, and the current one.
ProcInv ==
    /\ child <= spawned
    /\ child # NoChild => proc[child] \in {"failing", "up", "dead"}
    /\ \A c \in Procs : /\ c > spawned => proc[c] = "none"
                        /\ c <= spawned /\ c # child => proc[c] = "gone"

\* Ids are handed out in order, and none is handed out twice.
IdInv == \A r \in pending : r < nextId

\* A line names the request it answers, unless it is an error without an id.
LineInv ==
    \A i \in 1..Len(outbox) :
        /\ outbox[i].id # NoId => outbox[i].id = outbox[i].from
        /\ outbox[i].ok => outbox[i].id # NoId

\* A call that waits, waits for the current child; a stop() is remembered.
CallInv ==
    \A k \in Calls :
        /\ call[k] = "waiting" => /\ child # NoChild /\ target[k] = child
                                  /\ proc[child] \in {"up", "dead"}
        /\ call[k] # "notMade" /\ k \in Stops => stopped

IInv ==
    /\ ClientTypeOK /\ ProcInv /\ IdInv /\ LineInv /\ CallInv
    /\ PendingIsServed /\ AnswersAreOwn /\ RetiredIsGone

-----------------------------------------------------------------------------
LEMMA InitInv == ClientInit => IInv
<1> SUFFICES ASSUME ClientInit PROVE IInv
  OBVIOUS
<1> USE ClientBoundsAssumption DEF ClientInit, RequestIds, Procs, NoId, NoChild, Unsettled
<1>1. ClientTypeOK
  <2>1. /\ nextId \in 1..(Requests + 1) /\ pending \subseteq RequestIds /\ unwritten \subseteq RequestIds
        /\ sentTo \in [RequestIds -> 0..Children]
        /\ child \in 0..Children /\ spawned \in 0..Children
        /\ proc \in [Procs -> {"none", "failing", "up", "dead", "gone"}]
        /\ stopped \in BOOLEAN
        /\ call \in [Calls -> {"notMade", "waiting", "returned"}]
        /\ target \in [Calls -> 0..Children]
    <3>1. nextId \in 1..(Requests + 1) /\ child \in 0..Children /\ spawned \in 0..Children
      OBVIOUS
    <3>2. sentTo \in [RequestIds -> 0..Children] /\ target \in [Calls -> 0..Children]
      BY <3>1
    <3>3. QED
      BY <3>1, <3>2
  <2>2. outcome \in [RequestIds -> [how : Hows, from : RequestIds \cup {NoId}]]
    BY DEF Hows
  <2>3. inbox \in Seq(RequestIds) /\ outbox \in Seq(Lines)
    BY EmptySeq
  <2>4. QED
    BY <2>1, <2>2, <2>3 DEF ClientTypeOK
<1>2. ProcInv /\ IdInv /\ LineInv /\ CallInv
  BY DEF ProcInv, IdInv, LineInv, CallInv
<1>3. PendingIsServed /\ AnswersAreOwn /\ RetiredIsGone
  BY DEF PendingIsServed, AnswersAreOwn, RetiredIsGone
<1>4. QED
  BY <1>1, <1>2, <1>3 DEF IInv

-----------------------------------------------------------------------------
(* request()                                                               *)

LEMMA RequestInv == IInv /\ Request => IInv'
<1> SUFFICES ASSUME IInv, Request PROVE IInv'
  OBVIOUS
<1> USE ClientBoundsAssumption
    DEF RequestIds, Procs, NoId, NoChild, callVars, IdAfter
<1>0. ClientTypeOK /\ ProcInv /\ IdInv /\ LineInv /\ CallInv
      /\ PendingIsServed /\ AnswersAreOwn /\ RetiredIsGone
  BY DEF IInv
<1>1. /\ nextId \in RequestIds /\ ~stopped
      /\ nextId' = nextId + 1 /\ pending' = pending \cup {nextId}
      /\ sentTo' = [sentTo EXCEPT ![nextId] = child']
      /\ UNCHANGED <<outcome, outbox, stopped, call, target>>
      /\ Ensure
  BY DEF Request
<1>2. /\ child' \in Procs /\ spawned' \in 0..Children /\ child' <= spawned'
      /\ proc' \in [Procs -> {"none", "failing", "up", "dead", "gone"}]
      /\ child # NoChild => UNCHANGED <<child, spawned, proc>>
      /\ child = NoChild => child' = spawned + 1 /\ spawned' = spawned + 1
      /\ \A c \in Procs : c # child' => proc'[c] = proc[c]
      /\ proc'[child'] \in {"failing", "up", "dead"}
  <2>1. CASE child # NoChild /\ UNCHANGED <<child, spawned, proc>>
    BY <1>0, <2>1 DEF ClientTypeOK, ProcInv
  <2>2. CASE child = NoChild /\ spawned < Children
    <3>1. PICK born \in {"up", "failing"} : proc' = [proc EXCEPT ![spawned + 1] = born]
      BY <1>1, <2>2 DEF Ensure
    <3>2. child' = spawned + 1 /\ spawned' = spawned + 1
      BY <1>1, <2>2 DEF Ensure
    <3>3. QED
      BY <1>0, <2>2, <3>1, <3>2 DEF ClientTypeOK
  <2>3. QED
    BY <1>1, <2>1, <2>2 DEF Ensure
<1>3. ClientTypeOK'
  <2>1. inbox \in Seq(RequestIds) /\ unwritten \subseteq RequestIds /\ nextId \in RequestIds
    BY <1>0, <1>1 DEF ClientTypeOK
  <2>2. \/ inbox' = Append(inbox, nextId) /\ unwritten' = unwritten
        \/ inbox' = inbox /\ unwritten' = unwritten \cup {nextId}
    BY DEF Request
  <2>3. inbox' \in Seq(RequestIds) /\ unwritten' \subseteq RequestIds
    <3>1. Append(inbox, nextId) \in Seq(RequestIds)
      BY <2>1, AppendProperties
    <3>2. inbox' \in Seq(RequestIds)
      BY <2>1, <2>2, <3>1
    <3>3. unwritten' \subseteq RequestIds
      BY <2>1, <2>2
    <3>4. QED
      BY <3>2, <3>3
  <2>4. QED
    BY <1>0, <1>1, <1>2, <2>3 DEF ClientTypeOK
<1>4. ProcInv'
  BY <1>0, <1>1, <1>2 DEF ClientTypeOK, ProcInv
<1>5. IdInv' /\ LineInv'
  BY <1>0, <1>1 DEF ClientTypeOK, IdInv, LineInv
<1>6. CallInv'
  BY <1>0, <1>1, <1>2 DEF ClientTypeOK, CallInv
<1>7. PendingIsServed'
  BY <1>0, <1>1, <1>2 DEF ClientTypeOK, PendingIsServed
<1>8. AnswersAreOwn'
  BY <1>0, <1>1 DEF AnswersAreOwn
<1>9. RetiredIsGone'
  <2>1. \A k \in Calls : call[k] = "returned" => k \notin Stops
    BY <1>0, <1>1 DEF CallInv
  <2>2. \A k \in Calls : call[k] = "returned" /\ target[k] # NoChild =>
           target[k] \in Procs /\ target[k] # child' /\ proc'[target[k]] = "gone"
    BY <1>0, <1>2 DEF RetiredIsGone, ClientTypeOK, ProcInv
  <2>3. QED
    BY <1>1, <2>1, <2>2 DEF RetiredIsGone
<1>10. QED
  BY <1>3, <1>4, <1>5, <1>6, <1>7, <1>8, <1>9 DEF IInv

-----------------------------------------------------------------------------
(* A step that settles some of the pending requests and leaves the helper, *)
(* its lines and the calls alone.                                          *)

LEMMA SettleInv ==
    ASSUME IInv, NEW ids \in SUBSET RequestIds, NEW how \in Hows \ {"open"},
           NEW from \in RequestIds \cup {NoId},
           Settle(ids, how, from),
           how = "answered" => \A r \in ids \cap pending : from = r
    PROVE  /\ pending' \subseteq pending
           /\ outcome' \in [RequestIds -> [how : Hows, from : RequestIds \cup {NoId}]]
           /\ \A r \in RequestIds : r \in pending \ pending' => outcome'[r].how # "open"
           /\ \A r \in RequestIds : r \notin pending => outcome'[r] = outcome[r]
           /\ AnswersAreOwn'
<1>0. ClientTypeOK /\ AnswersAreOwn
  BY DEF IInv
<1>1. /\ pending' = pending \ ids
      /\ outcome' = [r \in RequestIds |-> IF r \in ids \cap pending
                                   THEN [how |-> how, from |-> from] ELSE outcome[r]]
  BY DEF Settle
<1>2. AnswersAreOwn'
  BY <1>0, <1>1 DEF AnswersAreOwn, ClientTypeOK
<1>3. QED
  BY <1>0, <1>1, <1>2 DEF ClientTypeOK, Hows

LEMMA QuietSettleInv ==
    ASSUME IInv, NEW ids \in SUBSET RequestIds, NEW how \in Hows \ {"open"},
           NEW from \in RequestIds \cup {NoId},
           Settle(ids, how, from),
           how = "answered" => \A r \in ids \cap pending : from = r,
           UNCHANGED <<requestVars, child, proc, inbox, callVars>>,
           unwritten' \in SUBSET RequestIds, outbox' \in Seq(Lines), LineInv'
    PROVE  IInv'
<1> USE DEF requestVars, callVars
<1>0. ClientTypeOK /\ ProcInv /\ IdInv /\ CallInv /\ PendingIsServed /\ RetiredIsGone
  BY DEF IInv
<1>1. /\ pending' \subseteq pending
      /\ outcome' \in [RequestIds -> [how : Hows, from : RequestIds \cup {NoId}]]
      /\ \A r \in RequestIds : r \in pending \ pending' => outcome'[r].how # "open"
      /\ \A r \in RequestIds : r \notin pending => outcome'[r] = outcome[r]
      /\ AnswersAreOwn'
  BY SettleInv
<1>2. ClientTypeOK'
  BY <1>0, <1>1 DEF ClientTypeOK
<1>3. ProcInv' /\ IdInv' /\ CallInv' /\ RetiredIsGone'
  BY <1>0, <1>1 DEF ProcInv, IdInv, CallInv, RetiredIsGone
<1>4. PendingIsServed'
  BY <1>0, <1>1 DEF PendingIsServed
<1>5. QED
  BY <1>1, <1>2, <1>3, <1>4 DEF IInv

LEMMA WriteFailsInv == ASSUME IInv, NEW r \in RequestIds, WriteFails(r) PROVE IInv'
<1>1. LineInv /\ unwritten \subseteq RequestIds /\ outbox \in Seq(Lines)
  BY DEF IInv, ClientTypeOK
<1>2. QED
  BY <1>1, QuietSettleInv
  DEF WriteFails, Hows, LineInv, NoId

LEMMA TimeoutInv == ASSUME IInv, NEW r \in RequestIds, Timeout(r) PROVE IInv'
<1>1. LineInv /\ unwritten \subseteq RequestIds /\ outbox \in Seq(Lines)
  BY DEF IInv, ClientTypeOK
<1>2. QED
  BY <1>1, QuietSettleInv
  DEF Timeout, Hows, LineInv, NoId

LEMMA LineArrivesInv == IInv /\ LineArrives => IInv'
<1> SUFFICES ASSUME IInv, LineArrives PROVE IInv'
  OBVIOUS
<1>0. ClientTypeOK /\ LineInv
  BY DEF IInv
<1> DEFINE line == Head(outbox)
           how  == IF line.ok THEN "answered" ELSE "refused"
<1>1. /\ outbox \in Seq(Lines) /\ outbox # <<>>
      /\ line \in Lines /\ line = outbox[1]
      /\ outbox' = Tail(outbox) /\ outbox' \in Seq(Lines)
  BY <1>0 DEF LineArrives, ClientTypeOK
<1>2. /\ line.id # NoId => line.id = line.from
      /\ line.ok => line.id # NoId
  BY <1>0, <1>1 DEF LineInv
<1>3. LineInv'
  <2>1. /\ Len(outbox') = Len(outbox) - 1
        /\ \A i \in 1..Len(outbox') : outbox'[i] = outbox[i + 1]
    BY <1>1
  <2>2. \A i \in 1..Len(outbox') : i + 1 \in 1..Len(outbox)
    BY <1>1, <2>1
  <2>3. QED
    BY <1>0, <2>1, <2>2 DEF LineInv
<1>4. Addressed(line) \in SUBSET RequestIds
  BY <1>0 DEF Addressed, ClientTypeOK
<1>5. how = "answered" => \A r \in Addressed(line) \cap pending : line.from = r
  BY <1>1, <1>2 DEF Addressed
<1>6. Settle(Addressed(line), how, line.from)
  BY DEF LineArrives
<1>7. line.from \in RequestIds /\ how \in Hows \ {"open"}
  BY <1>1 DEF Lines, Hows
<1>8. UNCHANGED <<requestVars, child, proc, inbox, callVars>> /\ unwritten' \in SUBSET RequestIds
  BY <1>0 DEF LineArrives, ClientTypeOK
<1> HIDE DEF line, how
<1>9. QED
  BY <1>1, <1>3, <1>4, <1>5, <1>6, <1>7, <1>8, QuietSettleInv

-----------------------------------------------------------------------------
(* The helper                                                              *)

LEMMA HelperAnswersInv == IInv /\ HelperAnswers => IInv'
<1> SUFFICES ASSUME IInv, HelperAnswers PROVE IInv'
  OBVIOUS
<1> USE DEF requestVars, settleVars, callVars
<1>0. ClientTypeOK /\ ProcInv /\ IdInv /\ LineInv /\ CallInv
      /\ PendingIsServed /\ AnswersAreOwn /\ RetiredIsGone
  BY DEF IInv
<1>1. /\ inbox \in Seq(RequestIds) /\ inbox # <<>>
      /\ Head(inbox) \in RequestIds /\ inbox' = Tail(inbox) /\ inbox' \in Seq(RequestIds)
      /\ UNCHANGED <<requestVars, settleVars, unwritten, child, proc, callVars>>
  BY <1>0 DEF HelperAnswers, ClientTypeOK
<1>2. PICK ok \in IF Head(inbox) \in Garbled THEN {FALSE} ELSE BOOLEAN :
         outbox' = Append(outbox, [id   |-> IF Head(inbox) \in Garbled THEN NoId ELSE Head(inbox),
                                   ok   |-> ok,
                                   from |-> Head(inbox)])
  BY DEF HelperAnswers
<1> DEFINE line == [id   |-> IF Head(inbox) \in Garbled THEN NoId ELSE Head(inbox),
                    ok   |-> ok,
                    from |-> Head(inbox)]
<1>3. /\ line \in Lines
      /\ line.id # NoId => line.id = line.from
      /\ line.ok => line.id # NoId
  <2>1. Head(inbox) \in 1..Requests /\ ok \in BOOLEAN
    BY <1>1, <1>2 DEF RequestIds
  <2>2. CASE Head(inbox) \in Garbled
    BY <1>2, <2>1, <2>2 DEF Lines, RequestIds, NoId
  <2>3. CASE Head(inbox) \notin Garbled
    BY <2>1, <2>3 DEF Lines, RequestIds, NoId
  <2>4. QED
    BY <2>2, <2>3
<1>4. outbox' = Append(outbox, line)
  BY <1>2
<1> HIDE DEF line
<1>5. outbox' \in Seq(Lines) /\ LineInv'
  BY <1>0, <1>3, <1>4 DEF ClientTypeOK, LineInv
<1>6. ClientTypeOK'
  BY <1>0, <1>1, <1>5 DEF ClientTypeOK
<1>7. ProcInv' /\ IdInv' /\ CallInv' /\ PendingIsServed' /\ AnswersAreOwn' /\ RetiredIsGone'
  BY <1>0, <1>1 DEF ProcInv, IdInv, CallInv, PendingIsServed, AnswersAreOwn, RetiredIsGone
<1>8. QED
  BY <1>5, <1>6, <1>7 DEF IInv

\* The process of the current child ends, by itself or by SIGKILL.
LEMMA DeathInv ==
    ASSUME IInv, child # NoChild, proc[child] = "up",
           proc' = [proc EXCEPT ![child] = "dead"],
           UNCHANGED <<requestVars, settleVars, unwritten, child, inbox, outbox, callVars>>
    PROVE  IInv'
<1> USE DEF requestVars, settleVars, callVars, Procs, NoChild
<1>0. ClientTypeOK /\ ProcInv /\ IdInv /\ LineInv /\ CallInv
      /\ PendingIsServed /\ AnswersAreOwn /\ RetiredIsGone
  BY DEF IInv
<1>1. child \in Procs
  BY <1>0, ClientBoundsAssumption DEF ClientTypeOK
<1>2. ClientTypeOK' /\ ProcInv' /\ CallInv'
  BY <1>0, <1>1 DEF ClientTypeOK, ProcInv, CallInv
<1>3. IdInv' /\ LineInv' /\ PendingIsServed' /\ AnswersAreOwn'
  BY <1>0 DEF IdInv, LineInv, PendingIsServed, AnswersAreOwn
<1>4. RetiredIsGone'
  BY <1>0, <1>1 DEF RetiredIsGone, ClientTypeOK
<1>5. QED
  BY <1>2, <1>3, <1>4 DEF IInv

-----------------------------------------------------------------------------
(* The end of a child                                                      *)

LEMMA ChildGoneInv ==
    ASSUME IInv, NEW how \in Hows \ {"open", "answered"}, child # NoChild,
           ChildGone(how), UNCHANGED <<stopped, target>>,
           call' = [k \in Calls |-> IF call[k] = "waiting" /\ target[k] = child
                                    THEN "returned" ELSE call[k]]
    PROVE  IInv'
<1> USE DEF requestVars, Procs, NoChild
<1>0. ClientTypeOK /\ ProcInv /\ IdInv /\ LineInv /\ CallInv
      /\ PendingIsServed /\ AnswersAreOwn /\ RetiredIsGone
  BY DEF IInv
<1>1. /\ Settle(pending, how, NoId)
      /\ proc' = [proc EXCEPT ![child] = "gone"] /\ child' = NoChild
      /\ inbox' = <<>> /\ outbox' = <<>>
      /\ UNCHANGED <<nextId, sentTo, spawned, unwritten>>
      /\ child \in Procs
  BY <1>0, ClientBoundsAssumption DEF ChildGone, ClientTypeOK
<1>2. /\ pending' = {}
      /\ outcome' \in [RequestIds -> [how : Hows, from : RequestIds \cup {NoId}]]
      /\ \A r \in RequestIds : r \in pending \ pending' => outcome'[r].how # "open"
      /\ \A r \in RequestIds : r \notin pending => outcome'[r] = outcome[r]
      /\ AnswersAreOwn'
  <2>1. pending' = {} /\ pending \subseteq RequestIds
    BY <1>0, <1>1 DEF Settle, ClientTypeOK
  <2>2. how \in Hows \ {"open"} /\ how # "answered"
    OBVIOUS
  <2>3. NoId \in RequestIds \cup {NoId}
    OBVIOUS
  <2>4. QED
    BY <1>1, <2>1, <2>2, <2>3, SettleInv
<1>3. ClientTypeOK'
  <2>1. inbox' \in Seq(RequestIds) /\ outbox' \in Seq(Lines)
    BY <1>1, EmptySeq
  <2>2. proc' \in [Procs -> {"none", "failing", "up", "dead", "gone"}]
        /\ child' \in 0..Children
    BY <1>0, <1>1, ClientBoundsAssumption DEF ClientTypeOK
  <2>3. call' \in [Calls -> {"notMade", "waiting", "returned"}]
    BY <1>0 DEF ClientTypeOK
  <2>4. QED
    BY <1>0, <1>1, <1>2, <2>1, <2>2, <2>3 DEF ClientTypeOK
<1>4. ProcInv'
  BY <1>0, <1>1 DEF ClientTypeOK, ProcInv
<1>5. IdInv' /\ LineInv'
  BY <1>1, <1>2 DEF IdInv, LineInv
<1>6. CallInv'
  BY <1>0, <1>1 DEF ClientTypeOK, CallInv
<1>7. PendingIsServed'
  BY <1>0, <1>1, <1>2 DEF ClientTypeOK, PendingIsServed
<1>8. RetiredIsGone'
  <2> SUFFICES ASSUME NEW k \in Calls, call'[k] = "returned"
               PROVE  /\ target[k] # NoChild => proc'[target[k]] = "gone"
                      /\ k \in Stops => \A c \in Procs : proc'[c] \in {"none", "gone"}
    BY <1>1 DEF RetiredIsGone
  <2>1. target[k] # NoChild => proc'[target[k]] = "gone"
    BY <1>0, <1>1 DEF RetiredIsGone, ClientTypeOK
  <2>2. \A c \in Procs : proc'[c] \in {"none", "gone"}
    BY <1>0, <1>1 DEF ClientTypeOK, ProcInv
  <2>3. QED
    BY <2>1, <2>2
<1>9. QED
  BY <1>2, <1>3, <1>4, <1>5, <1>6, <1>7, <1>8 DEF IInv

LEMMA ExitArrivesInv == IInv /\ ExitArrives => IInv'
BY ChildGoneInv DEF ExitArrives, Hows

LEMMA SpawnErrorArrivesInv == IInv /\ SpawnErrorArrives => IInv'
<1> SUFFICES ASSUME IInv, SpawnErrorArrives PROVE IInv'
  OBVIOUS
<1>1. /\ child # NoChild /\ proc[child] = "failing" /\ ChildGone("notStarted")
      /\ UNCHANGED <<stopped, call, target>>
  BY DEF SpawnErrorArrives, callVars
<1>2. \A k \in Calls : call[k] # "waiting"
  BY <1>1 DEF IInv, CallInv
<1>3. call' = [k \in Calls |-> IF call[k] = "waiting" /\ target[k] = child
                               THEN "returned" ELSE call[k]]
  BY <1>1, <1>2 DEF IInv, ClientTypeOK
<1>4. QED
  BY <1>1, <1>3, ChildGoneInv DEF Hows

-----------------------------------------------------------------------------
(* stop() and restart()                                                    *)

LEMMA TerminateInv == ASSUME IInv, NEW k \in Calls, Terminate(k) PROVE IInv'
<1> USE DEF requestVars, settleVars, Procs, NoChild
<1>0. ClientTypeOK /\ ProcInv /\ IdInv /\ LineInv /\ CallInv
      /\ PendingIsServed /\ AnswersAreOwn /\ RetiredIsGone
  BY DEF IInv
<1> DEFINE idle == child = NoChild \/ (k \notin Stops /\ stopped)
<1>1. /\ call[k] = "notMade"
      /\ call'   = [call EXCEPT ![k] = IF idle THEN "returned" ELSE "waiting"]
      /\ target' = [target EXCEPT ![k] = IF idle THEN NoChild ELSE child]
      /\ stopped' = (stopped \/ k \in Stops)
      /\ UNCHANGED <<nextId, sentTo, spawned, pending, outcome, unwritten,
                     child, proc, inbox, outbox>>
  BY DEF Terminate
<1>2. child # NoChild => proc[child] \in {"up", "dead"}
  BY <1>0 DEF Terminate, Calm, ProcInv
<1>3. stopped' \in BOOLEAN /\ (stopped => stopped') /\ (k \in Stops => stopped')
  BY <1>0, <1>1 DEF ClientTypeOK
<1>4. ClientTypeOK'
  <2>1. call' \in [Calls -> {"notMade", "waiting", "returned"}]
    BY <1>0, <1>1 DEF ClientTypeOK
  <2>2. target' \in [Calls -> 0..Children]
    BY <1>0, <1>1, ClientBoundsAssumption DEF ClientTypeOK
  <2>3. QED
    BY <1>0, <1>1, <1>3, <2>1, <2>2 DEF ClientTypeOK
<1>5. ProcInv' /\ IdInv' /\ LineInv' /\ PendingIsServed' /\ AnswersAreOwn'
  BY <1>0, <1>1 DEF ProcInv, IdInv, LineInv, PendingIsServed, AnswersAreOwn
<1>6. CallInv'
  BY <1>0, <1>1, <1>2, <1>3 DEF ClientTypeOK, CallInv
<1>7. RetiredIsGone'
  <2>1. child = NoChild => \A c \in Procs : proc[c] \in {"none", "gone"}
    BY <1>0 DEF ClientTypeOK, ProcInv
  <2>2. QED
    BY <1>0, <1>1, <2>1 DEF ClientTypeOK, RetiredIsGone
<1>8. QED
  BY <1>4, <1>5, <1>6, <1>7 DEF IInv

LEMMA GraceExpiresInv == ASSUME IInv, NEW k \in Calls, GraceExpires(k) PROVE IInv'
<1>1. child # NoChild /\ target[k] = child
  BY DEF GraceExpires, IInv, CallInv
<1>2. QED
  BY <1>1, DeathInv DEF GraceExpires

-----------------------------------------------------------------------------
LEMMA NextInv == IInv /\ [ClientNext]_clientVars => IInv'
<1> SUFFICES ASSUME IInv, [ClientNext]_clientVars PROVE IInv'
  OBVIOUS
<1>1. CASE Request
  BY <1>1, RequestInv
<1>2. ASSUME NEW r \in RequestIds, WriteFails(r) \/ Timeout(r) PROVE IInv'
  BY <1>2, WriteFailsInv, TimeoutInv
<1>3. CASE HelperAnswers
  BY <1>3, HelperAnswersInv
<1>4. CASE HelperDies
  BY <1>4, DeathInv DEF HelperDies
<1>5. CASE LineArrives
  BY <1>5, LineArrivesInv
<1>6. CASE ExitArrives
  BY <1>6, ExitArrivesInv
<1>7. CASE SpawnErrorArrives
  BY <1>7, SpawnErrorArrivesInv
<1>8. ASSUME NEW k \in Calls, Terminate(k) \/ GraceExpires(k) PROVE IInv'
  BY <1>8, TerminateInv, GraceExpiresInv
<1>9. CASE UNCHANGED clientVars
  BY <1>9 DEF clientVars, requestVars, settleVars, callVars, IInv, ClientTypeOK, ProcInv, IdInv,
              LineInv, CallInv, PendingIsServed, AnswersAreOwn, RetiredIsGone
<1>10. QED
  BY <1>1, <1>2, <1>3, <1>4, <1>5, <1>6, <1>7, <1>8, <1>9 DEF ClientNext

LEMMA Invariance == ClientSpec => []IInv
BY InitInv, NextInv, PTL DEF ClientSpec

\* The variables of the client keep their types.
THEOREM TypeCorrect == ClientSpec => []ClientTypeOK
BY Invariance, PTL DEF IInv

\* No request waits for a helper that is gone, and none is dropped without
\* its promise settling (onExit, onSpawnError, the timer and the callback).
THEOREM NoRequestIsLost == ClientSpec => []PendingIsServed
BY Invariance, PTL DEF IInv

\* No request resolves with another one's answer (onLine).
THEOREM AnswersReachTheirRequest == ClientSpec => []AnswersAreOwn
BY Invariance, PTL DEF IInv

\* What restart() and stop() end is gone when they return (killChild).
THEOREM EndedHelpersAreGone == ClientSpec => []RetiredIsGone
BY Invariance, PTL DEF IInv

\* Every request meets its own end, for any number of requests, helpers, restarts
\* and stops (ndjsonClient.ts).
THEOREM RequestsMeetTheirEnd == ClientSpec => []RequestsAreKept
BY NoRequestIsLost, AnswersReachTheirRequest, EndedHelpersAreGone, PTL DEF RequestsAreKept

-----------------------------------------------------------------------------
(* The sweep of the tracker (campaignSource.ts).                           *)

Steps == {"none", "lists", "pages", "done", "failed"}

SweepTypes ==
    /\ hour \in Nat
    /\ plan \in [Campaigns -> [known : Nat, opens : Nat, ends : Nat]]
    /\ scan \in [step : Steps, began : Nat, games : SUBSET ToSet(Games)]
    /\ scan.began <= hour
    /\ pages \in [ToSet(Games) -> [step : {"unread", "asked", "again", "read"},
                                   campaigns : SUBSET Campaigns]]

\* Whatever the age of the index and of the home page, what is owed is looked for.
OwedIsListed ==
    scan.step \in {"pages", "done"} =>
        \A c \in Campaigns : Owed(c) => GamesOf[c] \subseteq scan.games

\* Whatever the age of a page, what is owed of its game is on it.
OwedIsRead ==
    \A g \in ToSet(Games) : scan.step = "pages" /\ pages[g].step = "read" =>
        \A c \in Of(g) : Owed(c) => c \in pages[g].campaigns

\* What an earlier sweep read is forgotten.
NothingIsRead ==
    scan.step = "lists" => \A g \in ToSet(Games) : pages[g].step = "unread"

SweepInv == SweepTypes /\ OwedIsListed /\ OwedIsRead /\ NothingIsRead /\ SweepIsComplete

\* No campaign comes to be owed while a sweep runs.
LEMMA OwedBefore ==
    ASSUME SweepAssumption, SweepTypes, NEW c \in Campaigns, Owed(c)',
           plan' = plan, scan'.began = scan.began, hour' >= hour, hour' \in Nat
    PROVE  Owed(c)
BY DEF SweepAssumption, SweepTypes, Owed

LEMMA SweepStarts ==
    ASSUME SweepAssumption, SweepInit
    PROVE  SweepInv
<1>1. SweepTypes
  <2>1. 0..Horizon \subseteq Nat /\ 1..(Horizon + 1) \subseteq Nat
    BY DEF SweepAssumption
  <2>2. Plans \subseteq [known : Nat, opens : Nat, ends : Nat]
    BY <2>1 DEF Plans
  <2> QED
    BY <2>2 DEF SweepInit, SweepTypes, NoSweep, Unread, Steps
<1> QED
  BY <1>1 DEF SweepInit, SweepInv, OwedIsListed, OwedIsRead, NothingIsRead, SweepIsComplete,
         NoSweep, Unread

\* The index lists a campaign that runs, the home page one that is to open, as
\* long as neither is so old that it was read before the campaign was due.
LEMMA ListsKeeps ==
    ASSUME SweepAssumption, SweepInv, Lists
    PROVE  SweepInv'
<1>1. /\ hour \in Nat /\ MaxAge \in Nat /\ scan.began \in Nat /\ scan.began <= hour
      /\ \A c \in Campaigns : /\ plan[c].known \in Nat /\ plan[c].opens \in Nat
                              /\ plan[c].ends \in Nat
  BY DEF SweepInv, SweepTypes, SweepAssumption
<1>2. PICK index \in Moments, home \in Moments :
          scan' = [scan EXCEPT
                      !.step = "pages",
                      !.games = ToSet(Games) \cap
                                  (Listed(index) \cup Featured(home) \cup Followed)]
  BY DEF Lists
<1>3. /\ scan'.step = "pages" /\ scan'.began = scan.began
      /\ scan'.games = ToSet(Games) \cap (Listed(index) \cup Featured(home) \cup Followed)
  BY <1>2 DEF SweepInv, SweepTypes
<1>4. /\ index \in Nat /\ index <= hour /\ hour <= index + MaxAge
      /\ home \in Nat /\ home <= hour /\ hour <= home + MaxAge
  BY <1>1 DEF Moments
<1>5. UNCHANGED <<hour, plan, pages, list>>
  BY DEF Lists
<1>6. SweepTypes'
  BY <1>2, <1>5 DEF SweepInv, SweepTypes, Steps
<1>7. OwedIsListed'
  <2> SUFFICES ASSUME NEW c \in Campaigns, Owed(c), NEW g \in GamesOf[c]
               PROVE  g \in scan'.games
    BY <1>3, <1>5 DEF OwedIsListed, Owed
  <2>1. g \in ToSet(Games) /\ c \in Of(g)
    BY DEF SweepAssumption, Of
  <2>2. CASE plan[c].opens + MaxAge <= scan.began
    <3>1. Running(c, index)
      BY <1>1, <1>4, <2>2 DEF Running, Owed
    <3> QED
      BY <1>3, <2>1, <3>1 DEF Listed
  <2>3. CASE plan[c].opens > hour
    <3>1. Scheduled(c, home)
      BY <1>1, <1>4, <2>3 DEF Scheduled, Known, Owed
    <3> QED
      BY <1>3, <2>1, <3>1 DEF Featured
  <2> QED
    BY <2>2, <2>3 DEF Owed
<1>8. OwedIsRead' /\ NothingIsRead' /\ SweepIsComplete'
  <2>1. \A g \in ToSet(Games) : pages[g].step = "unread"
    BY DEF Lists, SweepInv, NothingIsRead
  <2> QED
    BY <1>3, <1>5, <2>1 DEF OwedIsRead, NothingIsRead, SweepIsComplete
<1> QED
  BY <1>6, <1>7, <1>8 DEF SweepInv

\* A page as it was up to MaxAge ago still shows what was known before the sweep,
\* and only what has ended is dropped.
LEMMA AnswersKeeps ==
    ASSUME SweepAssumption, SweepInv, NEW g \in ToSet(Games), Answers(g)
    PROVE  SweepInv'
<1>1. /\ hour \in Nat /\ MaxAge \in Nat /\ scan.began \in Nat /\ scan.began <= hour
      /\ \A c \in Campaigns : plan[c].known \in Nat
  BY DEF SweepInv, SweepTypes, SweepAssumption
<1>2. PICK t \in Moments :
          pages' = [pages EXCEPT ![g] = [step |-> "read",
                                         campaigns |-> ToCampaigns(GamePage(g, t))]]
  BY DEF Answers
<1>3. scan.step = "pages" /\ UNCHANGED <<hour, plan, scan, list, misses>>
  BY DEF Answers
<1>4. t \in Nat /\ hour <= t + MaxAge
  BY <1>1 DEF Moments
<1>5. /\ pages'[g].step = "read" /\ pages'[g].campaigns = ToCampaigns(GamePage(g, t))
      /\ \A h \in ToSet(Games) \ {g} : pages'[h] = pages[h]
  BY <1>2 DEF SweepInv, SweepTypes
<1>6. SweepTypes'
  <2>1. ToCampaigns(GamePage(g, t)) \subseteq Campaigns
    BY DEF ToCampaigns, GamePage, Of
  <2> QED
    BY <1>2, <1>3, <2>1 DEF SweepInv, SweepTypes
<1>7. \A c \in Of(g) : Owed(c) => c \in ToCampaigns(GamePage(g, t))
  <2> SUFFICES ASSUME NEW c \in Of(g), Owed(c)
               PROVE  c \in ToCampaigns(GamePage(g, t))
    OBVIOUS
  <2>1. c \in Campaigns
    BY DEF Of
  <2>2. Known(c, t)
    BY <1>1, <1>4, <2>1 DEF Known, Owed
  <2> QED
    BY <2>2 DEF Owed, ToCampaigns, GamePage
<1>8. OwedIsRead'
  BY <1>3, <1>5, <1>7 DEF SweepInv, OwedIsRead, Owed, Of
<1>9. OwedIsListed' /\ NothingIsRead' /\ SweepIsComplete'
  BY <1>3 DEF SweepInv, OwedIsListed, NothingIsRead, SweepIsComplete, Owed
<1> QED
  BY <1>6, <1>8, <1>9 DEF SweepInv

\* A page that is asked for, or asked for again, is not read.
LEMMA AskedKeeps ==
    ASSUME SweepInv, NEW g \in ToSet(Games), NEW step \in {"asked", "again"},
           scan.step = "pages", pages' = [pages EXCEPT ![g].step = step],
           UNCHANGED <<hour, plan, scan, list>>
    PROVE  SweepInv'
<1>1. /\ pages'[g].step = step
      /\ \A h \in ToSet(Games) \ {g} : pages'[h] = pages[h]
  BY DEF SweepInv, SweepTypes
<1>2. SweepTypes'
  BY DEF SweepInv, SweepTypes
<1>3. OwedIsRead'
  BY <1>1 DEF SweepInv, OwedIsRead, Owed, Of
<1> QED
  BY <1>2, <1>3 DEF SweepInv, OwedIsListed, NothingIsRead, SweepIsComplete, Owed

LEMMA ThrowsKeeps ==
    ASSUME SweepInv, Throws, UNCHANGED <<hour, plan, pages>>
    PROVE  SweepInv'
<1>1. scan' = [scan EXCEPT !.step = "failed"] /\ scan'.step = "failed"
  BY DEF Throws, SweepInv, SweepTypes
<1>2. SweepTypes'
  BY <1>1 DEF SweepInv, SweepTypes, Steps
<1> QED
  BY <1>1, <1>2 DEF SweepInv, OwedIsListed, OwedIsRead, NothingIsRead, SweepIsComplete

\* A sweep ends well when every page was read, and has what they list.
LEMMA EndsKeeps ==
    ASSUME SweepAssumption, SweepInv, Ends
    PROVE  SweepInv'
<1>1. CASE Throws
  BY <1>1, ThrowsKeeps DEF Ends
<1>2. CASE scan' = [scan EXCEPT !.step = "done"]
  <2>1. /\ scan.step = "pages" /\ scan'.step = "done" /\ scan'.games = scan.games
        /\ scan'.began = scan.began /\ list' = Found
        /\ \A g \in scan.games : pages[g].step = "read"
        /\ UNCHANGED <<hour, plan, pages>>
    BY <1>2 DEF Ends, SweepInv, SweepTypes
  <2>2. SweepTypes'
    BY <1>2, <2>1 DEF SweepInv, SweepTypes, Steps
  <2>3. OwedIsListed' /\ OwedIsRead' /\ NothingIsRead'
    BY <2>1 DEF SweepInv, OwedIsListed, OwedIsRead, NothingIsRead, Owed
  <2>4. ASSUME NEW c \in Campaigns, Owed(c)
        PROVE  c \in Found
    <3>1. PICK g : g \in GamesOf[c]
      BY DEF SweepAssumption
    <3>2. g \in scan.games /\ g \in ToSet(Games) /\ c \in Of(g)
      BY <2>1, <2>4, <3>1 DEF SweepInv, OwedIsListed, SweepAssumption, Of
    <3>3. c \in pages[g].campaigns
      BY <2>1, <2>4, <3>2 DEF SweepInv, OwedIsRead
    <3> QED
      BY <3>2, <3>3 DEF Found
  <2>5. SweepIsComplete'
    BY <2>1, <2>4 DEF SweepIsComplete, Owed
  <2> QED
    BY <2>2, <2>3, <2>5 DEF SweepInv
<1> QED
  BY <1>1, <1>2 DEF Ends

LEMMA SweepStep ==
    ASSUME SweepAssumption, SweepInv, [SweepNext]_sweepVars
    PROVE  SweepInv'
<1>1. CASE Tick
  <2>1. hour' = hour + 1 /\ hour \in Nat /\ UNCHANGED <<plan, scan, pages, list>>
    BY <1>1 DEF Tick, SweepInv, SweepTypes
  <2>2. SweepTypes'
    BY <2>1 DEF SweepInv, SweepTypes
  <2>3. \A c \in Campaigns : Owed(c)' => Owed(c)
    BY <2>1, OwedBefore DEF SweepInv
  <2>4. \A g \in ToSet(Games) : Of(g) \subseteq Campaigns
    BY DEF Of
  <2>5. OwedIsListed' /\ OwedIsRead' /\ NothingIsRead' /\ SweepIsComplete'
    BY <2>1, <2>3, <2>4
       DEF SweepInv, OwedIsListed, OwedIsRead, NothingIsRead, SweepIsComplete, Of
  <2> QED
    BY <2>2, <2>5 DEF SweepInv
<1>2. CASE Begins
  <2>1. /\ scan' = [step |-> "lists", began |-> hour, games |-> {}]
        /\ pages' = [g \in ToSet(Games) |-> Unread] /\ UNCHANGED <<hour, plan>>
    BY <1>2 DEF Begins
  <2>2. SweepTypes'
    BY <2>1 DEF SweepInv, SweepTypes, Unread, Steps
  <2> QED
    BY <2>1, <2>2 DEF SweepInv, OwedIsListed, OwedIsRead, NothingIsRead, SweepIsComplete,
                      Unread
<1>3. CASE Lists
  BY <1>3, ListsKeeps
<1>4. CASE ListsFail
  BY <1>4, ThrowsKeeps DEF ListsFail
<1>5. CASE Takes
  <2>1. PICK i \in DOMAIN Games : pages' = [pages EXCEPT ![Games[i]].step = "asked"]
    BY <1>5 DEF Takes
  <2>2. Games[i] \in ToSet(Games)
    BY DEF ToSet
  <2> QED
    BY <1>5, <2>1, <2>2, AskedKeeps DEF Takes
<1>6. ASSUME NEW g \in ToSet(Games), Answers(g)
      PROVE  SweepInv'
  BY <1>6, AnswersKeeps
<1>7. ASSUME NEW g \in ToSet(Games), ReadFails(g)
      PROVE  SweepInv'
  <2>1. scan.step = "pages" /\ PageFails(g) /\ UNCHANGED <<hour, plan, list>>
    BY <1>7 DEF ReadFails
  <2>2. CASE pages' = [pages EXCEPT ![g].step = "again"] /\ UNCHANGED scan
    BY <2>1, <2>2, AskedKeeps
  <2>3. CASE Throws /\ UNCHANGED pages
    BY <2>1, <2>3, ThrowsKeeps
  <2> QED
    BY <2>1, <2>2, <2>3 DEF PageFails
<1>8. CASE Ends
  BY <1>8, EndsKeeps
<1>9. CASE UNCHANGED sweepVars
  BY <1>9 DEF sweepVars, SweepInv, SweepTypes, OwedIsListed, OwedIsRead, NothingIsRead,
              SweepIsComplete, Owed, Of
<1> QED
  BY <1>1, <1>2, <1>3, <1>4, <1>5, <1>6, <1>7, <1>8, <1>9 DEF SweepNext

\* However old each page of the tracker is, in whatever order the pages come and
\* whichever have to be read twice, a sweep that ends well leaves out no campaign
\* that was known, not over, and steadily scheduled or open when it began
\* (campaignSource.ts: fetchCampaigns).
THEOREM SweepStaysComplete ==
    ASSUME SweepAssumption
    PROVE  SweepSpec => []SweepIsComplete
<1>1. SweepInit => SweepInv
  BY SweepStarts
<1>2. SweepInv /\ [SweepNext]_sweepVars => SweepInv'
  BY SweepStep
<1>3. SweepInv => SweepIsComplete
  BY DEF SweepInv
<1> QED
  BY <1>1, <1>2, <1>3, PTL DEF SweepSpec

-----------------------------------------------------------------------------
(* The drop badges (drops.ts).                                             *)

\* What a channel's badge should say while it streams.
Right(ch) == NextDrop(AllowsUnlinked(ch))

MinerEvents == [claim : {FALSE}, id : Drops, channel : Channels] \cup [claim : {TRUE}, id : Drops]

BadgeTypes ==
    /\ moment \in 0..LastMinute /\ minutes \in Nat /\ passed \in BOOLEAN
    /\ onAir \subseteq Channels
    /\ since \in [Channels -> Nat] /\ \A ch \in Channels : since[ch] <= moment
    /\ mode = [ch \in Channels |-> mode[ch]] /\ cards = [ch \in Channels |-> cards[ch]]
    /\ cached = [ch \in Channels |-> cached[ch]]
    /\ \A ch \in Channels : /\ cached[ch] = [drop |-> cached[ch].drop, at |-> cached[ch].at]
                            /\ cached[ch].at \in Nat
    /\ pass = NoPass \/
          /\ pass.step \in {"asked", "read"}
          /\ pass = [step |-> pass.step, wanted |-> pass.wanted, due |-> pass.due,
                     unlinked |-> pass.unlinked, at |-> pass.at, rung |-> pass.rung,
                     answer |-> pass.answer]
          /\ pass.rung \in BOOLEAN /\ pass.wanted \subseteq Channels
    /\ wires \in Seq(MinerEvents)

\* An answer is right, or what it should be changed after it was asked for.
AnswersWereRight ==
    \A ch \in Channels : cached[ch] # NeverAsked =>
        /\ cached[ch].at <= moment
        /\ cached[ch].drop = Right(ch) \/ cached[ch].at <= since[ch]

\* So is an event, which does not outlast its minute.
EventIsTrue(event) ==
    ~event.claim =>
        \/ since[event.channel] = moment
        \/ /\ event.channel \in onAir
           /\ Right(event.channel) = [id |-> event.id, claimable |-> FALSE]

EventsAreTrue == \A i \in 1..Len(wires) : EventIsTrue(wires[i])

\* Nor does a pass.  What it does not ask for is held, or a claim has rung.
PassIsTrue ==
    pass # NoPass =>
        /\ pass.at = moment /\ pass.due \subseteq pass.wanted
        /\ pass.rung \/ \A ch \in pass.wanted \ pass.due : ~Due(ch)
        /\ \A ch \in pass.due :
              \/ since[ch] = moment
              \/ pass.step = "asked" /\ (ch \in pass.unlinked <=> AllowsUnlinked(ch))
              \/ pass.step = "read" /\ pass.answer[ch] = Right(ch)

\* After a pass the cards show what is held, and what is held is not too old.
CardsShowAnswers ==
    passed /\ pass = NoPass => \A ch \in Channels :
        /\ \/ since[ch] = moment
           \/ cards[ch] = IF ch \in Wanted THEN cached[ch].drop ELSE None
        /\ ch \in Wanted => ~Due(ch) \/ moment <= since[ch] + DropsTtl

BadgeInv ==
    BadgeTypes /\ AnswersWereRight /\ EventsAreTrue /\ PassIsTrue /\ CardsShowAnswers

\* Whatever the world does, it either leaves what a badge should say or is why
\* that has just changed.
LEMMA WorldKeepsBadges ==
    ASSUME BadgeAssumption, BadgeInv, UNCHANGED <<moment, cached, pass, cards>>,
           onAir' \subseteq Channels, since' \in [Channels -> Nat],
           mode' = [ch \in Channels |-> mode'[ch]],
           minutes' \in Nat, passed' \in BOOLEAN, passed' => passed /\ Wanted' = Wanted,
           \A ch \in Channels :
              \/ since'[ch] = moment
              \/ /\ since'[ch] = since[ch] /\ Right(ch)' = Right(ch)
                 /\ AllowsUnlinked(ch)' = AllowsUnlinked(ch)
                 /\ ch \in onAir' <=> ch \in onAir,
           \/ wires' = wires
           \/ \E event \in MinerEvents : wires' = Append(wires, event) /\ EventIsTrue(event)'
    PROVE  BadgeInv'
<1> USE DEF BadgeInv
<1>1. moment \in Nat /\ \A ch \in Channels : since[ch] \in Nat /\ since'[ch] \in Nat
                                             /\ since[ch] <= moment
  BY DEF BadgeTypes
<1>2. \A ch \in Channels : since'[ch] <= moment /\ since[ch] <= since'[ch]
  BY <1>1
<1>3. wires' \in Seq(MinerEvents)
  <2>1. wires \in Seq(MinerEvents)
    BY DEF BadgeTypes
  <2> QED
    BY <2>1, AppendProperties
<1>4. BadgeTypes'
  BY <1>2, <1>3 DEF BadgeTypes
<1>5. AnswersWereRight'
  <2> SUFFICES ASSUME NEW ch \in Channels, cached[ch] # NeverAsked
               PROVE  /\ cached[ch].at <= moment
                      /\ cached[ch].drop = Right(ch)' \/ cached[ch].at <= since'[ch]
    BY DEF AnswersWereRight, NeverAsked, None
  <2>1. cached[ch].at <= moment /\ cached[ch].at \in Nat
    BY DEF AnswersWereRight, BadgeTypes
  <2>2. CASE since'[ch] = moment
    BY <2>1, <2>2
  <2>3. CASE since'[ch] = since[ch] /\ Right(ch)' = Right(ch)
    BY <2>1, <2>3 DEF AnswersWereRight
  <2> QED
    BY <2>2, <2>3
<1>6. EventsAreTrue'
  <2>1. \A event \in MinerEvents : EventIsTrue(event) => EventIsTrue(event)'
    <3> SUFFICES ASSUME NEW event \in MinerEvents, EventIsTrue(event), ~event.claim
                 PROVE  EventIsTrue(event)'
      BY DEF EventIsTrue
    <3>1. event.channel \in Channels
      BY DEF MinerEvents
    <3> QED
      BY <1>1, <1>2, <3>1 DEF EventIsTrue
  <2>2. CASE wires' = wires
    <3>1. \A i \in 1..Len(wires) : wires[i] \in MinerEvents
      BY ElementOfSeq DEF BadgeTypes
    <3> QED
      BY <2>1, <2>2, <3>1 DEF EventsAreTrue
  <2>3. ASSUME NEW event \in MinerEvents, wires' = Append(wires, event), EventIsTrue(event)'
        PROVE  EventsAreTrue'
    <3>1. /\ wires \in Seq(MinerEvents) /\ Len(wires) \in Nat
          /\ \A i \in 1..Len(wires) : wires[i] \in MinerEvents
      BY ElementOfSeq, LenProperties DEF BadgeTypes
    <3>2. /\ Len(wires') = Len(wires) + 1 /\ wires'[Len(wires) + 1] = event
          /\ \A i \in 1..Len(wires) : wires'[i] = wires[i]
      BY <2>3, <3>1, AppendProperties
    <3>3. \A i \in 1..Len(wires') : i \in 1..Len(wires) \/ i = Len(wires) + 1
      BY <3>1, <3>2
    <3>4. PICK queue : queue = wires'
      OBVIOUS
    <3>5. \A i \in 1..Len(queue) : EventIsTrue(queue[i])'
      BY <2>1, <2>3, <3>1, <3>2, <3>3, <3>4 DEF EventsAreTrue
    <3> QED
      BY <3>4, <3>5 DEF EventsAreTrue
  <2> QED
    BY <2>2, <2>3
<1>7. PassIsTrue'
  <2>1. \A ch \in Channels : Due(ch)' <=> Due(ch)
    BY DEF Due, NeverAsked, None
  <2> SUFFICES ASSUME pass # NoPass
               PROVE  PassIsTrue'
    BY DEF PassIsTrue, NoPass, None
  <2>2. pass.wanted \subseteq Channels /\ pass.due \subseteq Channels
    BY DEF BadgeTypes, PassIsTrue
  <2>3. ASSUME NEW ch \in pass.due
        PROVE  \/ since'[ch] = moment
               \/ pass.step = "asked" /\ (ch \in pass.unlinked <=> AllowsUnlinked(ch)')
               \/ pass.step = "read" /\ pass.answer[ch] = Right(ch)'
    BY <2>2, <2>3 DEF PassIsTrue
  <2> QED
    BY <2>1, <2>2, <2>3 DEF PassIsTrue
<1>8. CardsShowAnswers'
  <2> SUFFICES ASSUME passed', pass = NoPass, NEW ch \in Channels
               PROVE  /\ \/ since'[ch] = moment
                         \/ cards[ch] = IF ch \in Wanted THEN cached[ch].drop ELSE None
                      /\ ch \in Wanted => ~Due(ch) \/ moment <= since'[ch] + DropsTtl
    BY DEF CardsShowAnswers, Due, NeverAsked, None, NoPass
  <2>1. /\ \/ since[ch] = moment
           \/ cards[ch] = IF ch \in Wanted THEN cached[ch].drop ELSE None
        /\ ch \in Wanted => ~Due(ch) \/ moment <= since[ch] + DropsTtl
    BY DEF CardsShowAnswers
  <2> QED
    BY <1>1, <1>2, <2>1 DEF BadgeAssumption
<1> QED
  BY <1>4, <1>5, <1>6, <1>7, <1>8

\* A pass asks for what is due; without any it is over at once.
LEMMA PassStartsKeeps ==
    ASSUME BadgeAssumption, BadgeInv, PassStarts
    PROVE  BadgeInv'
<1> USE DEF BadgeInv
<1>1. PICK due : due = {ch \in Wanted : Due(ch)}
  OBVIOUS
<1>2. /\ pass = NoPass
      /\ UNCHANGED <<moment, onAir, mode, wires, cached, since, current, minutes, linked>>
      /\ \A ch \in Channels : (Due(ch)' <=> Due(ch)) /\ Right(ch)' = Right(ch)
                              /\ AllowsUnlinked(ch)' = AllowsUnlinked(ch)
      /\ Wanted' = Wanted /\ Wanted \subseteq Channels
  <2>1. /\ pass = NoPass
        /\ UNCHANGED <<moment, onAir, mode, wires, cached, since, current, minutes, linked>>
    BY DEF PassStarts, twitchVars
  <2>2. \A ch \in Channels : AllowsUnlinked(ch)' = AllowsUnlinked(ch)
    BY <2>1 DEF AllowsUnlinked
  <2>3. \A ch \in Channels : Right(ch)' = Right(ch)
    BY <2>1 DEF Right, NextDrop, AllowsUnlinked, None
  <2>4. \A ch \in Channels : Due(ch)' <=> Due(ch)
    BY <2>1 DEF Due, NeverAsked, None
  <2>5. Wanted' = Wanted
    BY <2>1 DEF Wanted, Eligible
  <2>6. Wanted \subseteq Channels
    BY DEF BadgeTypes, Wanted
  <2> QED
    BY <2>1, <2>2, <2>3, <2>4, <2>5, <2>6
<1>3. AnswersWereRight' /\ EventsAreTrue'
  <2>1. \A i \in 1..Len(wires) : wires[i] \in MinerEvents
    BY ElementOfSeq DEF BadgeTypes
  <2>2. \A event \in MinerEvents : ~event.claim => event.channel \in Channels
    BY DEF MinerEvents
  <2> QED
    BY <1>2, <2>1, <2>2 DEF AnswersWereRight, EventsAreTrue, EventIsTrue, NeverAsked, None
<1>4. CASE due = {}
  <2>1. cards' = Shown(Wanted, cached) /\ passed' = TRUE /\ pass' = pass
    BY <1>1, <1>4 DEF PassStarts
  <2>2. BadgeTypes' /\ PassIsTrue'
    BY <1>2, <2>1 DEF BadgeTypes, PassIsTrue, Shown, NoPass, None
  <2>3. CardsShowAnswers'
    BY <1>1, <1>2, <1>4, <2>1 DEF CardsShowAnswers, Shown
  <2> QED
    BY <1>3, <2>2, <2>3
<1>5. CASE due # {}
  <2>1. PICK unlinked : unlinked = {ch \in due : AllowsUnlinked(ch)}
    OBVIOUS
  <2>2. /\ pass' = [NoPass EXCEPT !.step = "asked", !.at = moment, !.due = due,
                                  !.wanted = Wanted, !.unlinked = unlinked]
        /\ cards' = cards /\ passed' = passed
    BY <1>1, <1>5, <2>1 DEF PassStarts
  <2>3. /\ pass'.step = "asked" /\ pass'.at = moment /\ pass'.due = due
        /\ pass'.wanted = Wanted /\ pass'.unlinked = unlinked /\ pass'.rung = FALSE
        /\ pass' = [step |-> "asked", wanted |-> Wanted, due |-> due, unlinked |-> unlinked,
                    at |-> moment, rung |-> FALSE, answer |-> pass'.answer]
    BY <2>2 DEF NoPass
  <2>4. pass' # NoPass
    BY <2>3 DEF NoPass
  <2>5. BadgeTypes'
    BY <1>2, <2>2, <2>3 DEF BadgeTypes, NoPass, None
  <2>6. PassIsTrue'
    <3>1. due \subseteq Wanted /\ \A ch \in Wanted \ due : ~Due(ch)
      BY <1>1
    <3>2. \A ch \in due : ch \in unlinked <=> AllowsUnlinked(ch)
      BY <2>1
    <3> QED
      BY <1>2, <2>3, <3>1, <3>2 DEF PassIsTrue
  <2>7. CardsShowAnswers'
    BY <2>4 DEF CardsShowAnswers, NoPass, None
  <2> QED
    BY <1>3, <2>5, <2>6, <2>7
<1> QED
  BY <1>4, <1>5

\* Twitch answers with what is right then; what a lookup that failed says is new.
LEMMA ReadKeeps ==
    ASSUME BadgeAssumption, BadgeInv, NEW failing \in SUBSET Channels, Read(failing)
    PROVE  BadgeInv'
<1> USE DEF BadgeInv
<1>1. PICK answer : answer = [ch \in Channels |->
                                IF ch \in failing THEN None ELSE NextDrop(ch \in pass.unlinked)]
  OBVIOUS
<1>2. /\ pass.step = "asked" /\ pass # NoPass /\ failing \subseteq pass.due
      /\ pass' = [pass EXCEPT !.step = "read", !.answer = answer]
      /\ since' = [ch \in Channels |-> IF ch \in failing THEN moment ELSE since[ch]]
      /\ UNCHANGED <<moment, onAir, mode, wires, cached, current, minutes, linked, cards, passed>>
  BY <1>1 DEF Read, twitchVars, NoPass
<1>3. /\ pass'.step = "read" /\ pass'.at = pass.at /\ pass'.due = pass.due
      /\ pass'.wanted = pass.wanted /\ pass'.rung = pass.rung /\ pass'.answer = answer
      /\ pass' = [step |-> "read", wanted |-> pass.wanted, due |-> pass.due,
                  unlinked |-> pass.unlinked, at |-> pass.at, rung |-> pass.rung,
                  answer |-> answer]
  BY <1>2 DEF BadgeTypes
<1>4. pass' # NoPass
  BY <1>3 DEF NoPass
<1>5. moment \in Nat /\ \A ch \in Channels : /\ since'[ch] \in Nat /\ since'[ch] <= moment
                                             /\ since[ch] <= since'[ch]
                                             /\ since[ch] = moment => since'[ch] = moment
  BY <1>2 DEF BadgeTypes
<1>6. \A ch \in Channels : (Due(ch)' <=> Due(ch)) /\ Right(ch)' = Right(ch)
  BY <1>2 DEF Due, Right, AllowsUnlinked, NextDrop, NeverAsked, None
<1>7. BadgeTypes'
  BY <1>2, <1>3, <1>5 DEF BadgeTypes
<1>8. AnswersWereRight'
  <2> SUFFICES ASSUME NEW ch \in Channels, cached[ch] # NeverAsked
               PROVE  /\ cached[ch].at <= moment
                      /\ cached[ch].drop = Right(ch) \/ cached[ch].at <= since'[ch]
    BY <1>2, <1>6 DEF AnswersWereRight, NeverAsked, None
  <2>1. cached[ch].at \in Nat /\ since[ch] \in Nat
    BY DEF BadgeTypes
  <2> QED
    BY <1>5, <2>1 DEF AnswersWereRight
<1>9. EventsAreTrue'
  <2>1. \A i \in 1..Len(wires) : wires[i] \in MinerEvents
    BY ElementOfSeq DEF BadgeTypes
  <2>2. \A event \in MinerEvents : ~event.claim => event.channel \in Channels
    BY DEF MinerEvents
  <2> QED
    BY <1>2, <1>5, <1>6, <2>1, <2>2 DEF EventsAreTrue, EventIsTrue
<1>10. PassIsTrue'
  <2>1. pass.wanted \subseteq Channels /\ pass.due \subseteq Channels
    BY <1>2 DEF BadgeTypes, PassIsTrue
  <2>2. ASSUME NEW ch \in pass.due
        PROVE  since'[ch] = moment \/ answer[ch] = Right(ch)
    <3>1. CASE ch \in failing
      BY <1>2, <2>1, <3>1
    <3>2. CASE ch \notin failing /\ since[ch] # moment
      <4>1. ch \in pass.unlinked <=> AllowsUnlinked(ch)
        BY <1>2, <3>2 DEF PassIsTrue
      <4>2. answer[ch] = NextDrop(ch \in pass.unlinked)
        BY <1>1, <2>1, <3>2
      <4> QED
        BY <4>1, <4>2 DEF Right, NextDrop
    <3> QED
      BY <1>5, <2>1, <3>1, <3>2
  <2> QED
    BY <1>2, <1>3, <1>6, <2>1, <2>2 DEF PassIsTrue
<1>11. CardsShowAnswers'
  BY <1>4 DEF CardsShowAnswers, NoPass, None
<1> QED
  BY <1>7, <1>8, <1>9, <1>10, <1>11

\* The end of a pass: what it holds then is what the cards show, and what it asked
\* for in vain counts as wrong for as long as an answer is held.
LEMMA PassEndsKeeps ==
    ASSUME BadgeAssumption, BadgeInv, pass # NoPass, NEW held, PassEnds(held),
           held = [ch \in Channels |-> held[ch]], since' \in [Channels -> Nat],
           \A ch \in Channels :
              /\ held[ch] = [drop |-> held[ch].drop, at |-> held[ch].at]
              /\ held[ch].at \in Nat
              /\ held[ch] # NeverAsked =>
                    /\ held[ch].at <= moment
                    /\ held[ch].drop = Right(ch) \/ held[ch].at <= since'[ch]
              /\ since[ch] <= since'[ch] /\ since'[ch] <= moment
              /\ ch \in pass.due => \/ held[ch] # NeverAsked /\ held[ch].at = moment
                                    \/ moment <= since'[ch] + DropsTtl
              /\ ch \notin pass.due => held[ch] = cached[ch]
    PROVE  BadgeInv'
<1> USE DEF BadgeInv
<1>1. /\ cached' = held /\ cards' = Shown(pass.wanted, held) /\ pass' = NoPass
      /\ passed' = (pass.wanted = Wanted /\ ~pass.rung)
      /\ UNCHANGED <<moment, onAir, mode, wires, current, minutes, linked>>
  BY DEF PassEnds, twitchVars
<1>2. moment \in Nat /\ DropsTtl \in Nat /\ \A ch \in Channels : since[ch] \in Nat
  BY DEF BadgeTypes, BadgeAssumption
<1>3. Wanted' = Wanted /\ \A ch \in Channels : Right(ch)' = Right(ch)
  BY <1>1 DEF Wanted, Eligible, Right, AllowsUnlinked, NextDrop, None
<1>4. BadgeTypes'
  <2>1. passed' \in BOOLEAN
    BY <1>1
  <2>2. cards' = [ch \in Channels |-> cards'[ch]]
    BY <1>1 DEF Shown
  <2> QED
    BY <1>1, <1>2, <2>1, <2>2 DEF BadgeTypes, NoPass, None
<1>5. AnswersWereRight'
  BY <1>1, <1>3 DEF AnswersWereRight, NeverAsked, None
<1>6. EventsAreTrue'
  <2>1. \A i \in 1..Len(wires) : wires[i] \in MinerEvents
    BY ElementOfSeq DEF BadgeTypes
  <2>2. \A event \in MinerEvents : ~event.claim => event.channel \in Channels
    BY DEF MinerEvents
  <2>3. \A ch \in Channels : since[ch] = moment => since'[ch] = moment
    BY <1>2
  <2> QED
    BY <1>1, <1>3, <2>1, <2>2, <2>3 DEF EventsAreTrue, EventIsTrue
<1>7. PassIsTrue'
  BY <1>1 DEF PassIsTrue, NoPass, None
<1>8. CardsShowAnswers'
  <2> SUFFICES ASSUME passed', NEW ch \in Channels
               PROVE  /\ cards'[ch] = IF ch \in Wanted THEN held[ch].drop ELSE None
                      /\ ch \in Wanted => ~Due(ch)' \/ moment <= since'[ch] + DropsTtl
    BY <1>1, <1>3 DEF CardsShowAnswers
  <2>1. pass.wanted = Wanted /\ ~pass.rung
    BY <1>1
  <2>2. cards'[ch] = IF ch \in Wanted THEN held[ch].drop ELSE None
    BY <1>1, <2>1 DEF Shown
  <2>3. ASSUME ch \in Wanted
        PROVE  ~Due(ch)' \/ moment <= since'[ch] + DropsTtl
    <3>1. CASE ch \in pass.due
      <4>1. CASE held[ch] # NeverAsked /\ held[ch].at = moment
        <5>1. ~(moment - held[ch].at > DropsTtl)
          BY <1>2, <4>1
        <5> QED
          BY <1>1, <4>1, <5>1 DEF Due, NeverAsked, None
      <4> QED
        BY <3>1, <4>1
    <3>2. CASE ch \notin pass.due
      <4>1. ~Due(ch) /\ held[ch] = cached[ch]
        BY <2>1, <2>3, <3>2 DEF PassIsTrue
      <4> QED
        BY <1>1, <4>1 DEF Due, NeverAsked, None
    <3> QED
      BY <3>1, <3>2
  <2> QED
    BY <2>2, <2>3
<1> QED
  BY <1>4, <1>5, <1>6, <1>7, <1>8

LEMMA StoredKeeps ==
    ASSUME BadgeAssumption, BadgeInv, Stored
    PROVE  BadgeInv'
<1>1. PICK held : held = [ch \in Channels |-> IF ch \in pass.due
                                                THEN [drop |-> pass.answer[ch], at |-> pass.at]
                                                ELSE cached[ch]]
  OBVIOUS
<1>2. pass.step = "read" /\ pass # NoPass /\ PassEnds(held) /\ since' = since
  BY <1>1 DEF Stored, NoPass
<1>3. moment \in Nat /\ pass.at = moment /\ moment # LastMinute + 1
  BY <1>2 DEF BadgeInv, BadgeTypes, PassIsTrue, BadgeAssumption
<1>4. ASSUME NEW ch \in Channels, ch \in pass.due
      PROVE  /\ held[ch] = [drop |-> held[ch].drop, at |-> held[ch].at]
             /\ held[ch].at = moment /\ held[ch] # NeverAsked
             /\ held[ch].drop = Right(ch) \/ since[ch] = moment
  <2>1. held[ch] = [drop |-> pass.answer[ch], at |-> pass.at]
    BY <1>1, <1>4
  <2>2. since[ch] = moment \/ pass.answer[ch] = Right(ch)
    BY <1>2, <1>4 DEF BadgeInv, PassIsTrue
  <2> QED
    BY <1>3, <2>1, <2>2 DEF NeverAsked
<1>5. ASSUME NEW ch \in Channels, ch \notin pass.due
      PROVE  /\ held[ch] = cached[ch]
             /\ cached[ch] = [drop |-> cached[ch].drop, at |-> cached[ch].at]
             /\ cached[ch].at \in Nat
             /\ cached[ch] # NeverAsked =>
                   /\ cached[ch].at <= moment
                   /\ cached[ch].drop = Right(ch) \/ cached[ch].at <= since[ch]
  BY <1>1, <1>5 DEF BadgeInv, BadgeTypes, AnswersWereRight
<1>6. /\ since \in [Channels -> Nat] /\ \A ch \in Channels : since[ch] <= moment
      /\ held = [ch \in Channels |-> held[ch]]
  BY <1>1 DEF BadgeInv, BadgeTypes
<1>7. ASSUME NEW ch \in Channels
      PROVE  /\ held[ch] = [drop |-> held[ch].drop, at |-> held[ch].at]
             /\ held[ch].at \in Nat
             /\ held[ch] # NeverAsked =>
                   /\ held[ch].at <= moment
                   /\ held[ch].drop = Right(ch) \/ held[ch].at <= since'[ch]
             /\ since[ch] <= since'[ch] /\ since'[ch] <= moment
             /\ ch \in pass.due => \/ held[ch] # NeverAsked /\ held[ch].at = moment
                                   \/ moment <= since'[ch] + DropsTtl
             /\ ch \notin pass.due => held[ch] = cached[ch]
  <2>1. /\ since[ch] \in Nat /\ since[ch] <= moment /\ since'[ch] = since[ch]
        /\ since[ch] <= since'[ch] /\ since'[ch] <= moment
    BY <1>2, <1>3, <1>6
  <2>2. CASE ch \in pass.due
    <3>1. /\ held[ch] = [drop |-> held[ch].drop, at |-> held[ch].at]
          /\ held[ch].at = moment /\ held[ch] # NeverAsked
          /\ held[ch].drop = Right(ch) \/ since[ch] = moment
      BY <1>4, <2>2
    <3>2. held[ch].at \in Nat /\ held[ch].at <= moment
      BY <1>3, <3>1
    <3>3. since[ch] = moment => held[ch].at <= since'[ch]
      BY <1>3, <2>1, <3>1
    <3> QED
      BY <2>1, <2>2, <3>1, <3>2, <3>3
  <2>3. CASE ch \notin pass.due
    BY <1>5, <2>1, <2>3
  <2> QED
    BY <2>2, <2>3
<1> QED
  BY <1>2, <1>6, <1>7, PassEndsKeeps

LEMMA RefusedKeeps ==
    ASSUME BadgeAssumption, BadgeInv, Refused
    PROVE  BadgeInv'
<1>1. /\ pass # NoPass /\ PassEnds(cached)
      /\ since' = [ch \in Channels |-> IF ch \in pass.due /\ since[ch] + DropsTtl < moment
                                         THEN moment - DropsTtl ELSE since[ch]]
  BY DEF Refused, NoPass
<1>2. /\ moment \in Nat /\ DropsTtl \in Nat
      /\ \A ch \in Channels : since[ch] \in Nat /\ since[ch] <= moment /\ cached[ch].at \in Nat
  BY DEF BadgeInv, BadgeTypes, BadgeAssumption
<1>3. ASSUME NEW ch \in Channels
      PROVE  /\ since'[ch] \in Nat /\ since[ch] <= since'[ch] /\ since'[ch] <= moment
             /\ ch \in pass.due => moment <= since'[ch] + DropsTtl
  <2>1. CASE ch \in pass.due /\ since[ch] + DropsTtl < moment
    <3>1. since'[ch] = moment - DropsTtl
      BY <1>1, <2>1
    <3> QED
      BY <1>2, <2>1, <3>1
  <2>2. CASE ~(ch \in pass.due /\ since[ch] + DropsTtl < moment)
    <3>1. since'[ch] = since[ch]
      BY <1>1, <2>2
    <3> QED
      BY <1>2, <2>2, <3>1
  <2> QED
    BY <2>1, <2>2
<1>4. since' \in [Channels -> Nat]
  BY <1>1, <1>3
<1>5. ASSUME NEW ch \in Channels
      PROVE  /\ cached[ch] = [drop |-> cached[ch].drop, at |-> cached[ch].at]
             /\ cached[ch] # NeverAsked =>
                   /\ cached[ch].at <= moment
                   /\ cached[ch].drop = Right(ch) \/ cached[ch].at <= since'[ch]
  <2>1. cached[ch] # NeverAsked =>
           /\ cached[ch].at <= moment
           /\ cached[ch].drop = Right(ch) \/ cached[ch].at <= since[ch]
    BY DEF BadgeInv, AnswersWereRight
  <2>2. cached[ch].at <= since[ch] => cached[ch].at <= since'[ch]
    BY <1>2, <1>3
  <2> QED
    BY <2>1, <2>2 DEF BadgeInv, BadgeTypes
<1>6. cached = [ch \in Channels |-> cached[ch]]
  BY DEF BadgeInv, BadgeTypes
<1> QED
  BY <1>1, <1>2, <1>3, <1>4, <1>5, <1>6, PassEndsKeeps

\* An event that comes off its wire: of each channel it leaves what is held alone,
\* or forgets it and has the next pass know, or moves the answer and the card alike.
LEMMA RungKeeps ==
    ASSUME BadgeAssumption, BadgeInv,
           UNCHANGED <<moment, onAir, mode, since, current, minutes, linked>>,
           wires # <<>>, wires' = Tail(wires), passed' \in BOOLEAN, passed' => passed,
           cached' = [ch \in Channels |-> cached'[ch]], cards' = [ch \in Channels |-> cards'[ch]],
           NEW rung \in BOOLEAN, pass.rung => rung,
           pass' = IF pass = NoPass THEN pass ELSE [pass EXCEPT !.rung = rung],
           \A ch \in Channels :
              \/ cached'[ch] = cached[ch] /\ cards'[ch] = cards[ch]
              \/ cached'[ch] = NeverAsked /\ ~passed' /\ rung
              \/ /\ cached[ch] # NeverAsked
                 /\ cached'[ch] = [drop |-> cards'[ch], at |-> cached[ch].at]
                 /\ \/ since[ch] = moment
                    \/ ch \in Wanted /\ cards'[ch] \in {Right(ch), cached[ch].drop}
    PROVE  BadgeInv'
<1> USE DEF BadgeInv
<1>1. moment \in Nat /\ LastMinute \in Nat /\ \A ch \in Channels : since[ch] \in Nat
  BY DEF BadgeTypes, BadgeAssumption
<1>2. \A ch \in Channels : Right(ch)' = Right(ch)
  BY DEF Right, NextDrop, AllowsUnlinked, None
<1>3. \A ch \in Channels : AllowsUnlinked(ch)' = AllowsUnlinked(ch)
  BY DEF AllowsUnlinked
<1>4. Wanted' = Wanted
  BY DEF Wanted, Eligible
<1>5. /\ pass # NoPass <=> pass' # NoPass
      /\ pass # NoPass => /\ pass'.step = pass.step /\ pass'.wanted = pass.wanted
                          /\ pass'.due = pass.due /\ pass'.unlinked = pass.unlinked
                          /\ pass'.at = pass.at /\ pass'.answer = pass.answer
                          /\ pass'.rung = rung
                          /\ pass' = [step |-> pass.step, wanted |-> pass.wanted,
                                      due |-> pass.due, unlinked |-> pass.unlinked,
                                      at |-> pass.at, rung |-> rung, answer |-> pass.answer]
  <2>1. CASE pass = NoPass
    BY <2>1
  <2>2. CASE pass # NoPass
    <3>1. pass' = [pass EXCEPT !.rung = rung] /\ pass.step \in {"asked", "read"}
      BY <2>2 DEF BadgeTypes
    <3>2. /\ pass'.step = pass.step /\ pass'.wanted = pass.wanted /\ pass'.due = pass.due
          /\ pass'.unlinked = pass.unlinked /\ pass'.at = pass.at
          /\ pass'.answer = pass.answer /\ pass'.rung = rung
          /\ pass' = [step |-> pass.step, wanted |-> pass.wanted, due |-> pass.due,
                      unlinked |-> pass.unlinked, at |-> pass.at, rung |-> rung,
                      answer |-> pass.answer]
      BY <2>2, <3>1 DEF BadgeTypes
    <3>3. pass' # NoPass
      BY <3>1, <3>2 DEF NoPass
    <3> QED
      BY <2>2, <3>2, <3>3
  <2> QED
    BY <2>1, <2>2
<1>6. ASSUME NEW ch \in Channels
      PROVE  /\ cached'[ch] = [drop |-> cached'[ch].drop, at |-> cached'[ch].at]
             /\ cached'[ch].at \in Nat
             /\ cached'[ch] # NeverAsked =>
                   /\ cached'[ch].at <= moment
                   /\ cached'[ch].drop = Right(ch) \/ cached'[ch].at <= since[ch]
             /\ (Due(ch)' <=> Due(ch)) \/ (~passed' /\ rung)
  <2>1. /\ cached[ch] = [drop |-> cached[ch].drop, at |-> cached[ch].at]
        /\ cached[ch].at \in Nat
        /\ cached[ch] # NeverAsked =>
              /\ cached[ch].at <= moment
              /\ cached[ch].drop = Right(ch) \/ cached[ch].at <= since[ch]
    BY DEF BadgeTypes, AnswersWereRight
  <2>2. CASE cached'[ch] = cached[ch]
    BY <2>1, <2>2 DEF Due, NeverAsked, None
  <2>3. CASE cached'[ch] = NeverAsked /\ ~passed' /\ rung
    BY <1>1, <2>3 DEF NeverAsked
  <2>4. CASE /\ cached[ch] # NeverAsked
             /\ cached'[ch] = [drop |-> cards'[ch], at |-> cached[ch].at]
             /\ \/ since[ch] = moment
                \/ ch \in Wanted /\ cards'[ch] \in {Right(ch), cached[ch].drop}
    <3>1. moment # LastMinute + 1 /\ moment <= LastMinute
      BY <1>1 DEF BadgeTypes
    <3>2. cached'[ch].at = cached[ch].at /\ cached'[ch].drop = cards'[ch]
      BY <2>4
    <3>3. cached'[ch] # NeverAsked
      BY <1>1, <2>1, <2>4, <3>1, <3>2 DEF NeverAsked
    <3>4. Due(ch)' <=> Due(ch)
      BY <2>4, <3>2, <3>3 DEF Due, NeverAsked, None
    <3> QED
      BY <1>1, <2>1, <2>4, <3>2, <3>4
  <2> QED
    BY <2>2, <2>3, <2>4
<1>7. BadgeTypes'
  <2>1. wires' \in Seq(MinerEvents)
    BY HeadTailProperties DEF BadgeTypes
  <2>2. pass' = NoPass \/
          /\ pass'.step \in {"asked", "read"}
          /\ pass' = [step |-> pass'.step, wanted |-> pass'.wanted, due |-> pass'.due,
                      unlinked |-> pass'.unlinked, at |-> pass'.at, rung |-> pass'.rung,
                      answer |-> pass'.answer]
          /\ pass'.rung \in BOOLEAN /\ pass'.wanted \subseteq Channels
    <3>1. CASE pass = NoPass
      BY <3>1
    <3>2. CASE pass # NoPass
      BY <1>5, <3>2 DEF BadgeTypes
    <3> QED
      BY <3>1, <3>2
  <2> QED
    BY <1>6, <2>1, <2>2 DEF BadgeTypes, NoPass, None
<1>8. AnswersWereRight'
  BY <1>2, <1>6 DEF AnswersWereRight, NeverAsked, None
<1>9. EventsAreTrue'
  <2>1. \A i \in 1..Len(wires) : wires[i] \in MinerEvents
    BY ElementOfSeq DEF BadgeTypes
  <2>2. \A event \in MinerEvents : EventIsTrue(event) => EventIsTrue(event)'
    <3>1. \A event \in MinerEvents : ~event.claim => event.channel \in Channels
      BY DEF MinerEvents
    <3> QED
      BY <1>2, <3>1 DEF EventIsTrue
  <2>3. /\ Len(Tail(wires)) = Len(wires) - 1 /\ Len(wires) \in Nat
        /\ \A i \in 1..Len(Tail(wires)) : Tail(wires)[i] = wires[i + 1]
    BY HeadTailProperties, LenProperties DEF BadgeTypes
  <2>4. \A i \in 1..Len(Tail(wires)) : i + 1 \in 1..Len(wires)
    BY <2>3
  <2>5. \A i \in 1..Len(Tail(wires)) : EventIsTrue(Tail(wires)[i])
    BY <2>3, <2>4 DEF EventsAreTrue
  <2>6. PICK queue : queue = wires'
    OBVIOUS
  <2>7. \A i \in 1..Len(queue) : queue[i] \in MinerEvents /\ EventIsTrue(queue[i])
    BY <2>1, <2>3, <2>4, <2>5, <2>6
  <2> QED
    BY <2>2, <2>6, <2>7 DEF EventsAreTrue
<1>10. PassIsTrue'
  <2> SUFFICES ASSUME pass # NoPass
               PROVE  /\ pass.at = moment /\ pass.due \subseteq pass.wanted
                      /\ rung \/ \A ch \in pass.wanted \ pass.due : ~Due(ch)'
                      /\ \A ch \in pass.due :
                            \/ since[ch] = moment
                            \/ /\ pass.step = "asked"
                               /\ ch \in pass.unlinked <=> AllowsUnlinked(ch)'
                            \/ pass.step = "read" /\ pass.answer[ch] = Right(ch)'
    BY <1>5 DEF PassIsTrue, NoPass, None
  <2>1. pass.wanted \subseteq Channels /\ pass.due \subseteq Channels
    BY DEF BadgeTypes, PassIsTrue
  <2> QED
    BY <1>2, <1>3, <1>6, <2>1 DEF PassIsTrue
<1>11. CardsShowAnswers'
  <2> SUFFICES ASSUME passed', pass = NoPass, NEW ch \in Channels
               PROVE  /\ \/ since[ch] = moment
                         \/ cards'[ch] = IF ch \in Wanted THEN cached'[ch].drop ELSE None
                      /\ ch \in Wanted => ~Due(ch)' \/ moment <= since[ch] + DropsTtl
    BY <1>4, <1>5 DEF CardsShowAnswers
  <2>1. /\ \/ since[ch] = moment
           \/ cards[ch] = IF ch \in Wanted THEN cached[ch].drop ELSE None
        /\ ch \in Wanted => ~Due(ch) \/ moment <= since[ch] + DropsTtl
    BY DEF CardsShowAnswers
  <2>2. ch \in Wanted => ~Due(ch)' \/ moment <= since[ch] + DropsTtl
    BY <1>6, <2>1
  <2>3. \/ since[ch] = moment
        \/ cards'[ch] = IF ch \in Wanted THEN cached'[ch].drop ELSE None
    <3>1. CASE cached'[ch] = cached[ch] /\ cards'[ch] = cards[ch]
      BY <2>1, <3>1
    <3>2. CASE cached'[ch] = [drop |-> cards'[ch], at |-> cached[ch].at] /\ ch \in Wanted
      BY <3>2
    <3> QED
      BY <3>1, <3>2
  <2> QED
    BY <2>2, <2>3
<1> QED
  BY <1>7, <1>8, <1>9, <1>10, <1>11

LEMMA RingsKeeps ==
    ASSUME BadgeAssumption, BadgeInv, Rings
    PROVE  BadgeInv'
<1>1. PICK event : event = Head(wires)
  OBVIOUS
<1>2. /\ wires # <<>> /\ wires' = Tail(wires)
      /\ UNCHANGED <<moment, onAir, mode, since, current, minutes, linked>>
  BY DEF Rings, twitchVars
<1>3. event \in MinerEvents /\ EventIsTrue(event)
  <2>1. wires \in Seq(MinerEvents)
    BY DEF BadgeInv, BadgeTypes
  <2>2. Len(wires) \in Nat \ {0} /\ event = wires[1]
    BY <1>1, <1>2, <2>1, EmptySeq, LenProperties
  <2> QED
    BY <1>1, <1>2, <2>1, <2>2, HeadTailProperties DEF BadgeInv, EventsAreTrue
<1>4. /\ passed \in BOOLEAN /\ event.claim \in BOOLEAN /\ pass.rung \in BOOLEAN
      /\ cached = [ch \in Channels |-> cached[ch]] /\ cards = [ch \in Channels |-> cards[ch]]
      /\ pass # NoPass => pass = [step |-> pass.step, wanted |-> pass.wanted,
                                  due |-> pass.due, unlinked |-> pass.unlinked,
                                  at |-> pass.at, rung |-> pass.rung,
                                  answer |-> pass.answer]
  <2>1. event.claim \in BOOLEAN
    BY <1>3 DEF MinerEvents
  <2>2. CASE pass = NoPass
    BY <2>1, <2>2 DEF BadgeInv, BadgeTypes, NoPass
  <2>3. CASE pass # NoPass
    BY <2>1, <2>3 DEF BadgeInv, BadgeTypes
  <2> QED
    BY <2>2, <2>3
<1>5. CASE UNCHANGED <<cached, cards, passed, pass>>
  <2>1. pass' = IF pass = NoPass THEN pass ELSE [pass EXCEPT !.rung = pass.rung]
    BY <1>4, <1>5
  <2> QED
    BY <1>2, <1>4, <1>5, <2>1, RungKeeps
<1>6. CASE /\ IF event.claim THEN Forgotten(event.id)
                             ELSE Observed(event.channel, event.id)
           /\ passed' = (passed /\ ~event.claim)
           /\ pass' = IF pass = NoPass THEN pass
                      ELSE [pass EXCEPT !.rung = @ \/ event.claim]
  <2>1. PICK rung : rung = (pass.rung \/ event.claim)
    OBVIOUS
  <2>2. pass' = IF pass = NoPass THEN pass ELSE [pass EXCEPT !.rung = rung]
    BY <1>6, <2>1
  <2>3. rung \in BOOLEAN /\ (pass.rung => rung) /\ passed' \in BOOLEAN /\ (passed' => passed)
    BY <1>4, <1>6, <2>1
  <2>4. /\ cached' = [ch \in Channels |-> cached'[ch]] /\ cards' = [ch \in Channels |-> cards'[ch]]
        /\ \A ch \in Channels :
              \/ cached'[ch] = cached[ch] /\ cards'[ch] = cards[ch]
              \/ cached'[ch] = NeverAsked /\ ~passed' /\ rung
              \/ /\ cached[ch] # NeverAsked
                 /\ cached'[ch] = [drop |-> cards'[ch], at |-> cached[ch].at]
                 /\ \/ since[ch] = moment
                    \/ ch \in Wanted /\ cards'[ch] \in {Right(ch), cached[ch].drop}
    <3>1. CASE event.claim
      <4>1. Forgotten(event.id) /\ ~passed' /\ rung
        BY <1>4, <1>6, <2>1, <3>1
      <4> QED
        BY <1>4, <4>1 DEF Forgotten
    <3>2. CASE ~event.claim
      <4>1. PICK at \in Channels : at = event.channel
        BY <1>3, <3>2 DEF MinerEvents
      <4>2. Observed(at, event.id)
        BY <1>6, <3>2, <4>1
      <4>3. CASE cached[at] = NeverAsked \/ ~Eligible(at)
        BY <1>4, <4>2, <4>3 DEF Observed
      <4>4. CASE ~(cached[at] = NeverAsked \/ ~Eligible(at))
        <5>1. PICK drop : drop = IF cached[at].drop.id = event.id THEN cached[at].drop
                                 ELSE [id |-> event.id, claimable |-> FALSE]
          OBVIOUS
        <5>2. /\ cached' = [cached EXCEPT ![at].drop = drop]
              /\ cards' = [cards EXCEPT ![at] = drop]
          BY <4>2, <4>4, <5>1 DEF Observed
        <5>3. cached[at] = [drop |-> cached[at].drop, at |-> cached[at].at]
          BY DEF BadgeInv, BadgeTypes
        <5>4. /\ cached'[at] = [drop |-> drop, at |-> cached[at].at] /\ cards'[at] = drop
              /\ \A ch \in Channels \ {at} : cached'[ch] = cached[ch] /\ cards'[ch] = cards[ch]
              /\ cached' = [ch \in Channels |-> cached'[ch]]
              /\ cards' = [ch \in Channels |-> cards'[ch]]
          BY <1>4, <5>2, <5>3
        <5>5. \/ since[at] = moment
              \/ at \in Wanted /\ drop \in {Right(at), cached[at].drop}
          BY <1>3, <3>2, <4>1, <4>4, <5>1 DEF EventIsTrue, Wanted
        <5> QED
          BY <4>4, <5>4, <5>5
      <4> QED
        BY <4>3, <4>4
    <3> QED
      BY <3>1, <3>2
  <2> QED
    BY <1>2, <2>2, <2>3, <2>4, RungKeeps
<1>7. \/ UNCHANGED <<cached, cards, passed, pass>>
      \/ /\ IF event.claim THEN Forgotten(event.id)
                           ELSE Observed(event.channel, event.id)
         /\ passed' = (passed /\ ~event.claim)
         /\ pass' = IF pass = NoPass THEN pass
                    ELSE [pass EXCEPT !.rung = @ \/ event.claim]
  BY <1>1 DEF Rings
<1> QED
  BY <1>5, <1>6, <1>7

\* A minute passes only after a pass, with nothing on its way.
LEMMA MinuteKeeps ==
    ASSUME BadgeAssumption, BadgeInv, Minute
    PROVE  BadgeInv'
<1> USE DEF BadgeInv
<1>1. /\ pass = NoPass /\ pass' = NoPass /\ wires = <<>> /\ wires' = <<>> /\ ~passed'
      /\ passed' \in BOOLEAN /\ moment < LastMinute /\ moment' = moment + 1
      /\ UNCHANGED <<onAir, mode, since, current, minutes, linked, cached, cards>>
  BY DEF Minute, UnlessWorld, twitchVars
<1>2. moment \in Nat /\ moment' \in 0..LastMinute /\ moment <= moment'
  BY <1>1 DEF BadgeTypes, BadgeAssumption
<1>3. \A ch \in Channels : Right(ch)' = Right(ch)
  BY <1>1 DEF Right, NextDrop, AllowsUnlinked, None
<1>4. BadgeTypes'
  <2>1. wires' \in Seq(MinerEvents)
    BY <1>1 DEF BadgeTypes
  <2> QED
    BY <1>1, <1>2, <2>1 DEF BadgeTypes, NoPass, None
<1>5. AnswersWereRight'
  BY <1>1, <1>2, <1>3 DEF AnswersWereRight, BadgeTypes, NeverAsked, None
<1>6. EventsAreTrue'
  <2>1. Len(wires') = 0
    BY <1>1
  <2> QED
    BY <2>1 DEF EventsAreTrue
<1>7. PassIsTrue' /\ CardsShowAnswers'
  BY <1>1 DEF PassIsTrue, CardsShowAnswers, NoPass, None
<1> QED
  BY <1>4, <1>5, <1>6, <1>7

LEMMA WatchedKeeps ==
    ASSUME BadgeAssumption, BadgeInv, NEW ch \in Channels, Watched(ch)
    PROVE  BadgeInv'
<1>1. PICK event : event = [claim |-> FALSE, id |-> current, channel |-> ch]
  OBVIOUS
<1>2. /\ UNCHANGED <<moment, cached, pass, cards, passed, mode, onAir, current, linked>>
      /\ wires' = Append(wires, event) /\ ch \in onAir /\ Progresses(ch)
      /\ current \in Drops /\ minutes < Required /\ minutes' = minutes + 1
      /\ IF minutes' = Required THEN Moved(Channels) ELSE UNCHANGED since
  BY <1>1 DEF Watched, UnlessWorld
<1>3. /\ minutes \in Nat /\ minutes' \in Nat /\ Required \in Nat /\ minutes # Required
      /\ moment \in Nat /\ since \in [Channels -> Nat] /\ passed \in BOOLEAN
      /\ onAir \subseteq Channels /\ mode = [c \in Channels |-> mode[c]]
  BY <1>2 DEF BadgeInv, BadgeTypes, BadgeAssumption
<1>4. Wanted' = Wanted
  BY <1>2 DEF Wanted, Eligible
<1>5. \A c \in Channels : AllowsUnlinked(c)' = AllowsUnlinked(c)
  BY <1>2 DEF AllowsUnlinked
<1>6. /\ since' \in [Channels -> Nat]
      /\ \A c \in Channels : since'[c] = moment \/ (since'[c] = since[c] /\ Right(c)' = Right(c))
      /\ EventIsTrue(event)'
  <2>1. event.channel = ch /\ event.id = current /\ ~event.claim
    BY <1>1
  <2>2. CASE minutes' = Required
    <3>1. since' = [c \in Channels |-> IF c \in Channels THEN moment ELSE since[c]]
      BY <1>2, <2>2 DEF Moved
    <3> QED
      BY <1>2, <1>3, <2>1, <3>1 DEF EventIsTrue
  <2>3. CASE minutes' # Required
    <3>1. since' = since
      BY <1>2, <2>3
    <3>2. \A c \in Channels : Right(c)' = Right(c)
      BY <1>2, <1>3, <2>3 DEF Right, NextDrop, AllowsUnlinked, None
    <3>3. Right(ch)' = [id |-> current, claimable |-> FALSE]
      BY <1>2, <2>3 DEF Right, NextDrop, AllowsUnlinked, Progresses
    <3> QED
      BY <1>2, <1>3, <2>1, <3>1, <3>2, <3>3 DEF EventIsTrue
  <2> QED
    BY <2>2, <2>3
<1>7. event \in MinerEvents
  BY <1>1, <1>2 DEF MinerEvents
<1> QED
  BY <1>2, <1>3, <1>4, <1>5, <1>6, <1>7, WorldKeepsBadges

LEMMA ClaimsKeep ==
    ASSUME BadgeAssumption, BadgeInv,
           ClaimedByHand \/ \E works \in BOOLEAN : ClaimTried(works)
    PROVE  BadgeInv'
<1>1. PICK event : event = [claim |-> TRUE, id |-> current]
  OBVIOUS
<1>2. /\ UNCHANGED <<moment, cached, pass, cards, passed, mode, onAir, linked>>
      /\ current \in Drops
      /\ wires' = wires \/ wires' = Append(wires, event)
      /\ \/ minutes' = 0 /\ Moved(Channels)
         \/ UNCHANGED <<current, minutes, since>>
  BY <1>1 DEF ClaimedByHand, ClaimTried, UnlessWorld
<1>3. /\ minutes' \in Nat /\ moment \in Nat /\ since \in [Channels -> Nat]
      /\ passed \in BOOLEAN /\ onAir \subseteq Channels /\ mode = [c \in Channels |-> mode[c]]
  BY <1>2 DEF BadgeInv, BadgeTypes
<1>4. Wanted' = Wanted
  BY <1>2 DEF Wanted, Eligible
<1>5. \A c \in Channels : AllowsUnlinked(c)' = AllowsUnlinked(c)
  BY <1>2 DEF AllowsUnlinked
<1>6. /\ since' \in [Channels -> Nat]
      /\ \A c \in Channels : since'[c] = moment \/ (since'[c] = since[c] /\ Right(c)' = Right(c))
  <2>1. CASE Moved(Channels)
    BY <1>3, <2>1 DEF Moved
  <2>2. CASE UNCHANGED <<current, minutes, since>>
    BY <1>2, <1>3, <2>2 DEF Right, NextDrop, AllowsUnlinked, None
  <2> QED
    BY <1>2, <2>1, <2>2
<1>7. event \in MinerEvents /\ EventIsTrue(event)'
  BY <1>1, <1>2 DEF MinerEvents, EventIsTrue
<1> QED
  BY <1>2, <1>3, <1>4, <1>5, <1>6, <1>7, WorldKeepsBadges

\* What is set, linked, or begins and ends to stream.
LEMMA EditsKeep ==
    ASSUME BadgeAssumption, BadgeInv,
           \/ Linked
           \/ \E ch \in Channels : Streams(ch) \/ \E m \in Modes : ModeSet(ch, m)
    PROVE  BadgeInv'
<1>1. /\ minutes \in Nat /\ moment \in Nat /\ since \in [Channels -> Nat]
      /\ passed \in BOOLEAN /\ onAir \subseteq Channels /\ mode = [c \in Channels |-> mode[c]]
  BY DEF BadgeInv, BadgeTypes
<1>2. CASE Linked
  <2>1. /\ UNCHANGED <<moment, cached, pass, cards, passed, mode, onAir, minutes, wires>>
        /\ since' = [c \in Channels |-> IF c \in Channels THEN moment ELSE since[c]]
    BY <1>2 DEF Linked, Moved, UnlessWorld
  <2>2. Wanted' = Wanted
    BY <2>1 DEF Wanted, Eligible
  <2>3. since' \in [Channels -> Nat] /\ \A c \in Channels : since'[c] = moment
    BY <1>1, <2>1
  <2> QED
    BY <1>1, <2>1, <2>2, <2>3, WorldKeepsBadges
<1>3. ASSUME NEW ch \in Channels, Streams(ch)
      PROVE  BadgeInv'
  <2>1. /\ UNCHANGED <<moment, cached, pass, cards, mode, current, minutes, linked, wires>>
        /\ onAir' = (IF ch \in onAir THEN onAir \ {ch} ELSE onAir \cup {ch}) /\ ~passed'
        /\ since' = [c \in Channels |-> IF c \in {ch} THEN moment ELSE since[c]]
        /\ passed' \in BOOLEAN
    BY <1>3 DEF Streams, Moved, UnlessWorld
  <2>2. \A c \in Channels : /\ Right(c)' = Right(c) /\ AllowsUnlinked(c)' = AllowsUnlinked(c)
                            /\ c # ch => (c \in onAir' <=> c \in onAir)
    BY <2>1 DEF Right, NextDrop, AllowsUnlinked, None
  <2>3. since' \in [Channels -> Nat] /\ onAir' \subseteq Channels
    BY <1>1, <2>1
  <2>4. \A c \in Channels : since'[c] = moment \/ (since'[c] = since[c] /\ c # ch)
    BY <2>1
  <2> QED
    BY <1>1, <2>1, <2>2, <2>3, <2>4, WorldKeepsBadges
<1>4. ASSUME NEW ch \in Channels, NEW m \in Modes, ModeSet(ch, m)
      PROVE  BadgeInv'
  <2>1. /\ UNCHANGED <<moment, cached, pass, cards, onAir, current, minutes, linked, wires>>
        /\ mode' = [mode EXCEPT ![ch] = m] /\ ~passed' /\ passed' \in BOOLEAN
        /\ since' = [c \in Channels |-> IF c \in {ch} THEN moment ELSE since[c]]
    BY <1>4 DEF ModeSet, Moved, UnlessWorld, twitchVars
  <2>2. mode' = [c \in Channels |-> mode'[c]] /\ \A c \in Channels : c # ch => mode'[c] = mode[c]
    BY <1>1, <2>1
  <2>3. \A c \in Channels : c # ch => AllowsUnlinked(c)' = AllowsUnlinked(c)
    BY <2>2 DEF AllowsUnlinked
  <2>4. \A c \in Channels : c # ch => Right(c)' = Right(c)
    BY <2>1, <2>2 DEF Right, NextDrop, AllowsUnlinked, None
  <2>5. since' \in [Channels -> Nat]
    BY <1>1, <2>1
  <2>6. \A c \in Channels : since'[c] = moment \/ (since'[c] = since[c] /\ c # ch)
    BY <2>1
  <2> QED
    BY <1>1, <2>1, <2>2, <2>3, <2>4, <2>5, <2>6, WorldKeepsBadges
<1> QED
  BY <1>2, <1>3, <1>4

LEMMA BadgesBegin == ASSUME BadgeAssumption, BadgeInit PROVE BadgeInv
<1> USE DEF BadgeInit
<1>1. BadgeTypes
  <2>1. wires \in Seq(MinerEvents)
    BY EmptySeq
  <2>2. moment \in 0..LastMinute /\ LastMinute + 1 \in Nat
    BY DEF BadgeAssumption
  <2>3. \A ch \in Channels : /\ cached[ch] = [drop |-> cached[ch].drop, at |-> cached[ch].at]
                             /\ cached[ch].at \in Nat
    BY <2>2 DEF NeverAsked
  <2>4. /\ since \in [Channels -> Nat] /\ \A ch \in Channels : since[ch] <= moment
        /\ onAir \subseteq Channels
    OBVIOUS
  <2> QED
    BY <2>1, <2>2, <2>3, <2>4 DEF BadgeTypes
<1>2. AnswersWereRight /\ EventsAreTrue /\ PassIsTrue /\ CardsShowAnswers
  BY DEF AnswersWereRight, EventsAreTrue, PassIsTrue, CardsShowAnswers
<1> QED
  BY <1>1, <1>2 DEF BadgeInv

LEMMA BadgeSteps == ASSUME BadgeAssumption, BadgeInv, [BadgeNext]_badgeVars PROVE BadgeInv'
<1>1. CASE UNCHANGED badgeVars
  <2> USE <1>1 DEF badgeVars
  <2>1. BadgeTypes'
    BY DEF BadgeInv, BadgeTypes, NoPass, None
  <2>2. AnswersWereRight'
    BY DEF BadgeInv, AnswersWereRight, NeverAsked, None, Right, NextDrop, AllowsUnlinked
  <2>3. EventsAreTrue'
    BY DEF BadgeInv, EventsAreTrue, EventIsTrue, None, Right, NextDrop, AllowsUnlinked
  <2>4. PassIsTrue'
    BY DEF BadgeInv, PassIsTrue, NoPass, NeverAsked, None, Right, NextDrop, AllowsUnlinked, Due
  <2>5. CardsShowAnswers'
    BY DEF BadgeInv, CardsShowAnswers, NoPass, NeverAsked, None, Wanted, Eligible, Due
  <2> QED
    BY <2>1, <2>2, <2>3, <2>4, <2>5 DEF BadgeInv
<1>2. CASE BadgeNext
  BY <1>2, PassStartsKeeps, StoredKeeps, RefusedKeeps, RingsKeeps, ReadKeeps, WatchedKeeps,
     ClaimsKeep, EditsKeep, MinuteKeeps DEF BadgeNext
<1> QED
  BY <1>1, <1>2

\* A card that is wrong when all is quiet shows an answer that is held: it was
\* right when it was asked for, and what it should say has changed since.
LEMMA TrueAnswersCatchUp == ASSUME BadgeAssumption, BadgeInv PROVE BadgeCatchesUp
<1> SUFFICES ASSUME passed, pass = NoPass, NEW ch \in Channels, cards[ch] # ShouldSay(ch)
             PROVE  moment - since[ch] <= DropsTtl
  BY DEF BadgeCatchesUp
<1>1. /\ moment \in Nat /\ since[ch] \in Nat /\ DropsTtl \in Nat /\ cached[ch].at \in Nat
  BY DEF BadgeInv, BadgeTypes, BadgeAssumption
<1>2. CASE since[ch] = moment
  BY <1>1, <1>2
<1>3. CASE since[ch] # moment
  <2>1. /\ cards[ch] = IF ch \in Wanted THEN cached[ch].drop ELSE None
        /\ ch \in Wanted => ~Due(ch) \/ moment <= since[ch] + DropsTtl
    BY <1>3 DEF BadgeInv, CardsShowAnswers
  <2>2. ShouldSay(ch) = IF ch \in Wanted THEN Right(ch) ELSE None
    BY DEF ShouldSay, Right, Wanted
  <2>3. ch \in Wanted /\ cached[ch].drop # Right(ch)
    BY <2>1, <2>2
  <2>4. CASE moment <= since[ch] + DropsTtl
    BY <1>1, <2>4
  <2>5. CASE ~Due(ch)
    <3>1. cached[ch] # NeverAsked /\ ~(moment - cached[ch].at > DropsTtl)
      BY <2>5 DEF Due
    <3>2. cached[ch].at <= since[ch]
      BY <2>3, <3>1 DEF BadgeInv, AnswersWereRight
    <3> QED
      BY <1>1, <3>1, <3>2
  <2> QED
    BY <2>1, <2>3, <2>4, <2>5
<1> QED
  BY <1>2, <1>3

\* After a quiet pass no badge has been wrong for longer than an answer is held
\* (drops.ts: resolve(), observe(), forget() and DROPS_TTL_MS), for any channels,
\* drops, minutes and number of faults.
THEOREM BadgesCatchUp == ASSUME BadgeAssumption PROVE BadgeSpec => []BadgeCatchesUp
<1>1. BadgeInit => BadgeInv
  BY BadgesBegin
<1>2. BadgeInv /\ [BadgeNext]_badgeVars => BadgeInv'
  BY BadgeSteps
<1>3. BadgeInv => BadgeCatchesUp
  BY TrueAnswersCatchUp
<1> QED
  BY <1>1, <1>2, <1>3, PTL DEF BadgeSpec

=============================================================================
