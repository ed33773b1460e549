------------------------------ MODULE Sessions ------------------------------
(***************************************************************************)
(* What the backend stores about one channel: its balance and its stream   *)
(* sessions (db/history.ts), one row per Twitch stream id.  Two parties    *)
(* write them and neither waits for the other:                             *)
(*                                                                         *)
(*   - state/service.ts polls Twitch through the Python helper: a poll is  *)
(*     asked, looked up and, some time later, applied;                     *)
(*   - the miner posts its events, one at a time, from a bounded queue     *)
(*     whose posts may fail; each carries the balance of its moment.       *)
(*                                                                         *)
(* The backend may be killed at any point.  The database survives it; the  *)
(* poll, and all the service holds in memory, do not.                      *)
(*                                                                         *)
(* Time is a counter.  A balance is the number of changes it has gone      *)
(* through, so a larger one is a later one.  Of point_snapshots only the   *)
(* newest row is kept: latest() and the clamp on a session's end read no   *)
(* other.  The cards drawn from all this are left out.                     *)
(***************************************************************************)
EXTENDS Integers, Sequences, FiniteSets

CONSTANTS
  MaxClock,     \* time stops here, and Twitch changes nothing any more
  MaxStreams,   \* streams the channel ever goes live with
  MaxBalance,   \* balance changes
  MaxCrashes,   \* times the backend is killed
  MaxFails,     \* polls and lookups that fail
  BellRoom      \* the doorbell's queue_size

ASSUME BoundsAssumption ==
  /\ MaxClock \in Nat /\ MaxStreams \in Nat /\ MaxBalance \in Nat
  /\ MaxCrashes \in Nat /\ MaxFails \in Nat
  /\ BellRoom \in Nat \ {0}

VARIABLES
  clock,
  \* Twitch's side of the channel, and the events on their way from the miner.
  stream,       \* the id of the stream that is live, Offline for none
  streamStart,  \* its createdAt
  streams,      \* how many there have been; ids are 1, 2, ...
  balance,
  bells,        \* the doorbell queue: [at, balance]
  \* The backend process.
  up,
  poll,         \* the refresh in flight: [phase, askedAt, points, live, start]
  eventAt,      \* balanceEventAt: when an event last set the balance
  live,         \* liveLogins: was the channel live on the previous pass
  \* The database.
  latest,       \* the newest snapshot: [ts, balance]
  rows,         \* streamer_sessions, by stream id: [start, end, anchor]
  \* What happened, for the properties; the code reads none of it.
  announced,    \* how often each stream was reported as started
  crashes, fails

twitch == <<stream, streamStart, streams, balance>>
store == <<latest, rows>>
memory == <<poll, eventAt, live>>
counts == <<crashes, fails>>
vars == <<clock, twitch, bells, up, memory, store, announced, counts>>

None == -1
Offline == 0
Ids == 1..MaxStreams
Times == 0..MaxClock
Balances == 0..MaxBalance

NoPoll == [phase |-> "idle", askedAt |-> None, points |-> None,
           live |-> None, start |-> None]
NoRow == [start |-> None, end |-> None, anchor |-> None]

Open(s) == rows[s].start # None /\ rows[s].end = None

Init ==
  /\ clock = 0
  /\ stream = Offline /\ streamStart = None /\ streams = 0 /\ balance = 0
  /\ bells = << >>
  /\ up = TRUE
  /\ poll = NoPoll /\ eventAt = None /\ live = None
  /\ latest = [ts |-> None, balance |-> None]
  /\ rows = [s \in Ids |-> NoRow]
  /\ announced = [s \in Ids |-> 0]
  /\ crashes = 0 /\ fails = 0

-----------------------------------------------------------------------------
(* The database's operations, as functions of the rows they change.        *)

(* recordPoints writes only on change.                                     *)
Recorded(last, bal, ts) ==
  IF last.balance = bal THEN last ELSE [ts |-> ts, balance |-> bal]

(* openStreamerSession: ON CONFLICT DO NOTHING keeps the row there is.     *)
IsNew(table, s) == table[s].start = None
Opened(table, s, start, anchor) ==
  IF IsNew(table, s)
  THEN [table EXCEPT ![s] = [start |-> start, end |-> None, anchor |-> anchor]]
  ELSE table

(* The last moment we were demonstrably watching.                          *)
Evidence(last, at) == IF last.ts < at THEN last.ts ELSE at

(* closeStreamerSessionsExcept: every other open row ends at the newest    *)
(* snapshot, at the latest now and at the earliest when it started.        *)
Closed(table, keep, last, at) ==
  [s \in Ids |->
     IF table[s].start # None /\ table[s].end = None /\ s # keep
     THEN [table[s] EXCEPT !.end =
             IF Evidence(last, at) < table[s].start THEN table[s].start
             ELSE Evidence(last, at)]
     ELSE table[s]]

-----------------------------------------------------------------------------
(* The world outside: time, the channel, its balance.                      *)

Tick ==
  /\ clock < MaxClock
  /\ clock' = clock + 1
  /\ UNCHANGED <<twitch, bells, up, memory, store, announced, counts>>

GoLive ==
  /\ clock < MaxClock /\ stream = Offline /\ streams < MaxStreams
  /\ streams' = streams + 1 /\ stream' = streams + 1 /\ streamStart' = clock
  /\ UNCHANGED <<clock, balance, bells, up, memory, store, announced, counts>>

GoOffline ==
  /\ clock < MaxClock /\ stream # Offline
  /\ stream' = Offline /\ streamStart' = None
  /\ UNCHANGED <<clock, streams, balance, bells, up, memory, store, announced,
                 counts>>

(* put_nowait: an event that finds the queue full is dropped.              *)
Enqueued(event) == IF Len(bells) < BellRoom THEN Append(bells, event) ELSE bells

(* The balance changes, and a running miner may hear of it.                *)
BalanceChanges(heard) ==
  /\ clock < MaxClock /\ balance < MaxBalance
  /\ balance' = balance + 1
  /\ bells' = IF heard /\ up
              THEN Enqueued([at |-> clock, balance |-> balance + 1])
              ELSE bells
  /\ UNCHANGED <<clock, stream, streamStart, streams, up, memory, store,
                 announced, counts>>

-----------------------------------------------------------------------------
(* The miner's events.                                                     *)

(* One is posted, and ring() stores its balance.  The way from Twitch to   *)
(* the miner to the backend takes longer than the clock's resolution.      *)
Ring ==
  /\ up /\ bells # << >> /\ Head(bells).at < clock
  /\ bells' = Tail(bells)
  /\ latest' = Recorded(latest, Head(bells).balance, clock)
  /\ eventAt' = clock
  /\ UNCHANGED <<clock, twitch, up, poll, live, rows, announced, counts>>

(* A post fails: the worker goes on with the next.                         *)
PostFails ==
  /\ bells # << >> /\ fails < MaxFails
  /\ bells' = Tail(bells)
  /\ fails' = fails + 1
  /\ UNCHANGED <<clock, twitch, up, memory, store, announced, crashes>>

-----------------------------------------------------------------------------
(* The poll.                                                               *)

(* A tick that is due, a ring that needs Twitch, or a client asks.         *)
Ask ==
  /\ up /\ poll = NoPoll
  /\ poll' = [NoPoll EXCEPT !.phase = "asked", !.askedAt = clock]
  /\ UNCHANGED <<clock, twitch, bells, up, eventAt, live, store, announced,
                 counts>>

(* The helper looks the channel up: its points, and the stream it has.     *)
LookUp ==
  /\ poll.phase = "asked"
  /\ poll' = [poll EXCEPT !.phase = "answered", !.points = balance,
                          !.live = stream, !.start = streamStart]
  /\ UNCHANGED <<clock, twitch, bells, up, eventAt, live, store, announced,
                 counts>>

(* Either lookup fails for this channel, or its community is missing: the  *)
(* row says nothing, with a null isOnline and no stream id.                *)
LookUpFails ==
  /\ poll.phase = "asked" /\ fails < MaxFails
  /\ poll' = [poll EXCEPT !.phase = "answered"]
  /\ fails' = fails + 1
  /\ UNCHANGED <<clock, twitch, bells, up, eventAt, live, store, announced,
                 crashes>>

(* The whole request fails: it times out, or the helper is gone.           *)
PollFails ==
  /\ poll # NoPoll /\ fails < MaxFails
  /\ poll' = NoPoll
  /\ fails' = fails + 1
  /\ UNCHANGED <<clock, twitch, bells, up, eventAt, live, store, announced,
                 crashes>>

(* Mutants: no poll is overtaken, and every poll is once there was an event. *)
NeverOvertaken == FALSE
EverOvertaken == eventAt # None

(* A poll asked before the last event answers with an older balance.       *)
Overtaken == eventAt > poll.askedAt

IsLive == poll.live \notin {None, Offline}

(* Mutant: a stream is reported when the previous pass did not see it.     *)
ReportedOnTransition == IsLive /\ live # 1

(* A stream is reported as started when its row is new.                    *)
Reported == IsLive /\ IsNew(rows, poll.live)

(* The answer is applied, in one go: the balance, then the stream's        *)
(* session, then every other session of the channel.                       *)
Apply ==
  /\ poll.phase = "answered"
  /\ latest' = IF poll.points # None /\ ~Overtaken
               THEN Recorded(latest, poll.points, clock) ELSE latest
  /\ LET opened == IF IsLive
                   THEN Opened(rows, poll.live, poll.start, poll.points)
                   ELSE rows
     IN  rows' = Closed(opened, poll.live, latest', clock)
  /\ announced' = IF Reported
                  THEN [announced EXCEPT ![poll.live] = @ + 1]
                  ELSE announced
  /\ live' = IF IsLive THEN 1 ELSE 0
  /\ poll' = NoPoll
  /\ UNCHANGED <<clock, twitch, bells, up, eventAt, counts>>

-----------------------------------------------------------------------------
(* The backend is killed, and the miner and its queue with it.             *)
Killed ==
  /\ up /\ crashes < MaxCrashes
  /\ up' = FALSE /\ crashes' = crashes + 1
  /\ bells' = << >>
  /\ poll' = NoPoll /\ eventAt' = None /\ live' = None
  /\ UNCHANGED <<clock, twitch, store, announced, fails>>

Boot ==
  /\ ~up
  /\ up' = TRUE
  /\ UNCHANGED <<clock, twitch, bells, memory, store, announced, counts>>

Next ==
  \/ Tick \/ GoLive \/ GoOffline
  \/ \E heard \in BOOLEAN : BalanceChanges(heard)
  \/ Ring \/ PostFails
  \/ Ask \/ LookUp \/ LookUpFails \/ PollFails
  \/ Apply
  \/ Killed \/ Boot

Spec == Init /\ [][Next]_vars

(* Time goes on, a killed backend is restarted, setInterval keeps asking,  *)
(* the helper answers (a request it does not answer times out, which is    *)
(* PollFails) and the doorbell's worker keeps posting.                     *)
Fairness ==
  /\ WF_vars(Tick) /\ WF_vars(Boot \/ Ring)
  /\ WF_vars(Ask \/ LookUp \/ Apply)

FairSpec == Spec /\ Fairness

-----------------------------------------------------------------------------
TypeOK ==
  /\ clock \in Times
  /\ stream \in 0..MaxStreams /\ streams \in 0..MaxStreams
  /\ streamStart \in Times \cup {None} /\ balance \in Balances
  /\ bells \in Seq([at : Times, balance : Balances]) /\ Len(bells) <= BellRoom
  /\ up \in BOOLEAN
  /\ poll \in [phase : {"idle", "asked", "answered"},
               askedAt : Times \cup {None}, points : Balances \cup {None},
               live : 0..MaxStreams \cup {None}, start : Times \cup {None}]
  /\ eventAt \in Times \cup {None} /\ live \in {None, 0, 1}
  /\ latest \in [ts : Times \cup {None}, balance : Balances \cup {None}]
  /\ rows \in [Ids -> [start : Times \cup {None}, end : Times \cup {None},
                       anchor : Balances \cup {None}]]
  /\ announced \in [Ids -> Nat]
  /\ crashes \in 0..MaxCrashes /\ fails \in 0..MaxFails

(* A stream is reported as started once, when its row is inserted, however *)
(* often it is polled and the backend restarted while it is live.          *)
StartedOnce ==
  \A s \in Ids : announced[s] = IF rows[s].start = None THEN 0 ELSE 1

(* At most one session of a channel is open, and no session ends before it *)
(* started, though its end is a snapshot's time and its start Twitch's.    *)
OneOpenSession ==
  /\ \A s, t \in Ids : Open(s) /\ Open(t) => s = t
  /\ \A s \in Ids : rows[s].end # None => rows[s].start <= rows[s].end

(* A stream has one session, opened and reported once, closed once.        *)
SessionsMatchStreams == StartedOnce /\ OneOpenSession

(* A poll never takes the recorded balance back: only an event may, and an *)
(* event that arrives between a poll's question and its answer wins.       *)
PollsNeverGoBack == [][bells' = bells => latest'.balance >= latest.balance]_vars

(* A session keeps the start and the anchor it was opened with, which is   *)
(* what gainedStream is measured from, and a closed one keeps its end.     *)
KeepsSessions ==
  \A s \in Ids : rows[s].start # None =>
    /\ rows'[s].start = rows[s].start /\ rows'[s].anchor = rows[s].anchor
    /\ rows[s].end # None => rows'[s].end = rows[s].end

SessionsAreKept == [][KeepsSessions]_vars

(* What has been recorded is not taken back.                               *)
RecordStays == PollsNeverGoBack /\ SessionsAreKept

(* Whatever was lost, delayed or overtaken, the store ends up with the     *)
(* balance Twitch has, a row for the stream that is live, and no other one *)
(* open.                                                                   *)
CaughtUp ==
  /\ latest.balance = balance
  /\ stream # Offline => rows[stream].start = streamStart
  /\ \A s \in Ids : Open(s) => s = stream

StoreCatchesUp == <>[]CaughtUp

=============================================================================
