------------------------------ MODULE Doorbell ------------------------------
(***************************************************************************)
(* What the miner tells the dashboard as it happens, from the handler in   *)
(* its own process to the cards: python/helpers/doorbell.py queues an event *)
(* and posts it, /internal/doorbell reads it, and StateService.ring puts it *)
(* on the record and the cards held.                                       *)
(*                                                                         *)
(* The hazard is state told by deltas over a line that loses them.  The    *)
(* queue is bounded and a post may fail, so the handler keeps the set of   *)
(* watch slots and sends the whole of it; the backend keeps the last set,  *)
(* forgets it when the miner starts or ends, and until it is told infers   *)
(* from the gains on record.  A first frame is drawn from the miner's last *)
(* verdict on each channel, which nobody retracts when the miner ends.     *)
(***************************************************************************)
EXTENDS Integers, Sequences, FiniteSets, SequencesExt

CONSTANTS
    Channels,       \* the roster
    MaxSlots,       \* watch slots of the miner
    QueueSize,      \* events that may wait in the handler
    GainTtl,        \* WATCH_GAIN_TTL_MS
    MaxTold,        \* DOORBELL_WATCHING_MAX
    Trust,          \* LIVENESS_TRUST_MS
    Budgets         \* what may happen in a behaviour; each bounds a counter

VARIABLES
    truth,      \* Twitch: who is live, and when each channel last was and was not
    miner,      \* the process: whether it runs, its slots, the handler's copy, reports due
    queue,      \* events waiting in the handler
    wire,       \* the posts that are out: one of a process, and one of a process that ended
    heard,      \* StateService.miner: the supervisor says RUNNING
    watchSlots, \* StateService.watchSlots: at most one set of channels
    verdict,    \* the last STREAMER_ONLINE or STREAMER_OFFLINE on record
    gain,       \* the last GAIN_FOR_WATCH on record
    cards,      \* StateService.streamers
    undrawn,    \* StateService.undrawn
    poll,       \* the state pass that is out, at most one: who was live when it was asked
    minute,     \* the clock
    fate,       \* of the last slot change of this run: "none", "sent", "lost", or "late"
                \* when a change of an earlier run was heard after it
    left        \* what remains of the budget

bellVars == <<truth, miner, queue, wire, heard, watchSlots, verdict, gain, cards, undrawn, poll,
          minute, fate, left>>
record == <<verdict, gain>>

Efforts == {"changes", "gains", "lost", "starts", "flips", "minutes", "polls", "reports"}

\* What the constants are: the endpoint takes as many slots as a miner has, and the
\* roster is finite.
DoorbellAssumption ==
    /\ MaxSlots \in Nat /\ QueueSize \in Nat /\ GainTtl \in Nat /\ Trust \in Nat
    /\ MaxTold \in Nat /\ MaxSlots <= MaxTold /\ IsFiniteSet(Channels)
    /\ Budgets \subseteq [Efforts -> Nat]

Spend(what) == left[what] > 0 /\ left' = [left EXCEPT ![what] = @ - 1]

Cold == [up |-> FALSE, slots |-> {}, watching |-> {}, due |-> {}]

-----------------------------------------------------------------------------
(* The handler.                                                            *)

\* DoorbellHandler.handle: a full queue drops the event.
Put(p) == queue' = IF Len(queue) < QueueSize THEN Append(queue, p) ELSE queue
Kept == Len(queue) < QueueSize

\* What a change of slots sends: the set it leaves, not the change.
Announced(adding, dropping) == (miner.watching \ dropping) \cup adding

ChangesSlots ==
    /\ miner.up /\ Spend("changes")
    /\ \E slots \in SUBSET truth.live :
        LET told == Announced(slots \ miner.slots, miner.slots \ slots) IN
        /\ Cardinality(slots) <= MaxSlots /\ slots # miner.slots
        /\ miner' = [miner EXCEPT !.slots = slots, !.watching = told]
        /\ Put([type |-> "CHANGING_WATCH_SLOTS", run |-> left.starts, watching |-> told,
                last |-> left.changes])
    /\ fate' = IF Kept THEN "sent" ELSE "lost"
    /\ UNCHANGED <<truth, wire, heard, watchSlots, record, cards, undrawn, poll, minute>>

GainsPoints ==
    /\ miner.up /\ Spend("gains")
    /\ \E c \in miner.slots \cap truth.live :
        Put([type |-> "GAIN_FOR_WATCH", run |-> left.starts, streamer |-> c])
    /\ UNCHANGED <<truth, miner, wire, heard, watchSlots, record, cards, undrawn, poll, minute,
                   fate>>

\* The miner says how it finds a channel: all of them when it starts, and then
\* each that changes.
Reports ==
    /\ Spend("reports")
    /\ \E c \in miner.due :
        /\ Put([type |-> IF c \in truth.live THEN "STREAMER_ONLINE" ELSE "STREAMER_OFFLINE",
                run |-> left.starts, streamer |-> c])
        /\ miner' = [miner EXCEPT !.due = @ \ {c}]
    /\ UNCHANGED <<truth, wire, heard, watchSlots, record, cards, undrawn, poll, minute, fate>>

\* An event of the process that runs.
Ours(p) == miner.up /\ p.run = left.starts

\* _run: one post at a time.
Posts ==
    /\ queue # <<>> /\ \A p \in wire : p.run # left.starts
    /\ wire' = wire \cup {Head(queue)} /\ queue' = Tail(queue)
    /\ UNCHANGED <<truth, miner, heard, watchSlots, record, cards, undrawn, poll, minute, fate,
                   left>>

\* The post fails, and nobody tries it again.
PostFails ==
    /\ Spend("lost")
    /\ \E p \in wire :
        /\ wire' = wire \ {p}
        /\ fate' = IF p.type = "CHANGING_WATCH_SLOTS" /\ Ours(p) /\ p.last = left.changes + 1
                   THEN "lost" ELSE fate
    /\ UNCHANGED <<truth, miner, queue, heard, watchSlots, record, cards, undrawn, poll, minute>>

-----------------------------------------------------------------------------
(* The state service.                                                      *)

\* isWatched, with the slots and the gains it reads.
IsWatched(c, online, slots, gains) ==
    /\ online = {TRUE}
    /\ IF slots # {} THEN c \in UNION slots
       ELSE \E ts \in gains[c] : minute - ts <= GainTtl

Card(c, online, slots, gains, painted) ==
    [login |-> c, isOnline |-> online, watching |-> IsWatched(c, online, slots, gains),
     at |-> minute, painted |-> painted]

\* rederive: the card of the event's channel, from what the last poll knew of it.
Rederived(card, slots, gains) ==
    [card EXCEPT !.watching = IsWatched(card.login, card.isOnline, slots, gains)]

\* What the endpoint takes from a body: the type decides, and a field it cannot use is
\* as if it were not there, so a set too large leaves the one that is held.
TakenSlots(p) ==
    IF p.type = "CHANGING_WATCH_SLOTS" /\ Cardinality(p.watching) <= MaxTold
    THEN {p.watching} ELSE watchSlots

\* recordEvent, as lastWatchGain reads it.
TakenGain(p) ==
    IF p.type = "GAIN_FOR_WATCH" THEN [gain EXCEPT ![p.streamer] = {minute}] ELSE gain

\* recordEvent, as lastLiveness reads it: every verdict is the newest.
TakenVerdict(p) ==
    IF p.type \in {"STREAMER_ONLINE", "STREAMER_OFFLINE"}
    THEN [verdict EXCEPT ![p.streamer] = {[online |-> p.type = "STREAMER_ONLINE",
                                           ts |-> minute]}]
    ELSE verdict

\* ring and applyEvent: the event goes on record, and onto the cards held unless
\* there is nothing to update.
Rings ==
    /\ \E p \in wire :
       LET moved == p.type = "CHANGING_WATCH_SLOTS" IN
       /\ watchSlots' = TakenSlots(p)
       /\ gain' = TakenGain(p)
       /\ verdict' = TakenVerdict(p)
       /\ cards' = IF undrawn THEN cards
                   ELSE {IF moved \/ card.login = p.streamer
                         THEN Rederived(card, watchSlots', gain') ELSE card : card \in cards}
       /\ wire' = wire \ {p}
       /\ fate' = IF moved /\ ~Ours(p) THEN "late" ELSE fate
    /\ UNCHANGED <<truth, miner, queue, heard, undrawn, poll, minute, left>>

\* Mutant: nothing is known when it ends, either, and the gains are believed.
RunningUnknown(up) ==
    /\ heard' = up
    /\ watchSlots' = {}

\* minerRunning: nothing is watched when it ends, and nothing is known when it starts.
Running(up) ==
    /\ heard' = up
    /\ watchSlots' = IF up THEN {} ELSE {{}}

Asks ==
    /\ poll = {} /\ Spend("polls")
    /\ poll' = {truth.live}
    /\ UNCHANGED <<truth, miner, queue, wire, heard, watchSlots, record, cards, undrawn, minute,
                   fate>>

\* The answer, for the clients there are: the cards are derived from it.
Answers ==
    /\ poll # {}
    /\ cards' = {Card(c, {c \in UNION poll}, watchSlots, gain, FALSE) : c \in Channels}
    /\ undrawn' = FALSE
    /\ poll' = {}
    /\ UNCHANGED <<truth, miner, queue, wire, heard, watchSlots, record, minute, fate, left>>

\* The answer while nobody is connected: nothing is derived from it.
AnswersNobody ==
    /\ poll # {} /\ poll' = {} /\ undrawn' = TRUE
    /\ UNCHANGED <<truth, miner, queue, wire, heard, watchSlots, record, cards, minute, fate,
                   left>>

\* The miner's verdict on a channel, while it can be trusted.
Judged(c) == {v.online : v \in {w \in verdict[c] : minute - w.ts <= Trust}}

\* paintLocal and deriveLocal: what a client is shown before the first poll of its own.
Paints ==
    /\ undrawn
    /\ cards' = {Card(c, Judged(c), watchSlots, gain, TRUE) : c \in Channels}
    /\ UNCHANGED <<truth, miner, queue, wire, heard, watchSlots, record, undrawn, poll, minute,
                   fate, left>>

-----------------------------------------------------------------------------
(* The miner's process, the streams and the clock.                         *)

\* The supervisor says RUNNING as it spawns the process.
MinerStarts ==
    /\ ~miner.up /\ ~heard /\ Spend("starts")
    /\ miner' = [Cold EXCEPT !.up = TRUE, !.due = Channels]
    /\ queue' = <<>> /\ fate' = "none"
    /\ Running(TRUE)
    /\ UNCHANGED <<truth, wire, record, cards, undrawn, poll, minute>>

\* It ends, with what shutdown could not send in its time; a post may be on its way.
MinerEnds ==
    /\ miner.up
    /\ miner' = Cold /\ queue' = <<>> /\ fate' = "none"
    /\ UNCHANGED <<truth, wire, heard, watchSlots, record, cards, undrawn, poll, minute, left>>

ExitIsHeard ==
    /\ heard /\ ~miner.up
    /\ Running(FALSE)
    /\ UNCHANGED <<truth, miner, queue, wire, record, cards, undrawn, poll, minute, fate, left>>

\* A stream starts or ends; the miner will notice.
StreamFlips ==
    /\ Spend("flips")
    /\ \E c \in Channels :
        LET live == IF c \in truth.live THEN truth.live \ {c} ELSE truth.live \cup {c} IN
        /\ truth' = [live |-> live,
                     lit  |-> [truth.lit EXCEPT ![c] = minute],
                     dark |-> [truth.dark EXCEPT ![c] = minute]]
        /\ miner' = IF miner.up THEN [miner EXCEPT !.due = @ \cup {c}] ELSE miner
    /\ UNCHANGED <<queue, wire, heard, watchSlots, record, cards, undrawn, poll, minute, fate>>

\* A minute passes; an event is delivered or lost well within one.
Passes ==
    /\ queue = <<>> /\ wire = {} /\ Spend("minutes")
    /\ minute' = minute + 1
    /\ truth' = [truth EXCEPT
                   !.lit  = [c \in Channels |-> IF c \in truth.live THEN minute' ELSE @[c]],
                   !.dark = [c \in Channels |-> IF c \in truth.live THEN @[c] ELSE minute']]
    /\ UNCHANGED <<miner, queue, wire, heard, watchSlots, record, cards, undrawn, poll, fate>>

BellInit ==
    /\ left \in Budgets
    /\ truth = [live |-> Channels, lit |-> [c \in Channels |-> 0],
                dark |-> [c \in Channels |-> -(Trust + 1)]]
    /\ miner = Cold
    /\ queue = <<>> /\ wire = {}
    /\ heard = FALSE /\ watchSlots = {{}}
    /\ verdict = [c \in Channels |-> {}] /\ gain = [c \in Channels |-> {}]
    /\ cards = {} /\ undrawn = TRUE /\ poll = {}
    /\ minute = 0 /\ fate = "none"

BellNext ==
    \/ ChangesSlots \/ GainsPoints \/ Reports \/ Posts \/ PostFails
    \/ Rings \/ Asks \/ Answers \/ AnswersNobody \/ Paints
    \/ MinerStarts \/ MinerEnds \/ ExitIsHeard \/ StreamFlips \/ Passes

BellSpec == BellInit /\ [][BellNext]_bellVars

-----------------------------------------------------------------------------
(* What the cards may say.                                                 *)

\* Once the last change of slots has arrived, whatever was lost before it, the
\* backend holds the miner's slots, and the cards say of every channel they show
\* live whether it holds one (doorbell.py: a missed ring is corrected by the next).
SlotsAreCorrected ==
    miner.up /\ fate = "sent" /\ queue = <<>> /\ wire = {} =>
        /\ watchSlots = {miner.slots}
        /\ undrawn \/ \A card \in cards :
              card.watching <=> card.isOnline = {TRUE} /\ card.login \in miner.slots

\* A frame drawn from the record calls no channel live, or offline, that was not so
\* at some time in the last Trust minutes, however long the miner has been down.
PaintIsRecent ==
    \A card \in cards : card.painted =>
        /\ card.isOnline = {TRUE} => truth.lit[card.login] >= card.at - Trust
        /\ card.isOnline = {FALSE} => truth.dark[card.login] >= card.at - Trust

\* A miner that has ended watches nothing, in what is derived from then on, unless a
\* post of its own was heard after its end.
EndedWatchesNothing ==
    ~heard /\ fate # "late" => watchSlots = {{}}

WatchingIsTold == SlotsAreCorrected /\ PaintIsRecent /\ EndedWatchesNothing

=============================================================================
