-------------------------------- MODULE Ledger -------------------------------
(***************************************************************************)
(* The record of the past and what is read from it: point snapshots, the   *)
(* days they are rolled up to, stream sessions and the miner's own         *)
(* sessions (db/history.ts, dailyPoints.ts, streamers.ts), the figures on  *)
(* the cards (state/service.ts, spans.ts, gains.ts) and those of the       *)
(* Insights page (insights/).                                              *)
(*                                                                         *)
(* Here a poll is one step; how polls and events interleave is Sessions,   *)
(* and when the miner starts and stops is Supervisor.  Time is a counter,  *)
(* and a span is the moments from its start up to its end.                 *)
(***************************************************************************)
EXTENDS Integers, Sequences, FiniteSets, SequencesExt, FiniteSetsExt

CONSTANTS
    Channels,
    DayLength,  \* moments in a day
    Retention,  \* HISTORY_RETENTION_DAYS
    LastDay,    \* bound: time ends with this day
    Budgets     \* bounds: how much of each thing one behaviour may do

VARIABLES
    clock,
    live,       \* Twitch: of each channel, the start of its stream or Never
    balance,    \* Twitch: of each channel, the points
    roster,     \* the channels the backend polls
    up,         \* the backend runs
    mining,     \* the miner runs
    samples,    \* point_snapshots, of each channel
    sessions,   \* streamer_sessions
    runs,       \* miner_sessions
    daily,      \* daily_points
    firstSeen,  \* streamers.first_seen_ts
    budget,     \* what this behaviour may still spend
    ever,       \* history: the snapshots, none deleted
    mined,      \* history: the moments at which the miner ran
    aired,      \* history: of each channel, the moments it was on the air
    sign,       \* history: the miner's last sign of life
    lost        \* history: the moments it ran after its last sign before a kill

twitch == <<live, balance>>
store  == <<samples, sessions, runs, daily, firstSeen>>
truth  == <<ever, mined, aired, sign, lost>>
vars   == <<clock, twitch, roster, up, mining, store, budget, truth>>

Never  == -1
Days   == 0..LastDay
Times  == 0..(LastDay + 1) * DayLength
NoRows == [c \in Channels |-> Never]

DayOf(t)    == t \div DayLength
DayStart(d) == d * DayLength
Today       == DayOf(clock)
Later(x, y) == IF x > y THEN x ELSE y

Spends(what) == budget[what] > 0 /\ budget' = [budget EXCEPT ![what] = @ - 1]

-----------------------------------------------------------------------------
(* Spans.                                                                  *)

Span(start, end) == [start |-> start, end |-> end]

\* clip(): the part within [from, to], an open end read as to.
Clip(spans, from, to) ==
    {s \in {Span(Later(x.start, from),
                 IF x.end = Never \/ x.end > to THEN to ELSE x.end) : x \in spans} :
        s.end > s.start}

\* intersect(), of clipped spans.
Overlap(a, b) ==
    {s \in {Span(Later(x.start, y.start), IF x.end < y.end THEN x.end ELSE y.end) :
              x \in a, y \in b} : s.end > s.start}

Total(spans) == MapThenSumSet(LAMBDA s : s.end - s.start, spans)

Moments(spans) == UNION {s.start .. s.end - 1 : s \in spans}

\* mergeSpans(): the next span joins the last one or stands by itself.
Joined(out, s) ==
    IF out # << >> /\ s.start <= Last(out).end
    THEN [out EXCEPT ![Len(out)].end = Later(@, s.end)]
    ELSE Append(out, s)

Merge(spans) ==
    ToSet(FoldLeft(Joined, << >>,
                   SetToSortSeq(spans, LAMBDA x, y :
                       x.start < y.start \/ (x.start = y.start /\ x.end < y.end))))

-----------------------------------------------------------------------------
(* The tables.                                                             *)

LatestOf(c) == IF samples[c] = << >> THEN Never ELSE Last(samples[c]).balance

\* recordPoints() for each of these channels.
Record(who) ==
    LET row(c)  == [ts |-> clock, balance |-> balance[c]]
        new     == {c \in who : LatestOf(c) # balance[c]}
    IN  /\ samples' = [c \in Channels |-> IF c \in new THEN Append(samples[c], row(c))
                                          ELSE samples[c]]
        /\ ever' = [c \in Channels |-> IF c \in new THEN Append(ever[c], row(c)) ELSE ever[c]]

\* see()
Seen(who) ==
    firstSeen' = [c \in Channels |->
                    IF c \in who /\ firstSeen[c] = Never THEN clock ELSE firstSeen[c]]

Evidence(c) == Last(samples'[c]).ts

\* openStreamerSession() and closeStreamerSessionsExcept(), with what Record(who)
\* has just stored.
Sessioned(who) ==
    LET open == {[who |-> c, start |-> live[c], end |-> Never, anchor |-> balance[c]] :
                   c \in {x \in who : live[x] # Never}}
        kept == {s \in sessions : s.who \notin who \/ s.end # Never \/ s.start = live[s.who]}
    IN  sessions' = kept
          \cup {o \in open : \A s \in sessions : s.who # o.who \/ s.start # o.start}
          \cup {[s EXCEPT !.end = Later(s.start, Evidence(s.who))] : s \in sessions \ kept}

\* Mutant: a session that a kill left open ends at the next boot.
RecoveredNow(rows) ==
    {IF r.end = Never THEN [r EXCEPT !.end = clock] ELSE r : r \in rows}

\* recoverOpenSessions()
Recovered(rows) ==
    {IF r.end = Never THEN [r EXCEPT !.end = r.beat] ELSE r : r \in rows}

\* beatMinerSession()
Beaten == runs' = {IF r.end = Never THEN [r EXCEPT !.beat = clock] ELSE r : r \in runs}
Signs  == sign' = IF mining THEN clock ELSE sign

SamplesOn(c, d) == SelectSeq(samples[c], LAMBDA s : DayOf(s.ts) = d)
PriorTo(c, d) ==
    LET before == SelectSeq(samples[c], LAMBDA s : DayOf(s.ts) < d)
    IN  IF before = << >> THEN Never ELSE Last(before).balance

\* earnedFor(): the sum of the rises.
EarnedFor(prior, list) ==
    FoldLeft(LAMBDA acc, s :
               [earned |-> acc.earned + IF acc.last # Never /\ s.balance > acc.last
                                        THEN s.balance - acc.last ELSE 0,
                last |-> s.balance],
             [earned |-> 0, last |-> prior], list).earned

\* earnedByStreamer() of a day: Never for a channel without a snapshot in it.
EarnedOn(d) ==
    [c \in Channels |-> IF SamplesOn(c, d) = << >> THEN Never
                        ELSE EarnedFor(PriorTo(c, d), SamplesOn(c, d))]

\* rollupDays(): complete days without rows.
RolledUp == [d \in Days |-> IF d < Today /\ daily[d] = NoRows THEN EarnedOn(d) ELSE daily[d]]

\* prunePoints()
Pruned ==
    [c \in Channels |-> SelectSeq(samples[c], LAMBDA s : s.ts >= clock - Retention * DayLength)]

-----------------------------------------------------------------------------
(* The figures on a card.                                                  *)

SessionsOf(c) == {s \in sessions : s.who = c}
Floor(c) == IF firstSeen[c] = Never THEN 0 ELSE firstSeen[c]

\* deriveOne(): online and mined from a moment on, each session for itself.
OnlineSince(c, from) ==
    MapThenSumSet(LAMBDA s : Total(Clip({s}, from, clock)), SessionsOf(c))
MinedSince(c, from) ==
    MapThenSumSet(LAMBDA s : Total(Overlap(Clip({s}, Later(from, Floor(c)), clock),
                                           Clip(runs, from, clock))), SessionsOf(c))

-----------------------------------------------------------------------------
(* The figures of Insights.                                                *)

\* minedByStreamer(): the mined spans of each channel.
MinedSpans(from, to) ==
    [c \in Channels |->
       UNION {Overlap(Clip({s}, Later(from, Floor(c)), to), Clip(runs, from, to)) :
                s \in SessionsOf(c)}]

\* earnedRows() of a day, today's computed from the snapshots.
EarnedRows(d) ==
    LET earned == IF d = Today THEN EarnedOn(d) ELSE RolledUp[d]
    IN  {r \in {[day |-> d, who |-> c, earned |-> earned[c]] : c \in Channels} : r.earned # Never}
SumOf(rows) == MapThenSumSet(LAMBDA r : r.earned, rows)
Earned(d) == SumOf(EarnedRows(d))

\* summarise(): the totals of a period.
MinedTotal(from, to) ==
    Total(Merge(UNION {MinedSpans(from, to)[c] : c \in Channels}))
UpTotal(from, to) == Total(Clip(runs, from, to))

\* buildCalendar() with msByDay(): the mined time of each day up to now.
MinedOnDay(d) ==
    LET merged == Merge(UNION {MinedSpans(0, clock)[c] : c \in Channels})
    IN  Total(Clip(merged, DayStart(d), DayStart(d + 1)))

\* streaks(): the longest, and the one that lasts; today need not have earned yet.
Longest ==
    FoldLeft(LAMBDA acc, d :
               LET run == IF Earned(d) > 0 THEN acc.run + 1 ELSE 0
               IN  [run |-> run, longest |-> Later(acc.longest, run)],
             [run |-> 0, longest |-> 0], [i \in 1..Today + 1 |-> i - 1]).longest

CountedFrom(d) == IF Earned(d) > 0 THEN d ELSE d - 1

Current ==
    LET earning == {d \in 0..Today : Earned(d) > 0}
        last    == CountedFrom(Today)
    IN  Cardinality({d \in earning : d..last \subseteq earning /\ d <= last})

-----------------------------------------------------------------------------
(* The world.                                                              *)

Tick ==
    /\ clock + 1 < DayStart(LastDay + 1) /\ Spends("moments")
    /\ clock' = clock + 1
    /\ mined' = IF mining THEN mined \cup {clock} ELSE mined
    /\ aired' = [c \in Channels |-> IF live[c] # Never THEN aired[c] \cup {clock} ELSE aired[c]]
    /\ UNCHANGED <<twitch, roster, up, mining, store, ever, sign, lost>>

GoesLive(c) ==
    /\ live[c] = Never /\ Spends("streams")
    /\ \A s \in sessions : s.who = c => s.start < clock
    /\ live' = [live EXCEPT ![c] = clock]
    /\ UNCHANGED <<clock, balance, roster, up, mining, store, truth>>

GoesOffline(c) ==
    /\ live[c] # Never
    /\ live' = [live EXCEPT ![c] = Never]
    /\ UNCHANGED <<clock, balance, roster, up, mining, store, budget, truth>>

\* Points are earned or spent.
BalanceMoves(c, by) ==
    /\ Spends("changes") /\ balance[c] + by >= 0
    /\ balance' = [balance EXCEPT ![c] = @ + by]
    /\ UNCHANGED <<clock, live, roster, up, mining, store, truth>>

RosterChanges(c) ==
    /\ Spends("edits")
    /\ roster' = IF c \in roster THEN roster \ {c} ELSE roster \cup {c}
    /\ UNCHANGED <<clock, twitch, up, mining, store, truth>>

-----------------------------------------------------------------------------
(* The backend.                                                            *)

\* doRefresh(), and the rings that go with it: what outlives the pass.
Poll ==
    /\ up
    /\ Beaten /\ Signs
    /\ Record(roster) /\ Seen(roster) /\ Sessioned(roster)
    /\ UNCHANGED <<clock, twitch, roster, up, mining, daily, budget, mined, aired, lost>>

\* tick() when no poll is due.
IdleTick ==
    /\ mining
    /\ Beaten /\ Signs
    /\ UNCHANGED <<clock, twitch, roster, up, mining, samples, sessions, daily, firstSeen,
                   budget, ever, mined, aired, lost>>

MinerStarts ==
    /\ up /\ ~mining /\ Spends("starts")
    /\ mining' = TRUE /\ sign' = clock
    /\ runs' = runs \cup {[start |-> clock, end |-> Never, beat |-> clock]}
    /\ UNCHANGED <<clock, twitch, roster, up, samples, sessions, daily, firstSeen, ever,
                   mined, aired, lost>>

MinerStops ==
    /\ mining
    /\ mining' = FALSE /\ sign' = clock
    /\ runs' = {IF r.end = Never THEN [r EXCEPT !.end = clock] ELSE r : r \in runs}
    /\ UNCHANGED <<clock, twitch, roster, up, samples, sessions, daily, firstSeen, budget,
                   ever, mined, aired, lost>>

\* housekeeping(): the rollup goes first.
Housekeeping ==
    /\ up
    /\ daily' = RolledUp /\ samples' = Pruned
    /\ UNCHANGED <<clock, twitch, roster, up, mining, sessions, runs, firstSeen, budget, truth>>

\* The Insights page is read.
ReadInsights ==
    /\ up /\ daily' = RolledUp
    /\ UNCHANGED <<clock, twitch, roster, up, mining, samples, sessions, runs, firstSeen,
                   budget, truth>>

Killed ==
    /\ up /\ Spends("kills")
    /\ up' = FALSE /\ mining' = FALSE
    /\ lost' = IF mining THEN lost \cup (sign .. clock - 1) ELSE lost
    /\ UNCHANGED <<clock, twitch, roster, store, ever, mined, aired, sign>>

Boot ==
    /\ ~up /\ up' = TRUE
    /\ runs' = Recovered(runs)
    /\ daily' = RolledUp /\ samples' = Pruned
    /\ UNCHANGED <<clock, twitch, roster, mining, sessions, firstSeen, budget, truth>>

Init ==
    /\ clock = 0
    /\ live = [c \in Channels |-> Never] /\ balance = [c \in Channels |-> 0]
    /\ roster = Channels
    /\ up = TRUE /\ mining = FALSE
    /\ samples = [c \in Channels |-> << >>] /\ sessions = {} /\ runs = {}
    /\ daily = [d \in Days |-> NoRows] /\ firstSeen = [c \in Channels |-> Never]
    /\ budget \in Budgets
    /\ ever = samples /\ mined = {} /\ aired = [c \in Channels |-> {}] /\ sign = Never /\ lost = {}

Next ==
    \/ Tick
    \/ \E c \in Channels : GoesLive(c) \/ GoesOffline(c) \/ RosterChanges(c)
    \/ \E c \in Channels, by \in {-1, 1} : BalanceMoves(c, by)
    \/ Poll \/ IdleTick \/ MinerStarts \/ MinerStops
    \/ Housekeeping \/ ReadInsights
    \/ Killed \/ Boot

Spec == Init /\ [][Next]_vars

-----------------------------------------------------------------------------
\* The points a day is said to have brought are the rises recorded in it,
\* whatever was pruned, restarted or read meanwhile; only the first one can be
\* missing, if the balance it rose from is older than the retention.  No day is
\* lost (index.ts:197-200, dailyPoints.ts:12-14, rollup.ts:30-36).
RiseAt(c, i) ==
    IF i > 1 /\ ever[c][i].balance > ever[c][i - 1].balance
    THEN ever[c][i].balance - ever[c][i - 1].balance ELSE 0
On(c, d) == {i \in DOMAIN ever[c] : DayOf(ever[c][i].ts) = d}
PriorIsKept(c, d) ==
    LET first == CHOOSE i \in On(c, d) : \A j \in On(c, d) : i <= j
    IN  first = 1 \/ ever[c][first - 1].ts >= DayStart(d + 1) - Retention * DayLength

DaysAddUp ==
    \A d \in {x \in Days : x < Today} : \A c \in Channels :
        LET rises == MapThenSumSet(LAMBDA i : RiseAt(c, i), On(c, d))
        IN  IF On(c, d) = {} THEN daily[d][c] = Never
            ELSE /\ RolledUp[d][c] # Never
                 /\ RolledUp[d][c] <= rises
                 /\ PriorIsKept(c, d) => RolledUp[d][c] = rises

\* The miner's recorded uptime is the moments at which it ran, but for those
\* between its last sign of life and a kill: not across a stop, a kill, or a
\* boot much later (history.ts:360-368).
UptimeIsTrue ==
    up => Moments(Clip(runs, 0, clock)) = mined \ lost

\* A recorded stream that has ended ends where points were recorded, or where it
\* began, and up to the last record but one it really was on the air.  So it may
\* claim the time from one record of points to the next too much: the poll that
\* finds a stream gone records the balance first and ends the stream at that
\* record, if the balance moved meanwhile (service.ts:651-678).  When the backend
\* was down meanwhile, what is claimed is the outage, which history.ts:268-274
\* says is not.
StreamsAreTrue ==
    \A s \in sessions :
        LET records == {ever[s.who][i].ts : i \in DOMAIN ever[s.who]}
            within  == {t \in records : s.start < t /\ (s.end = Never \/ t < s.end)}
        IN  /\ s.end \in records \cup {Never, s.start}
            /\ \A t \in within : s.start .. t - 1 \subseteq aired[s.who]

RecordIsTrue == DaysAddUp /\ UptimeIsTrue /\ StreamsAreTrue

\* The same past reads the same everywhere: channels mined at once count once
\* and never for more than the uptime, the days of the calendar add up to the
\* recap, the cards leave out nothing of it and have no channel mined for longer
\* than it was on line, and a streak is a run of days that earned, the current
\* one among them (recap.ts:10-14, mined.ts:11-19, calendar.ts:83-89).
InsightsAgree ==
    LET spans  == UNION {MinedSpans(0, clock)[c] : c \in Channels}
        earned == {d \in 0..Today : Earned(d) > 0}
        chains == {<<a, b>> \in (0..Today) \X (0..Today) : a <= b /\ a..b \subseteq earned}
        until(D) == {Cardinality(x[1]..x[2]) : x \in {y \in chains : y[2] \in D}}
        lasting == IF Today \in earned THEN {Today} ELSE {Today - 1}
    IN  /\ MinedTotal(0, clock) = Cardinality(Moments(spans))
        /\ MinedTotal(0, clock) <= UpTotal(0, clock)
        /\ MinedTotal(0, clock) <= MapThenSumSet(LAMBDA c : MinedSince(c, 0), Channels)
        /\ \A c \in Channels, from \in {0, clock - DayLength} :
              MinedSince(c, from) <= OnlineSince(c, from)
        /\ MapThenSumSet(MinedOnDay, 0..Today) = MinedTotal(0, clock)
        /\ Longest = Max({0} \cup until(0..Today))
        /\ Current = Max({0} \cup until(lasting))

=============================================================================
