------------------------------- MODULE Readings ------------------------------
(***************************************************************************)
(* What the pages read out of the Ledger: the figures of a card            *)
(* (state/service.ts, state/gains.ts), the detail dialog of a channel      *)
(* (http/server.ts and the frontend's sessionRows, coverageRows and        *)
(* bucketPoints) and the recap of a period (insights/recap.ts).  All are   *)
(* functions of the tables, and each computes its own way.                 *)
(*                                                                         *)
(* A day of the browser is a day of the backend here: one time zone.       *)
(***************************************************************************)
EXTENDS Ledger

CONSTANTS
    TopCount,  \* how many channels a recap ranks: 3 in the code
    Week,      \* hours of the schedule's grid: 168 in the code
    Weeks      \* how far back the schedule goes, in hours: SCHEDULE_WEEKS

\* What may be missing is a set of at most one.
Unbounded == DayStart(LastDay + 2)
DayAgo    == clock - DayLength

-----------------------------------------------------------------------------
(* Points.                                                                 *)

\* pointsSeries()
SeriesOf(c, from, to) == SelectSeq(samples[c], LAMBDA s : from <= s.ts /\ s.ts <= to)

\* balanceAt(): the balance in force, not the nearest.
BalanceAt(c, t) ==
    LET before == SeriesOf(c, Never, t)
    IN  IF before = << >> THEN Never ELSE Last(before).balance

\* gainWindow(): the balance at from, or the earliest with its moment.
GainWindow(c, from, now) ==
    IF samples[c] = << >> \/ Head(samples[c]).ts >= now THEN {}
    ELSE {IF Head(samples[c]).ts <= from THEN [ts |-> Never, balance |-> BalanceAt(c, from)]
          ELSE Head(samples[c])}

Gain(c, points, from) == {points - w.balance : w \in GainWindow(c, from, clock)}
GainedSince(c, from)  == {w.ts : w \in GainWindow(c, from, clock)}

\* bucketPoints() by day: of each day from the first sample on, the balance it
\* closes with and what it moved by.
ChartRows(series) ==
    IF series = << >> THEN << >>
    ELSE FoldLeft(
           LAMBDA rows, d :
             LET before == IF rows = << >> THEN Head(series).balance ELSE Last(rows).balance
                 within == SelectSeq(series, LAMBDA s : DayOf(s.ts) = d)
                 close  == IF within = << >> THEN before ELSE Last(within).balance
             IN  Append(rows, [day |-> d, balance |-> close, gain |-> close - before]),
           << >>,
           [i \in 1 .. Today - DayOf(Head(series).ts) + 1 |-> DayOf(Head(series).ts) + i - 1])

\* pointsBetween(), over the series the page has.
PointsBetween(series, from, to) ==
    LET at(t) == SelectSeq(series, LAMBDA s : s.ts <= t)
    IN  IF at(from) = << >> THEN {} ELSE {Last(at(to)).balance - Last(at(from)).balance}

-----------------------------------------------------------------------------
(* A card: deriveOne(), for a channel with this many points.               *)

OpenOf(c) == {s \in SessionsOf(c) : s.end = Never}

\* lastLive()
LastLive(c) ==
    IF OpenOf(c) # {} \/ SessionsOf(c) = {} THEN Never
    ELSE Max({s.end : s \in SessionsOf(c)})

Card(c, points) ==
    [gained24h    |-> Gain(c, points, DayAgo),
     gainedSince  |-> GainedSince(c, DayAgo),
     gainedStream |-> {points - s.anchor : s \in OpenOf(c)},
     lastLive     |-> LastLive(c),
     online24h    |-> OnlineSince(c, DayAgo),
     mined24h     |-> MinedSince(c, DayAgo),
     minedTotal   |-> MinedSince(c, 0)]

-----------------------------------------------------------------------------
(* The detail dialog: GET /api/history from a moment up to now.            *)

\* gained: the closing balance less the one the window opens with.
DialogGain(c, from) ==
    {BalanceAt(c, clock) - w.balance : w \in GainWindow(c, from, clock)}

\* sessionsFor()
SessionsFrom(c, from) == {s \in SessionsOf(c) : s.end = Never \/ s.end >= from}

\* What each was mined and earned.
SessionRows(c, from) ==
    {LET end     == IF s.end = Never THEN clock ELSE s.end
         closing == BalanceAt(c, end)
     IN  [start  |-> s.start, end |-> s.end,
          mined  |-> Total(Overlap(Clip({s}, Floor(c), end), Clip(runs, Floor(c), end))),
          earned |-> IF closing = Never THEN {} ELSE {closing - s.anchor}] :
       s \in SessionsFrom(c, from)}

\* sessionRows()
Length(row) == Later(0, (IF row.end = Never THEN clock ELSE row.end) - row.start)

\* coverage: the live spans, and where a run of the miner meets one.  Each keeps
\* the session it is of, for the code's lists may hold a span twice.
EndOf(s) == IF s.end = Never THEN Unbounded ELSE s.end
Cut(bands, from, to) ==
    {b \in {[of |-> x.of, start |-> Later(x.start, from),
             end |-> IF x.end < to THEN x.end ELSE to] : x \in bands} : b.end > b.start}

LiveBands(c, from) ==
    Cut({[of |-> s.start, start |-> s.start, end |-> EndOf(s)] : s \in SessionsOf(c)},
        Later(Floor(c), from), clock)
MinedBands(c, from) ==
    Cut({[of |-> s.start, start |-> Later(s.start, r.start),
          end |-> IF EndOf(s) < EndOf(r) THEN EndOf(s) ELSE EndOf(r)] :
            s \in SessionsOf(c), r \in runs},
        Later(Floor(c), from), clock)

\* coverageRows(): a day's share of them.
OnDay(bands, d) == Cut(bands, DayStart(d), IF DayStart(d + 1) < clock THEN DayStart(d + 1)
                                           ELSE clock)

\* GET /api/streamers/:login/schedule and bucketSchedule(): the hours of the week,
\* a moment being an hour.
Since(c) == IF firstSeen[c] = Never THEN clock ELSE Later(clock - Weeks, firstSeen[c])
Observed(c) == {h \in Times : Since(c) <= h /\ h < clock}
Cell(c, k) ==
    LET hours == {h \in Observed(c) : h % Week = k}
    IN  [of   |-> Cardinality(hours),
         live |-> Cardinality({h \in hours : \E s \in Clip(SessionsOf(c), Since(c), clock) :
                                                s.start < h + 1 /\ h < s.end})]

\* dayStretches(): the mined part of each live band of a day.
Stretches(live1, mined1) ==
    {[start |-> b.start, end |-> b.end,
      mined |-> MapThenSumSet(LAMBDA m : m.end - m.start, Cut(mined1, b.start, b.end))] :
        b \in live1}

\* collapseQuietDays(): MIN_GAP quiet days between two active ones are one entry.
MinGap == 2
Listed(from, to) == [i \in 1 .. to - from + 1 |-> [from |-> from + i - 1, to |-> from + i - 1]]
Collapse(active) ==
    FoldLeft(LAMBDA acc, d :
               IF ~active[d] THEN [acc EXCEPT !.quiet = IF acc.out = << >> THEN 0 ELSE @ + 1]
               ELSE [quiet |-> 0,
                     out |-> acc.out
                       \o (IF acc.quiet >= MinGap
                           THEN <<[from |-> d - acc.quiet, to |-> d - 1]>>
                           ELSE Listed(d - acc.quiet, d - 1))
                       \o Listed(d, d)],
             [out |-> << >>, quiet |-> 0],
             [i \in 1..Cardinality(DOMAIN active) |-> i - 1]).out

-----------------------------------------------------------------------------
(* The recap of a week or month, and of a day: here any run of days.       *)

DaysIn(from, to) == {d \in Days : DayStart(d) < to /\ from < DayStart(d + 1)}

\* summarise()
Summary(from, to) ==
    LET rows  == UNION {EarnedRows(d) : d \in {x \in DaysIn(from, to) : x <= Today}}
        spans == MinedSpans(from, to)
    IN  [earned   |-> SumOf(rows),
         mined    |-> MinedTotal(from, to),
         up       |-> UpTotal(from, to),
         channels |-> {[who |-> c, earned |-> SumOf({r \in rows : r.who = c}),
                        mined |-> Total(spans[c])] : c \in Channels},
         perDay   |-> {[day |-> d, earned |-> SumOf({r \in rows : r.day = d})] :
                         d \in DaysIn(from, to)}]

\* The channels by a figure, the best first, without those who have none.
Ranked(channels, figure) ==
    SetToSortSeq({x \in channels : x[figure] > 0}, LAMBDA x, y : x[figure] > y[figure])

RankedRecap(summary, earners, watched) ==
    LET top == {earners[i].who : i \in 1..Min({TopCount, Len(earners)})}
    IN  [totals      |-> summary,
         top         |-> top,
         mostWatched |-> IF watched = << >> \/ Head(watched).who \in top
                         THEN {} ELSE {Head(watched).who},
         bestDay     |-> FoldLeft(LAMBDA best, x : IF x.earned > best.earned THEN x ELSE best,
                                  [day |-> Never, earned |-> 0],
                                  SetToSortSeq(summary.perDay, LAMBDA x, y : x.day < y.day))]

RecapOf(summary) ==
    RankedRecap(summary, Ranked(summary.channels, "earned"), Ranked(summary.channels, "mined"))

\* buildRecap() of the days a to b, if they have begun.
Recap(a, b) ==
    RecapOf(Summary(DayStart(a), IF DayStart(b + 1) < clock THEN DayStart(b + 1) ELSE clock))

\* buildCalendar()
Calendar ==
    LET merged == Merge(UNION {MinedSpans(0, clock)[c] : c \in Channels})
        best(rows) == {r.who : r \in {x \in rows : x.earned > 0 /\ \A y \in rows :
                                                      y.earned <= x.earned}}
    IN  {[day |-> d, earned |-> Earned(d), top |-> best(EarnedRows(d)),
          mined |-> Total(Clip(merged, DayStart(d), DayStart(d + 1)))] : d \in 0..Today}

\* buildDaySummary()
DaySummary(d) == Summary(DayStart(d), DayStart(d + 1))

-----------------------------------------------------------------------------
\* A gain is what the balance moved by since the moment the page names, however
\* much of the past was pruned; the days of the chart add up to what it shows;
\* no day moved by more than Insights says was earned in it; and the card of a
\* day says the same, unless the balance moved at midnight (gains.ts:9-18,
\* server.ts:1220-1238, bucketPoints.ts:64-68, coverageRows.ts:131-134).
EverAt(c, t) == {ever[c][i].balance : i \in {j \in DOMAIN ever[c] : ever[c][j].ts = t}}
EverBy(c, t) == LET before == SelectSeq(ever[c], LAMBDA s : s.ts <= t)
                IN  {Last(before).balance}
EverNow(c) == Last(ever[c]).balance
GainsAreHonest ==
    \A c \in Channels :
        LET series == SeriesOf(c, 0, clock)
            rows   == ChartRows(series)
        IN  /\ \A from \in {0, DayAgo} :
                  \A w \in GainWindow(c, from, clock) :
                     \E b \in IF w.ts = Never THEN EverBy(c, from) ELSE EverAt(c, w.ts) :
                        DialogGain(c, from) = {EverNow(c) - b}
            /\ series # << >> =>
                 MapThenSumSet(LAMBDA i : rows[i].gain, DOMAIN rows)
                   = LatestOf(c) - Head(series).balance
            /\ \A i \in DOMAIN rows :
                 LET d    == rows[i].day
                     said == PointsBetween(series, DayStart(d), DayStart(d + 1))
                 IN  /\ rows[i].gain <= SumOf({r \in EarnedRows(d) : r.who = c})
                     /\ {DayStart(d), DayStart(d + 1)} \cap {s.ts : s \in ToSet(series)} = {}
                          => said \subseteq {rows[i].gain}

\* The dialog opened over a card says what the card says: of the points since a
\* day ago and since the stream began, and of the time it was mined, in a list of
\* streams or day by day; no stream or day was mined for longer than it was live,
\* and the schedule has the hours the strip has (gains.ts:26-29, server.ts:1196-1200, sessionRows.ts:26-30).
DialogAgrees ==
    \A c \in Channels :
        LET card == Card(c, LatestOf(c))
            rows == SessionRows(c, 0)
            apart == \A r, s \in rows :
                       r.start < s.start => r.end # Never /\ r.end <= s.start
        IN  /\ MapThenSumSet(LAMBDA r : r.mined, rows) = card.minedTotal
            /\ MapThenSumSet(LAMBDA b : b.end - b.start, MinedBands(c, DayAgo)) = card.mined24h
            /\ samples[c] # << >> => card.gained24h = DialogGain(c, DayAgo)
            /\ \A r \in rows :
                  /\ r.mined <= Length(r)
                  /\ r.end = Never /\ samples[c] # << >> => r.earned \subseteq card.gainedStream
            /\ MapThenSumSet(LAMBDA k : Cell(c, k).live, 0..Week - 1)
                 = Cardinality(Moments(LiveBands(c, clock - Weeks)) \cap Observed(c))
            /\ \A from \in {0, DayAgo} :
                  LET day(d) == Stretches(OnDay(LiveBands(c, from), d),
                                          OnDay(MinedBands(c, from), d))
                  IN  /\ MapThenSumSet(LAMBDA d : MapThenSumSet(LAMBDA b : b.end - b.start,
                                                      OnDay(MinedBands(c, from), d)), 0..Today)
                           = MinedSince(c, from)
                      /\ apart => \A d \in 0..Today : \A s \in day(d) :
                                     s.mined <= s.end - s.start

\* The figures of a period are those of its days, which the calendar shows alike,
\* and of its channels, its best day and channels are the best, and nobody who was mined goes unnamed because
\* another earned (recap.ts:106-165, 177-198).
RecapAddsUp ==
    clock > 0 =>
        \A recap \in {Recap(0, Today)} :
        \A each \in {{[day |-> d, is |-> IF d < Today THEN DaySummary(d)
                                         ELSE Summary(DayStart(d), clock)] :
                         d \in {x \in 0..Today : DayStart(x) < clock}}} :
            /\ recap.totals.earned = MapThenSumSet(LAMBDA x : x.is.earned, each)
            /\ recap.totals.mined = MapThenSumSet(LAMBDA x : x.is.mined, each)
            /\ recap.totals.mined <= recap.totals.up
            /\ \A x \in each, y \in Calendar : x.day = y.day =>
                  /\ x.is.earned = y.earned /\ x.is.mined = y.mined
                  /\ y.top = {} <=> x.is.earned = 0
            /\ \A x \in each : x.is.earned <= recap.bestDay.earned
                              /\ x.day = recap.bestDay.day => x.is.earned = recap.bestDay.earned
            /\ \A x, y \in recap.totals.channels :
                  x.who \in recap.top /\ y.who \notin recap.top => y.earned <= x.earned
            /\ (\E x \in recap.totals.channels : x.mined > 0) =>
                  \E x \in recap.totals.channels :
                      /\ x.who \in recap.top \cup recap.mostWatched
                      /\ \A y \in recap.totals.channels : y.mined <= x.mined

\* Every day from the first stream to the last is in the strip once and in
\* order, and only days without a stream are folded (coverageRows.ts:163-180).
StripIsWhole ==
    \A n \in 1..6 : \A active \in [0..n - 1 -> BOOLEAN] :
        LET strip == Collapse(active)
            on    == {d \in DOMAIN active : active[d]}
        IN  IF on = {} THEN strip = << >>
            ELSE /\ Head(strip).from = Min(on) /\ Last(strip).to = Max(on)
                 /\ \A i \in 1..Len(strip) - 1 : strip[i + 1].from = strip[i].to + 1
                 /\ \A i \in DOMAIN strip :
                      strip[i].to > strip[i].from => strip[i].from..strip[i].to \cap on = {}

PastReadsTheSame ==
    InsightsAgree /\ GainsAreHonest /\ DialogAgrees /\ RecapAddsUp

=============================================================================
