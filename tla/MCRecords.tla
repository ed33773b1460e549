------------------------------ MODULE MCRecords ------------------------------
(***************************************************************************)
(* Four components that share no state, in one run of TLC: what is kept of *)
(* the past, and what is read of campaigns and drops.  A behaviour is one  *)
(* of one of them, while the others stay as they began.  Badges and Sweep, *)
(* which theorems are about, are extended and so checked under their names.*)
(***************************************************************************)
EXTENDS Badges, Sweep, TLC

CONSTANT Parts   \* the components a run is about

VARIABLES
    part,
    \* Ledger
    clock, live, balance, roster, up, mining, samples, sessions, runs, daily, firstSeen,
    budget, ever, mined, aired, sign, lost,
    \* DropProgress
    watched, claimed, past, running, inventory, fetch, catalogue, sweep, disk, reader,
    seen, store, news, timer, left, best, told, synced, late

ledgerVars == <<clock, live, balance, roster, up, mining, samples, sessions, runs, daily,
                firstSeen, budget, ever, mined, aired, sign, lost>>
dropVars   == <<watched, claimed, past, running, inventory, fetch, catalogue, sweep, disk,
                reader, seen, store, news, timer, left, best, told, synced, late>>
all == <<part, ledgerVars, dropVars, badgeVars, sweepVars>>

-----------------------------------------------------------------------------
(* The bounds of each.                                                     *)

\* Behaviours about points, about uptime and about streams.
Spending(moments, moves, streams, starts, deaths, removals) ==
    [moments |-> moments, changes |-> moves, streams |-> streams, starts |-> starts,
     kills |-> deaths, edits |-> removals]
Past == INSTANCE Readings WITH
    DayLength <- 2, Retention <- 1, LastDay <- 2, TopCount <- 1, Week <- 2, Weeks <- 3,
    Budgets <- {Spending(5, 2, 0, 0, 0, 0), Spending(4, 2, 0, 0, 1, 0),
                Spending(3, 0, 0, 2, 1, 0), Spending(2, 0, 2, 1, 0, 0),
                Spending(2, 1, 1, 1, 0, 0), Spending(3, 0, 1, 1, 0, 1),
                Spending(3, 0, 1, 1, 1, 0), Spending(3, 1, 1, 0, 1, 0)}

\* A ladder of two drops, and a third that takes a subscription.
Effort(mins, reads, ages, deaths, attempts) ==
    [minutes |-> mins, reads |-> reads, ages |-> ages, kills |-> deaths,
     attempts |-> attempts]
Progress == INSTANCE DropProgress WITH
    Drops <- {"first", "second", "gated"},
    Required <- [first |-> 1, second |-> 2, gated |-> 1],
    SubGated <- {"gated"}, Shut <- {}, Pasts <- {{"earlier"}},
    Budgets <- {Effort(3, 0, 0, 1, 0), Effort(1, 1, 0, 0, 0), Effort(2, 0, 0, 0, 1),
                Effort(0, 0, 1, 1, 0), Effort(0, 1, 1, 0, 0)}

\* Two games that share a campaign.
TwoGames == <<"g1", "g2">>
GamesOfTwo == [c1 |-> {"g1"}, c2 |-> {"g1", "g2"}]

\* The strip of days keeps its days for any activity: a question about data alone.
ASSUME StripAssumption == Past!StripIsWhole

ASSUME InstancesAreSound == SweepAssumption /\ BadgeAssumption

Symmetry == Permutations(Channels)

-----------------------------------------------------------------------------

\* One beginning of the components that are not running.
Chosen ==
    /\ IF part = "past" THEN TRUE ELSE budget = Spending(3, 0, 0, 2, 1, 0)
    /\ IF part = "progress" THEN TRUE ELSE left = Effort(1, 1, 0, 0, 0) /\ claimed = {}
    /\ IF part = "badge" THEN TRUE ELSE onAir = {}
    /\ IF part = "sweep" THEN TRUE
       ELSE plan = [c \in Campaigns |-> [known |-> 0, opens |-> 0, ends |-> 1]]

Init ==
    /\ part \in Parts /\ Chosen
    /\ Past!Init
    /\ Progress!Init
    /\ BadgeInit
    /\ SweepInit

\* Only component p takes a step.
Only(p) ==
    /\ part = p /\ part' = p
    /\ IF p = "past" THEN TRUE ELSE UNCHANGED ledgerVars
    /\ IF p = "progress" THEN TRUE ELSE UNCHANGED dropVars
    /\ IF p = "badge" THEN TRUE ELSE UNCHANGED badgeVars
    /\ IF p = "sweep" THEN TRUE ELSE UNCHANGED sweepVars

Next ==
    \/ Only("past") /\ Past!Next
    \/ Only("progress") /\ Progress!Next
    \/ Only("badge") /\ BadgeNext
    \/ Only("sweep") /\ SweepNext

Spec == Init /\ [][Next]_all

-----------------------------------------------------------------------------
(* What the two others promise, as their own modules state it.             *)

\* What is recorded of points, streams and uptime is so, and cards, dialogs and
\* insights say the same of it.
PastIsTrue == part = "past" => Past!RecordIsTrue /\ Past!PastReadsTheSame

\* No drop is called done, campaign called gone or claim called new without it,
\* and what is recorded of a drop never goes back.
ProgressIsTrue ==
    /\ [](part = "progress" => Progress!NothingIsMadeUp)
    /\ Progress!ProgressNeverGoesBack

=============================================================================
