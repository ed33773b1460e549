------------------------------- MODULE MCPages -------------------------------
(***************************************************************************)
(* Eleven components that share no state, in one run of TLC: who gets in,  *)
(* and what the pages and the miner are given.  A behaviour is one of one  *)
(* of them, while the others stay as they began.  Those that theorems are  *)
(* about are extended and so checked under their own names.                *)
(***************************************************************************)
EXTENDS Access, Doorbell, StateHelper, LogFeed, AppLog, GiftSubs, FollowDialog,
        DropsPage

CONSTANT Parts   \* the components a run is about

VARIABLES
    part,
    \* Launch
    file, author, follows, launched, shown, watching, changes,
    \* CampaignGrid
    clock, watched, claims, listed, inventory, snapshots, data, recorded, view, needle,
    jumpedTo, sortedAt, opened, was, gridLeft,
    \* DraftPages
    saved, staged, tab, lookups, draftLeft, held, confirmed, excused

launchVars == <<file, author, follows, launched, shown, watching, changes>>
gridVars   == <<clock, watched, claims, listed, inventory, snapshots, data, recorded, view,
                needle, jumpedTo, sortedAt, opened, was, gridLeft>>
draftVars  == <<saved, staged, tab, lookups, draftLeft, held, confirmed, excused>>
all == <<part, helperVars, launchVars, logVars, eventVars, accessVars, panelVars,
         gridVars, draftVars, bellVars, giftVars, dialogVars>>

-----------------------------------------------------------------------------
(* The bounds of each.                                                     *)

\* Three channels, of which subscriptions own some, with settings in the spellings
\* a user may have used; the account follows one more, or one of them as well.
Written == {<<>>, [claim_drops |-> "false"], [bet |-> {"percentage_gap"}],
            [claimDrops |-> "NONE"]}
Entry(u, s, owner) ==
    [username |-> u, enabled |-> TRUE, settings |-> s, ownedBy |-> owner]
WrittenFile(defaults, settings, owner) ==
    [defaults |-> defaults, followers |-> TRUE,
     streamers |-> <<Entry("a", settings, "nobody"), Entry("b", <<>>, "s1"),
                   Entry("c", [claim_drops |-> "NONE"], owner)>>]
WrittenFiles ==
    {WrittenFile(d, s, "s2") : d \in {<<>>, [claim_drops |-> "true"]}, s \in Written}
    \cup {WrittenFile(<<>>, s, "s1") : s \in Written}
Miner == INSTANCE Launch WITH
    Files <- WrittenFiles, Follows <- {<<"d", "a">>}, MaxAmount <- 2,
    MaxChanges <- 1

\* Two campaigns of a game and one of none; two calls of the page's own, or one
\* with an event elsewhere and a lost message.
OccasionsOfPanel == {[calls |-> 2, elsewhere |-> 0, lost |-> 0],
                     [calls |-> 1, elsewhere |-> 1, lost |-> 1]}
RankedFirst == <<"a", "b">>

\* A campaign that runs, one that starts later and one without dates; a drop of
\* one minute, one of two and one that is not watched for.
Spent(l, k, r, m, t) ==
    [loads |-> l, clicks |-> k, records |-> r, minutes |-> m, moments |-> t]
GridBudgets == {Spent(1, 1, 1, 1, 1), Spent(1, 0, 0, 3, 1), Spent(0, 3, 0, 0, 1),
                Spent(1, 2, 1, 1, 0), Spent(2, 0, 0, 2, 1)}
Grid == INSTANCE CampaignGrid WITH
    Campaigns <- {1, 2, 3}, Starts <- <<0, 1, -1>>, Ends <- <<2, 3, -1>>,
    Required <- <<1, 2, 0>>, Budgets <- GridBudgets, kept <- snapshots, open <- opened,
    left <- gridLeft

\* Two tabs, and a row of the engine's between two of the user's.
Did(e, a, o, f, l) == [edits |-> e, applies |-> a, others |-> o, faults |-> f, loads |-> l]
DraftBudgets == {Did(2, 1, 1, 0, 0), Did(1, 2, 1, 1, 1), Did(2, 2, 0, 1, 0)}
Owned(login, owned) == [login |-> login, owned |-> owned, on |-> TRUE]
Drafts == INSTANCE DraftPages WITH
    Tabs <- {"t1", "t2"}, Logins <- {"n"}, NewOwned <- "p", NewName <- "me",
    FirstFile <- [name |-> "", miner |-> 0,
                  rows |-> <<Owned("a", FALSE), Owned("o", TRUE), Owned("b", FALSE)>>],
    Budgets <- DraftBudgets, file <- saved, left <- draftLeft

\* Both slots and a queue of two: three changes with two posts lost, a restart of the
\* miner, gains that age, and verdicts that outlive it.
Rung(c, g, l, s, f, m, p, r) ==
    [changes |-> c, gains |-> g, lost |-> l, starts |-> s, flips |-> f, minutes |-> m,
     polls |-> p, reports |-> r]
BellBudgets == {Rung(3, 0, 2, 1, 0, 0, 2, 0), Rung(1, 0, 0, 2, 0, 0, 1, 0),
                Rung(1, 1, 0, 1, 0, 2, 1, 1), Rung(0, 0, 0, 1, 1, 3, 0, 3)}

\* Two gifts of a channel, one of another and one of none, which end in their turn.
Given(g, f, a, i, m) ==
    [gifts |-> g, faults |-> f, asks |-> a, idles |-> i, minutes |-> m]
GiftOccasions == {Given(2, 1, 1, 1, 2), Given(2, 2, 1, 0, 1)}
Gift(i, t, e) == [id |-> i, target |-> t, endsAt |-> e]
GiftsOfFour == {Gift(1, "a", 1), Gift(2, "a", 3), Gift(3, "nobody", 2), Gift(4, "b", 2)}

\* A query that matches more than is shown, one of them by its id, and one that
\* matches one; more picks than a call may have.
Tried(w, f, v, p, e, g) ==
    [words |-> w, faults |-> f, visits |-> v, picks |-> p, elsewhere |-> e, gone |-> g]
DialogOccasions == {Tried(3, 1, 1, 1, 0, 0), Tried(1, 1, 1, 2, 2, 0),
                    Tried(1, 0, 1, 2, 1, 1), Tried(2, 0, 2, 3, 0, 0)}
NamedGames == [q \in {"q1", "q2"} |-> IF q = "q1" THEN <<"a", "b", "c">> ELSE <<"d">>]
ExactGames == [q \in {"q1", "q2"} |-> IF q = "q1" THEN {"c"} ELSE {}]

-----------------------------------------------------------------------------

\* A component that is not running has one beginning.
Begins(p, one) == IF part = p THEN TRUE ELSE one

Init ==
    /\ part \in Parts
    /\ HelperInit          /\ Begins("helper", pickle = 1 /\ odd = {})
    /\ Miner!Init          /\ Begins("miner", file = CHOOSE f \in WrittenFiles : f.defaults = <<>>)
    /\ LogInit
    /\ EventsInit
    /\ AccessInit
    /\ PanelInit           /\ Begins("panel", panelLeft.calls = 2 /\ ~restartDue)
    /\ Grid!Init           /\ Begins("grid", gridLeft = Spent(0, 3, 0, 0, 1)
                                    /\ inventory.available)
    /\ Drafts!Init         /\ Begins("drafts", draftLeft.edits = 1)
    /\ BellInit            /\ Begins("bell", left.changes = 3)
    /\ GiftInit            /\ Begins("gifts", giftLeft.faults = 1)
    /\ DialogInit          /\ Begins("dialog", dialogLeft.words = 3)

\* Only component p takes a step.
Only(p) ==
    /\ part = p /\ part' = p
    /\ IF p = "helper" THEN TRUE ELSE UNCHANGED helperVars
    /\ IF p = "miner" THEN TRUE ELSE UNCHANGED launchVars
    /\ IF p = "feed" THEN TRUE ELSE UNCHANGED logVars
    /\ IF p = "events" THEN TRUE ELSE UNCHANGED eventVars
    /\ IF p = "door" THEN TRUE ELSE UNCHANGED accessVars
    /\ IF p = "panel" THEN TRUE ELSE UNCHANGED panelVars
    /\ IF p = "grid" THEN TRUE ELSE UNCHANGED gridVars
    /\ IF p = "drafts" THEN TRUE ELSE UNCHANGED draftVars
    /\ IF p = "bell" THEN TRUE ELSE UNCHANGED bellVars
    /\ IF p = "gifts" THEN TRUE ELSE UNCHANGED giftVars
    /\ IF p = "dialog" THEN TRUE ELSE UNCHANGED dialogVars

Next ==
    \/ Only("helper") /\ HelperNext
    \/ Only("miner") /\ Miner!Next
    \/ Only("feed") /\ LogNext
    \/ Only("events") /\ EventsNext
    \/ Only("door") /\ AccessNext
    \/ Only("panel") /\ PanelNext
    \/ Only("grid") /\ Grid!Next
    \/ Only("drafts") /\ Drafts!Next
    \/ Only("bell") /\ BellNext
    \/ Only("gifts") /\ GiftNext
    \/ Only("dialog") /\ DialogNext

Spec == Init /\ [][Next]_all

-----------------------------------------------------------------------------
(* What the others promise, as their own modules state it.                 *)

\* However a config was spelled and by whom it was saved, the miner that is launched
\* with it mines the channels that have cards, claims as the backend takes it to, and
\* shares its slots with the pools (config/schema.ts:328, run.py; module Launch).
MinerIsAsConfigured == part = "miner" => Miner!LaunchedAsConfigured

\* Whatever the age of the payload and of what is recorded, the grid's order, badges,
\* bars, history and jumps are true at the moment a card is drawn (Drops.tsx:829,
\* CampaignCard.tsx:72; module CampaignGrid).
GridIsTrue == part = "grid" => Grid!GridIsHonest

\* What a page of settings shows as saved was saved, what could not be written is still
\* staged, a sign-in's name stays and no row is lost or moved, while other tabs, the
\* engine and sign-ins write the same file (server.ts:399-587; module DraftPages).
DraftsAreKept == part = "drafts" => Drafts!DraftsAreSafe

=============================================================================
