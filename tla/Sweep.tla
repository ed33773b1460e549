-------------------------------- MODULE Sweep --------------------------------
(***************************************************************************)
(* The campaign sweep (state/campaignSource.ts: fetchCampaigns): the       *)
(* tracker's index and home page say which games to read, each game's page *)
(* supplies its campaigns, and one page that fails twice fails it all.     *)
(*                                                                         *)
(* The tracker's pages come from edge caches: what a request returns is    *)
(* the page as it was up to MaxAge ago, each page with an age of its own.  *)
(* A page comes back without its data now and then.                        *)
(***************************************************************************)
EXTENDS Naturals, FiniteSets, Sequences, SequencesExt

CONSTANTS
    Games,        \* the index's games, in its order
    GamesOf,      \* the games each campaign is listed under
    Followed,     \* alsoGameIds: swept whatever the index says
    Concurrency,  \* CONCURRENCY
    MaxAge,       \* the oldest a cached page gets
    Horizon,      \* bound: the last moment
    MaxFaults     \* bound: pages that come back without their data

VARIABLES
    hour,
    plan,   \* the tracker: when each campaign is known, opens and ends
    scan,   \* the sweep under way
    pages,  \* of each game: the reading of its page
    list,   \* the campaigns of the sweep that ended last
    misses

sweepVars == <<hour, plan, scan, pages, list, misses>>

Campaigns == DOMAIN GamesOf

\* What the constants are: each campaign is under one of the index's games.
SweepAssumption ==
    /\ MaxAge \in Nat /\ Horizon \in Nat
    /\ \A c \in Campaigns : GamesOf[c] # {} /\ GamesOf[c] \subseteq ToSet(Games)

Plans == {p \in [known: 0..Horizon, opens: 0..Horizon, ends: 1..(Horizon + 1)] :
             p.known <= p.opens /\ p.opens < p.ends}

Known(c, t)     == plan[c].known <= t
Scheduled(c, t) == Known(c, t) /\ t < plan[c].opens
Running(c, t)   == plan[c].opens <= t /\ t < plan[c].ends
Of(game)        == {c \in Campaigns : game \in GamesOf[c]}

\* What a page read now may show: itself, at a moment of the last MaxAge.
Moments == {t \in 0..hour : hour <= t + MaxAge}

NoSweep == [step |-> "none", began |-> 0, games |-> {}]
Unread  == [step |-> "unread", campaigns |-> {}]

\* extractGames(): the index lists a game's campaigns once one runs.
Listed(t) == {g \in ToSet(Games) : \E c \in Of(g) : Running(c, t)}

\* extractFeatured(): the scheduled ones are on the home page alone.
Featured(t) == {g \in ToSet(Games) : \E c \in Of(g) : Scheduled(c, t)}

\* extractGamePage(): scheduled, running and, for a while, ended campaigns.
GamePage(game, t) == {c \in Of(game) : Known(c, t)}

\* toCampaigns(): the ended ones are dropped.
ToCampaigns(campaigns) == {c \in campaigns : plan[c].ends > hour}

SweepInit ==
    /\ hour = 0
    /\ plan \in [Campaigns -> Plans]
    /\ scan = NoSweep
    /\ pages = [g \in ToSet(Games) |-> Unread]
    /\ list = {}
    /\ misses = 0

Tick ==
    /\ hour < Horizon
    /\ hour' = hour + 1
    /\ UNCHANGED <<plan, scan, pages, list, misses>>

Begins ==
    /\ scan.step \notin {"pages", "lists"}
    /\ scan' = [step |-> "lists", began |-> hour, games |-> {}]
    /\ pages' = [g \in ToSet(Games) |-> Unread]
    /\ list' = {}
    /\ UNCHANGED <<hour, plan, misses>>

\* The index and the home page, asked for together.
Lists ==
    /\ scan.step = "lists"
    /\ \E index, home \in Moments :
          scan' = [scan EXCEPT
                      !.step = "pages",
                      !.games = ToSet(Games) \cap
                                  (Listed(index) \cup Featured(home) \cup Followed)]
    /\ UNCHANGED <<hour, plan, pages, list, misses>>

Throws == scan' = [scan EXCEPT !.step = "failed"]

ListsFail ==
    /\ scan.step = "lists"
    /\ misses < MaxFaults
    /\ misses' = misses + 1
    /\ Throws
    /\ UNCHANGED <<hour, plan, pages, list>>

Reading == {g \in ToSet(Games) : pages[g].step \in {"asked", "again"}}

\* worker(): the next game of the queue.
Takes ==
    /\ scan.step = "pages"
    /\ Cardinality(Reading) < Concurrency
    /\ \E i \in DOMAIN Games :
          /\ Games[i] \in scan.games /\ pages[Games[i]].step = "unread"
          /\ \A j \in 1..(i - 1) : Games[j] \in scan.games => pages[Games[j]].step # "unread"
          /\ pages' = [pages EXCEPT ![Games[i]].step = "asked"]
    /\ UNCHANGED <<hour, plan, scan, list, misses>>

Answers(g) ==
    /\ scan.step = "pages"
    /\ g \in Reading
    /\ \E t \in Moments :
          pages' = [pages EXCEPT ![g] = [step |-> "read", campaigns |-> ToCampaigns(GamePage(g, t))]]
    /\ UNCHANGED <<hour, plan, scan, list, misses>>

\* Mutant: a page that fails twice is read as one without campaigns.
PageFailsQuietly(g) ==
    \/ /\ pages[g].step = "asked"
       /\ pages' = [pages EXCEPT ![g].step = "again"]
       /\ UNCHANGED scan
    \/ /\ pages[g].step = "again"
       /\ pages' = [pages EXCEPT ![g].step = "read"]
       /\ UNCHANGED scan

\* One retry; a second failure is the sweep's.
PageFails(g) ==
    \/ /\ pages[g].step = "asked"
       /\ pages' = [pages EXCEPT ![g].step = "again"]
       /\ UNCHANGED scan
    \/ /\ pages[g].step = "again"
       /\ Throws
       /\ UNCHANGED pages

ReadFails(g) ==
    /\ scan.step = "pages"
    /\ misses < MaxFaults
    /\ PageFails(g)
    /\ misses' = misses + 1
    /\ UNCHANGED <<hour, plan, list>>

Found == UNION {pages[g].campaigns : g \in scan.games}

\* No campaign at all is a format that changed.
Ends ==
    /\ scan.step = "pages"
    /\ \A g \in scan.games : pages[g].step = "read"
    /\ IF Found = {} THEN Throws ELSE scan' = [scan EXCEPT !.step = "done"]
    /\ list' = Found
    /\ UNCHANGED <<hour, plan, pages, misses>>

SweepNext ==
    \/ Tick \/ Begins \/ Lists \/ ListsFail \/ Takes \/ Ends
    \/ \E g \in ToSet(Games) : Answers(g) \/ ReadFails(g)

SweepSpec == SweepInit /\ [][SweepNext]_sweepVars

-----------------------------------------------------------------------------
(* What it is for.                                                         *)

\* Known before the oldest page a sweep could be given, not ended, and not opened
\* while the index and the home page could each be too old or too new for it.
Owed(c) ==
    /\ plan[c].known + MaxAge <= scan.began
    /\ plan[c].ends > hour
    /\ plan[c].opens + MaxAge <= scan.began \/ plan[c].opens > hour

\* A sweep that ends well has every campaign it could be expected to: one that
\* is missing reads downstream as one that ended.
SweepIsComplete == scan.step = "done" => \A c \in Campaigns : Owed(c) => c \in list
=============================================================================
