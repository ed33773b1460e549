------------------------------- MODULE Pools -------------------------------
(***************************************************************************)
(* The pure decisions of the drops engine, apps/backend/src/drops:         *)
(*   reconcile.ts    folds the wanted channels into the streamer list      *)
(*   resolution.ts   which channels a subscription wants                   *)
(*   queue.ts        whose turn it is when campaigns are queued            *)
(*   follow.ts       which campaigns a followed game subscribes to         *)
(*   rebase.ts       a pass's decisions applied to the config as it is now *)
(*                                                                         *)
(* Logins are normalised, so equal names are equal values.  Campaigns are  *)
(* numbered in the catalogue's order, channels best first (more viewers,   *)
(* ties by name).  A channel's settings are abstracted to its enabled flag.*)
(***************************************************************************)
EXTENDS WatchList, SequencesExt

CONSTANTS
    Campaigns,    \* campaign ids, a set of numbers
    Channels,     \* logins, a set of numbers
    GameOf,       \* the game of each campaign, a positive number
    Earnable,     \* campaigns with a drop that watching can earn
    Running,      \* the campaigns each channel really runs
    CheckLimit    \* CAMPAIGN_CHECK_LIMIT

LeastOf(a, b) == IF a <= b THEN a ELSE b

-----------------------------------------------------------------------------
(* Streamer rows.                                                          *)

Incumbents(rows, id) ==
    LET mine == OwnedBy(rows, id) IN [i \in DOMAIN mine |-> mine[i].login]

\* What is left of the desired channels: not the user's own, and each once,
\* for the first that asked.
Wanted(rows, desired) ==
    KeptAt(desired, {i \in DOMAIN desired :
        /\ desired[i].login \notin LoginsOf(Manual(rows))
        /\ \A j \in 1..(i - 1) : desired[j].login # desired[i].login})

\* The row a wanted channel gets: the one it has, or a new one.
RowFor(rows, want) ==
    LET has == {i \in DOMAIN rows : /\ rows[i].owner # ByHand
                                    /\ rows[i].login = want.login}
    IN  IF has # {} THEN [rows[CHOOSE i \in has : TRUE] EXCEPT !.owner = want.owner]
                    ELSE [login |-> want.login, owner |-> want.owner, on |-> TRUE]

\* reconcile(): manual rows first and untouched, owned rows reused.
Reconcile(rows, desired) ==
    LET wanted == Wanted(rows, desired)
    IN  Manual(rows) \o [i \in DOMAIN wanted |-> RowFor(rows, wanted[i])]

\* differs(): the order counts, a row's settings do not.
Differs(before, after) ==
    LET Shape(rows) == [i \in DOMAIN rows |-> <<rows[i].login, rows[i].owner>>]
    IN  Shape(before) # Shape(after)

-----------------------------------------------------------------------------
(* Resolution.                                                             *)

RankDirectory(live) == Ascending(live)

FirstOf(s, n) == SubSeq(s, 1, LeastOf(n, Len(s)))

\* watchable(): the directory without the channels the user switched off.
Watchable(live, rows) ==
    live \ {rows[i].login : i \in {j \in DOMAIN rows : ~rows[j].on}}

\* The pool is left alone while one member is live.
IsKept(incumbents, live) == \E i \in DOMAIN incumbents : incumbents[i] \in live

\* campaignCheck(): of the best candidates, those the lookup could read.
\* None when it fails as a whole.
Checked(live, exclude, readable) ==
    ToSet(FirstOf(RankDirectory(live \ exclude), CheckLimit)) \cap readable

\* resolveSubscription() when it rebuilds.  With everyone excluded the whole
\* directory counts; a check that confirmed nobody does not.
Rebuilt(sub, live, exclude, readable) ==
    LET checked   == Checked(live, exclude, readable)
        confirmed == {c \in checked : sub.target \in Running[c]}
        open      == IF live \subseteq exclude THEN live ELSE live \ exclude
        ranked    == IF confirmed = {} THEN RankDirectory(open)
                     ELSE RankDirectory(confirmed)
                              \o RankDirectory(open \ checked)
    IN  FirstOf(ranked, sub.pool)

-----------------------------------------------------------------------------
(* Subscriptions.                                                          *)

MaxRank(subs) ==
    CHOOSE m \in {-1} \cup {subs[i].rank : i \in DOMAIN subs} :
        \A i \in DOMAIN subs : subs[i].rank <= m

\* The stable sort by rank.
InRankOrder(subs) == Listing({<<subs[i].rank, i, subs[i]>> : i \in DOMAIN subs})

\* Mutant: the queue picks its head before the endings are known.
ActiveInQueueBeforeEndings(ordered, scheduled, ended) ==
    LET ready == {i \in DOMAIN ordered : ordered[i].target \notin scheduled}
    IN  IF ready = {} THEN ByHand
        ELSE ordered[CHOOSE i \in ready : \A j \in ready : i <= j].id

\* campaignQueue(): the first that stays and whose campaign is open.
ActiveInQueue(ordered, scheduled, ended) ==
    LET ready == {i \in DOMAIN ordered : /\ ordered[i].id \notin ended
                                         /\ ordered[i].target \notin scheduled}
    IN  IF ready = {} THEN ByHand
        ELSE ordered[CHOOSE i \in ready : \A j \in ready : i <= j].id

-----------------------------------------------------------------------------
(* Followed games.  seen is what a pass knows: the campaigns listed,       *)
(* whether the catalogue is available and fresh, the phase of each         *)
(* campaign's dates, and the campaigns known complete.                     *)

\* The campaigns a followed game would subscribe to, complete ones included.
Candidates(loaded, game, seen) ==
    {c \in seen.listed :
        /\ GameOf[c] = game.game
        /\ c \notin Targets(loaded.subs)
        /\ c \notin game.skipped
        /\ seen.phase[c] # "over"}

\* followedGames after followGames(): only a fresh catalogue prunes skipped,
\* and a campaign found complete is skipped outright.
PrunedGames(loaded, seen) ==
    IF ~seen.available THEN loaded.followed
    ELSE [g \in DOMAIN loaded.followed |->
            LET game == loaded.followed[g] IN
            [game EXCEPT !.skipped =
                (IF seen.fresh THEN @ \cap seen.listed ELSE @)
                    \cup (Candidates(loaded, game, seen) \cap seen.complete)]]

\* The campaigns that followed game number g adds.
Found(loaded, g, seen) ==
    IF ~seen.available THEN {}
    ELSE {c \in Candidates(loaded, loaded.followed[g], seen) :
            c \notin seen.complete /\ c \in Earnable}

Adds(game, g, found) ==
    {<<g, c, [target |-> c, pool |-> game.pool, via |-> game.game]>> : c \in found}

\* The subscriptions followGames() adds, with ids from the sequence fresh: after
\* the highest rank, in the order of the followed games, then the catalogue.
Additions(loaded, seen, fresh) ==
    LET games == loaded.followed
        new   == Listing(UNION {Adds(games[g], g, Found(loaded, g, seen)) : g \in DOMAIN games})
    IN  [k \in DOMAIN new |->
            [id     |-> fresh[k],
             target |-> new[k].target,
             rank   |-> MaxRank(loaded.subs) + k,
             pool   |-> new[k].pool,
             via    |-> new[k].via]]

\* recordSkipped(): a leaving subscription's campaign is filed under the game
\* that added it, or under its campaign's own game when that is known.
RecordSkipped(games, leaving, known) ==
    [g \in DOMAIN games |->
        [games[g] EXCEPT !.skipped = @ \cup
            {s.target : s \in {l \in leaving :
                \/ l.via = games[g].game
                \/ /\ l.via = ByHand
                   /\ l.target \in known
                   /\ GameOf[l.target] = games[g].game}}]]

-----------------------------------------------------------------------------
(* rebasePass(): current is the config as it is now, out is what the pass  *)
(* decided: [ended, added, considered, desired, gamesBefore, gamesAfter].  *)

RebasedGames(current, out) ==
    [g \in DOMAIN current.followed |->
        LET game     == current.followed[g]
            Of(list) == UNION {list[i].skipped :
                          i \in {j \in DOMAIN list : list[j].game = game.game}}
            was      == Of(out.gamesBefore)
            now      == Of(out.gamesAfter)
        IN  [game EXCEPT !.skipped = (@ \ (was \ now)) \cup (now \ was)]]

\* An addition stands while its game is still followed and has not skipped
\* it, and nothing else has subscribed to the campaign.
KeptAdditions(current, out) ==
    LET games == RebasedGames(current, out)
        Stands(s) == /\ s.target \notin Targets(current.subs)
                     /\ \E g \in DOMAIN games :
                           games[g].game = s.via /\ s.target \notin games[g].skipped
    IN  KeptAt(out.added, {k \in DOMAIN out.added : Stands(out.added[k])})

RebasedSubs(current, out) ==
    LET kept == KeptAdditions(current, out)
    IN  KeptAt(current.subs, {i \in DOMAIN current.subs : current.subs[i].id \notin out.ended})
        \o [k \in DOMAIN kept |->
              [kept[k] EXCEPT !.rank = MaxRank(current.subs) + k]]

\* Channels of a subscription the pass never saw are carried as they are.
RebasedDesired(current, out, live) ==
    LET held == [i \in DOMAIN current.rows |-> [login |-> current.rows[i].login,
                                                owner |-> current.rows[i].owner]]
        By(list, ids) == KeptAt(list, {i \in DOMAIN list : list[i].owner \in ids})
    IN  By(out.desired, live) \o By(held, live \ out.considered)

RebasePass(current, out) ==
    LET subs == RebasedSubs(current, out)
    IN  [current EXCEPT
            !.followed = RebasedGames(current, out),
            !.subs     = subs,
            !.rows     = Reconcile(current.rows,
                            RebasedDesired(current, out, SubIds(subs)))]
=============================================================================
