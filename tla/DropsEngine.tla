----------------------------- MODULE DropsEngine -----------------------------
(***************************************************************************)
(* The drops engine (apps/backend/src/drops/engine.ts), the routes that    *)
(* edit the config it maintains (apps/backend/src/http/server.ts) and the  *)
(* miner that reads the config each time it is started.                    *)
(*                                                                         *)
(* A pass reads config.json, spends seconds asking the catalogue, the      *)
(* progress and the directory, and then applies what it decided to the     *)
(* config as it is by then.  Passes overlap each other and the routes.  A  *)
(* pass has three steps, each up to its next await:                        *)
(*   Begin*   load the config                                              *)
(*   Decide   the catalogue and the progress have answered                 *)
(*   Commit   the directory has answered for every subscription            *)
(* What other code does between two directory answers of one pass is done  *)
(* before the first or after the last.                                     *)
(***************************************************************************)
EXTENDS Pools

CONSTANTS
    Slots,           \* bound: passes in flight at once
    LiveSets,        \* the sets of live channels a directory may answer
    Failures,        \* the sets of campaigns whose lookup may fail in a pass
    CatalogueGets,   \* what catalogue.get() may do: "cached", "fetched", "failed"
    ProgressReads,   \* whether the inventory may be read
    Checks,          \* the sets of channels campaignCheck() may read
    Stalls,          \* whether the drop-slot pool may be judged: "unread",
                     \* "moving", "stuck"
    Routes,          \* the routes that are used
    Events,          \* the world's events that happen
    PoolSizes,       \* the pool sizes the user may ask for
    DefaultPool,     \* followedGameSchema's default pool size
    InitialConfigs,  \* config.json at boot
    InitialPhases,   \* the campaigns' phases at boot
    MaxEdits,        \* bound: requests that change the config
    MaxEvents,       \* bound: events of the world
    MaxId            \* bound: subscription ids in use at once

VARIABLES
    staged,       \* the staged config, or Nothing
    passes,       \* per slot: the pass in flight, or Idle
    subscribing,  \* the subscribe request in flight, or Nothing
    scheduled,    \* this.scheduled: ids waiting for their campaign to open
    active,       \* this.activeInQueue, or ByHand for null
    progress,     \* this.progress: the judged subscription and its pool
    stalled,      \* this.stalled: logins each subscription passes over
    boot,         \* "passing", "late" (bootLate), "passed"
    listed,       \* the campaigns the tracker lists
    phase,        \* each campaign's dates: "scheduled", "open", "over"
    complete,     \* the campaigns that are 100% complete
    catalogue,    \* the campaign cache: [listed, stale, available]
    edits,        \* requests so far
    events        \* events so far

memory == <<scheduled, active, progress, stalled>>
miner  == <<watched, pending, waived, overwritten>>
world  == <<listed, phase, complete>>
bounds == <<edits, events>>
vars == <<config, staged, passes, subscribing, memory, boot, miner, world,
          catalogue, bounds>>

Nothing    == [nothing |-> TRUE]
Idle       == [stage |-> "idle"]
Ids        == 1..MaxId

SubType  == [id : Ids, target : Campaigns, rank : Nat, pool : Nat, via : Nat]
RowType  == [login : Channels, owner : Ids \cup {ByHand}, on : BOOLEAN]
GameType == [game : Nat, pool : Nat, skipped : SUBSET Campaigns]
ConfigType ==
    [subs : Seq(SubType), rows : Seq(RowType), followed : Seq(GameType),
     queue : BOOLEAN]

\* What the constants are: names and bounds of the instance.
Parameters ==
    /\ IsFiniteSet(Campaigns) /\ Campaigns \subseteq Nat
    /\ IsFiniteSet(Channels) /\ Channels \subseteq Nat
    /\ GameOf \in [Campaigns -> Nat \ {0}]
    /\ CheckLimit \in Nat /\ DefaultPool \in Nat /\ PoolSizes \subseteq Nat
    /\ MaxId \in Nat
    /\ LiveSets \subseteq SUBSET Channels
    /\ CatalogueGets \subseteq {"cached", "fetched", "failed"}
    /\ \A c \in InitialConfigs : c \in ConfigType /\ IsSound(c)

TypeOK ==
    /\ config \in ConfigType
    /\ staged = Nothing \/ staged \in ConfigType
    /\ \A s \in Slots : passes[s].stage \in {"idle", "asking", "resolving"}
    /\ scheduled \subseteq Ids
    /\ active \in Ids \cup {ByHand}
    /\ stalled \in [Ids -> SUBSET Channels]
    /\ boot \in {"passing", "late", "passed"}
    /\ watched = NotRunning \/ watched \in Seq(Channels)
    /\ pending \in BOOLEAN

\* Ids are random: a new one is none of those still in use anywhere.
IdsInUse ==
    LET OfConfig(c) == SubIds(c.subs) \cup Owners(c.rows)
    IN  OfConfig(config) \cup scheduled \cup {active}
        \cup (IF staged = Nothing THEN {} ELSE OfConfig(staged))
        \cup (IF subscribing = Nothing THEN {} ELSE OfConfig(subscribing.loaded))
        \cup (IF progress = Nothing THEN {} ELSE {progress.id})
        \cup {i \in Ids : stalled[i] # {}}
        \cup UNION {CASE passes[s].stage = "idle"      -> {}
                      [] passes[s].stage = "asking"    -> OfConfig(passes[s].loaded)
                      [] passes[s].stage = "resolving" -> OfConfig(passes[s].view) :
                     s \in Slots}

FreshIds == Ascending(Ids \ IdsInUse)

FreeSlots == {s \in Slots : passes[s] = Idle}

\* A pass that has just loaded the config c.
Begun(c, trigger) == [stage |-> "asking", loaded |-> c, trigger |-> trigger]

\* The campaigns saved by an earlier process, and a boot that finds no such file.
SavedCatalogue == [listed |-> Campaigns, stale |-> FALSE, available |-> TRUE]
NoCatalogue    == [listed |-> {}, stale |-> FALSE, available |-> FALSE]

Init ==
    /\ config \in InitialConfigs
    /\ staged = Nothing
    /\ \E slot \in Slots :
          passes = [s \in Slots |->
                       IF s = slot /\ config.subs \o config.followed # <<>>
                         THEN Begun(config, "boot") ELSE Idle]
    /\ subscribing = Nothing
    /\ scheduled = {}
    /\ active = ByHand
    /\ progress = Nothing
    /\ stalled = [i \in Ids |-> {}]
    /\ boot = IF FreeSlots = Slots THEN "passed" ELSE "passing"
    /\ watched = NotRunning
    /\ pending = FALSE
    /\ waived = FALSE
    /\ overwritten = FALSE
    /\ listed = Campaigns
    /\ phase \in InitialPhases
    /\ complete = {}
    /\ catalogue \in {SavedCatalogue, NoCatalogue}
    /\ edits = 0
    /\ events = 0

-----------------------------------------------------------------------------
(* Passes.                                                                 *)

\* pass() up to its first await, called once the config is saved as c.
BeginPass(c, trigger) ==
    /\ FreeSlots # {}
    /\ IF c.subs = <<>> /\ c.followed = <<>>
         THEN scheduled' = {} /\ UNCHANGED passes
         ELSE /\ \E slot \in FreeSlots :
                    passes' = [passes EXCEPT ![slot] = Begun(c, trigger)]
              /\ UNCHANGED scheduled

\* The fifteen-minute timer, armed once the boot pass is out of the way.
TimerPass ==
    /\ boot # "passing"
    /\ BeginPass(config, "timer")
    /\ UNCHANGED <<config, staged, subscribing, active, progress, stalled,
                   boot, miner, world, catalogue, bounds>>

\* catalogue.get(): from the cache when there is one, refetched, or a failed
\* refetch, which leaves what there was.
Gets == {get \in CatalogueGets : get = "cached" => catalogue.available}

CatalogueAfter(get) ==
    CASE get = "cached"  -> catalogue
      [] get = "fetched" -> [listed |-> listed, stale |-> FALSE, available |-> TRUE]
      [] get = "failed"  -> [catalogue EXCEPT !.stale = TRUE]

Seen(got, read) ==
    [listed    |-> got.listed,
     available |-> got.available,
     fresh     |-> got.available /\ ~got.stale,
     phase     |-> phase,
     complete  |-> IF read THEN complete ELSE {}]

\* The config a pass works on: as loaded, with what its followed games add.
View(loaded, seen, added) ==
    [loaded EXCEPT !.followed = PrunedGames(loaded, seen),
                   !.subs     = @ \o added]

\* Subscriptions that leave on this pass: gone from a catalogue that can be
\* trusted, past their end date, or complete.
Ended(subs, seen) ==
    {s.id : s \in {t \in ToSet(subs) :
        \/ t.target \notin seen.listed /\ seen.fresh
        \/ t.target \in seen.listed /\ seen.phase[t.target] = "over"
        \/ t.target \in seen.listed \cap seen.complete}}

NotOpen(seen) == {c \in seen.listed : seen.phase[c] = "scheduled"}

\* Whose turn it is: ByHand when the queue is off or nobody is ready.
TurnOf(view, seen) ==
    IF view.queue
      THEN ActiveInQueue(InRankOrder(view.subs), NotOpen(seen),
                         Ended(view.subs, seen))
      ELSE ByHand

\* The catalogue and the progress have answered: the endings and the queue
\* follow from them alone.  What starts is announced, which changes nothing.
Decide(slot) ==
    /\ passes[slot].stage = "asking"
    /\ \E get \in Gets, read \in ProgressReads :
        LET pass  == passes[slot]
            got   == CatalogueAfter(get)
            seen  == Seen(got, read)
            added == Additions(pass.loaded, seen, FreshIds)
            view  == View(pass.loaded, seen, added)
            stays == {s \in ToSet(view.subs) : s.id \notin Ended(view.subs, seen)}
            waits == {s.id : s \in {t \in stays : t.target \in NotOpen(seen)}}
        IN  /\ DOMAIN added \subseteq DOMAIN FreshIds   \* bound: MaxId
            /\ catalogue' = got
            /\ passes' = [passes EXCEPT ![slot] =
                             [stage   |-> "resolving",
                              loaded  |-> pass.loaded,
                              trigger |-> pass.trigger,
                              seen    |-> seen,
                              view    |-> view]]
            /\ scheduled' = (scheduled \ {s.id : s \in stays}) \cup waits
    /\ UNCHANGED <<config, staged, subscribing, active, progress, stalled,
                   boot, miner, world, edits, events>>

\* What the directory has answered once the pass can commit.
Answers ==
    [failing  : Failures,
     live     : [Campaigns -> LiveSets],
     readable : Checks,
     verdict  : Stalls]

\* Subscriptions that get channels on this pass, in rank order: neither
\* leaving, nor waiting for their campaign to open or for their turn.
Served(pass) ==
    LET ordered == InRankOrder(pass.view.subs)
        IsServed(s) == /\ s.id \notin Ended(pass.view.subs, pass.seen)
                       /\ s.target \notin NotOpen(pass.seen)
                       /\ pass.view.queue => s.id = TurnOf(pass.view, pass.seen)
    IN  KeptAt(ordered, {i \in DOMAIN ordered : IsServed(ordered[i])})

\* No game to look up, or the lookup failed.
Degraded(sub, seen, answer) ==
    sub.target \notin seen.listed \/ sub.target \in answer.failing

Directory(sub, pass, answer) == Watchable(answer.live[sub.target], pass.view.rows)

Kept(sub, pass, answer) ==
    /\ pass.trigger # "manual"
    /\ IsKept(Incumbents(pass.view.rows, sub.id), Directory(sub, pass, answer))

\* The first pool that is not empty holds the drop slot.  Its progress is
\* judged if the pool was kept.
Judged(pass, answer) ==
    LET served  == Served(pass)
        holding == {i \in DOMAIN served :
                      /\ ~Degraded(served[i], pass.seen, answer)
                      /\ Directory(served[i], pass, answer) # {}}
    IN  {s \in {served[i] : i \in {j \in holding : \A k \in holding : j <= k}} :
            Kept(s, pass, answer)}

PoolOf(sub, pass) == ToSet(Incumbents(pass.view.rows, sub.id))

\* Mutant: a pool judged twice is stalled whether or not it moved.
IsStuckRegardless(sub, pass, answer) ==
    /\ answer.verdict # "unread"
    /\ sub \in Judged(pass, answer)
    /\ progress = [id |-> sub.id, pool |-> PoolOf(sub, pass)]

\* stalledNow(): only a pool that was judged before can have stalled.
IsStuck(sub, pass, answer) ==
    /\ answer.verdict = "stuck"
    /\ sub \in Judged(pass, answer)
    /\ progress = [id |-> sub.id, pool |-> PoolOf(sub, pass)]

\* The logins sub's rebuild passes over, its present pool if that is stuck.
PassedOver(sub, pass, answer) ==
    stalled[sub.id] \cup (IF IsStuck(sub, pass, answer) THEN PoolOf(sub, pass) ELSE {})

\* The channels a served subscription is to have: its own as they are when
\* we could not look or one is live, else the best of the directory.
ChannelsOf(sub, pass, answer) ==
    IF \/ Degraded(sub, pass.seen, answer)
       \/ Kept(sub, pass, answer) /\ ~IsStuck(sub, pass, answer)
      THEN Incumbents(pass.view.rows, sub.id)
      ELSE Rebuilt(sub, Directory(sub, pass, answer),
                   PassedOver(sub, pass, answer), answer.readable)

Wants(sub, k, pass, answer) ==
    LET channels == ChannelsOf(sub, pass, answer)
    IN  {<<k, i, [login |-> channels[i], owner |-> sub.id]>> : i \in DOMAIN channels}

Desired(pass, answer) ==
    LET served == Served(pass)
    IN  Listing(UNION {Wants(served[k], k, pass, answer) : k \in DOMAIN served})

\* What the pass decided, for rebasePass().
Outcome(pass, answer) ==
    LET view  == pass.view
        ended == Ended(view.subs, pass.seen)
    IN  [ended       |-> ended,
         added       |-> SubSeq(view.subs, Len(pass.loaded.subs) + 1, Len(view.subs)),
         considered  |-> SubIds(view.subs),
         desired     |-> Desired(pass, answer),
         gamesBefore |-> pass.loaded.followed,
         gamesAfter  |-> RecordSkipped(view.followed,
                            {s \in ToSet(view.subs) : s.id \in ended},
                            pass.seen.listed)]

ChangesNothing(pass, out) ==
    /\ ~Differs(pass.view.rows, Reconcile(pass.view.rows, out.desired))
    /\ out.ended = {}
    /\ pass.view = pass.loaded

\* Mutant: no boot pass proposes, not even one the miner did not wait for.
ProposesNotAtBoot(pass, out, next) ==
    /\ Differs(config.rows, next.rows) \/ out.ended # {}
    /\ pass.trigger # "boot"

\* A pass proposes a restart, except a boot pass the miner still waits on.
Proposes(pass, out, next) ==
    /\ Differs(config.rows, next.rows) \/ out.ended # {}
    /\ ~(pass.trigger = "boot" /\ boot = "passing")

\* The in-memory part of the end of a pass.
Remember(pass, answer) ==
    LET stays == SubIds(pass.view.subs) \ Ended(pass.view.subs, pass.seen)
        judged == IF answer.verdict = "unread" THEN {} ELSE Judged(pass, answer)
    IN  /\ active' = TurnOf(pass.view, pass.seen)
        /\ scheduled' = scheduled \cap stays
        /\ progress' = IF judged = {} THEN Nothing
                       ELSE LET s == CHOOSE s \in judged : TRUE
                            IN  [id |-> s.id, pool |-> PoolOf(s, pass)]
        /\ stalled' = [i \in Ids |->
                IF i \notin stays THEN {}
                ELSE stalled[i] \cup UNION {PoolOf(s, pass) :
                        s \in {j \in Judged(pass, answer) :
                                  j.id = i /\ IsStuck(j, pass, answer)}}]

\* Mutant: writes the config the pass started from.
AppliedToLoaded(pass, out) == RebasePass(pass.loaded, out)

Applied(pass, out) == RebasePass(config, out)

\* The rest of a pass.  saveConfig() may throw: what the pass learnt stays in
\* memory and the next pass tries again.
Commit(slot, answer) ==
    /\ passes[slot].stage = "resolving"
    /\ passes' = [passes EXCEPT ![slot] = Idle]
    /\ \E pass \in {passes[slot]} :
       \E out \in {Outcome(pass, answer)} :
       \E next \in {Applied(pass, out)} :
           /\ watched = NotRunning => answer.verdict = "unread"
           /\ Remember(pass, answer)
           /\ boot' = IF pass.trigger = "boot" /\ boot = "passing"
                        THEN "passed" ELSE boot
           /\ \/ /\ ChangesNothing(pass, out)
                 /\ UNCHANGED <<config, pending, events>>
              \/ /\ ~ChangesNothing(pass, out)
                 /\ config' = next
                 /\ pending' = (pending \/ Proposes(pass, out, next))
                 /\ UNCHANGED events
              \/ /\ ~ChangesNothing(pass, out)
                 /\ "save fails" \in Events
                 /\ events < MaxEvents
                 /\ events' = events + 1
                 /\ UNCHANGED <<config, pending>>
    /\ UNCHANGED <<staged, subscribing, watched, waived, overwritten, world,
                   catalogue, edits>>

\* BOOT_PASS_BUDGET_MS runs out.
BootBudgetSpent ==
    /\ boot = "passing"
    /\ boot' = "late"
    /\ UNCHANGED <<config, staged, passes, subscribing, memory, miner, world,
                   catalogue, bounds>>

-----------------------------------------------------------------------------
(* Routes that edit the config.  Each saves and begins a pass in one go.   *)

CanEdit(route) == route \in Routes /\ edits < MaxEdits

Edit(route, c, trigger) ==
    /\ CanEdit(route)
    /\ edits' = edits + 1
    /\ config' = c
    /\ BeginPass(c, trigger)
    /\ UNCHANGED <<staged, active, progress, stalled, boot, watched,
                   pending, overwritten, world, catalogue, events>>

\* The routes that begin no pass.
EditOnly(route, c) ==
    /\ CanEdit(route)
    /\ edits' = edits + 1
    /\ config' = c
    /\ UNCHANGED <<staged, passes, subscribing, memory, boot, miner, world,
                   catalogue, events>>

\* The subscribe request reads the config, then asks for the campaign.
SubscribeBegins ==
    /\ CanEdit("subscribe")
    /\ subscribing = Nothing
    /\ \E c \in Campaigns \ Targets(config.subs), n \in PoolSizes :
          subscribing' = [loaded |-> config, target |-> c, pool |-> n]
    /\ edits' = edits + 1
    /\ UNCHANGED <<config, staged, passes, memory, boot, miner, world,
                   catalogue, events>>

\* Refused when the campaign is known to be over or complete.
Refused(target, got, read) ==
    /\ target \in got.listed
    /\ phase[target] = "over" \/ (read /\ target \in complete)

\* It saves what it read, with the new subscription appended.
Subscribed(request) ==
    [request.loaded EXCEPT !.subs = Append(@,
        [id     |-> FreshIds[1],
         target |-> request.target,
         rank   |-> Len(request.loaded.subs),
         pool   |-> request.pool,
         via    |-> ByHand])]

SubscribeEnds ==
    /\ subscribing # Nothing
    /\ subscribing' = Nothing
    /\ \E get \in Gets, read \in ProgressReads :
        /\ catalogue' = CatalogueAfter(get)
        /\ IF Refused(subscribing.target, catalogue', read)
             THEN UNCHANGED <<config, passes, scheduled, overwritten>>
             ELSE /\ FreshIds # <<>>                         \* bound: MaxId
                  /\ config' = Subscribed(subscribing)
                  /\ overwritten' =
                        (overwritten \/ Roster(config'.rows) # Roster(config.rows))
                  /\ BeginPass(config', "subscribe")
    /\ UNCHANGED <<staged, active, progress, stalled, boot, watched,
                   pending, waived, world, edits, events>>

Reorder ==
    \E rankOf \in [SubIds(config.subs) -> 0..(Len(config.subs) - 1)] :
        /\ IsInjective(rankOf)
        /\ Edit("reorder",
                [config EXCEPT !.subs =
                    [i \in DOMAIN @ |-> [@[i] EXCEPT !.rank = rankOf[config.subs[i].id]]]],
                "reorder")
        /\ UNCHANGED <<subscribing, waived>>

SetPoolSize ==
    \E id \in SubIds(config.subs), n \in PoolSizes :
        /\ Edit("pool-size",
                [config EXCEPT !.subs =
                    [i \in DOMAIN @ |->
                        IF @[i].id = id THEN [@[i] EXCEPT !.pool = n] ELSE @[i]]],
                "pool-size")
        /\ UNCHANGED <<subscribing, waived>>

WithoutSub(subs, id) == KeptAt(subs, {i \in DOMAIN subs : subs[i].id # id})

\* Mutant: the channels are left for the next pass to release.
RemovedLeavingRows(c, id) ==
    [c EXCEPT !.subs     = WithoutSub(@, id),
              !.followed = RecordSkipped(@, {s \in ToSet(c.subs) : s.id = id},
                                         catalogue.listed)]

\* The subscription and its channels in one write, its campaign skipped by
\* the game that would add it back.
Removed(c, id) ==
    [c EXCEPT !.subs     = WithoutSub(@, id),
              !.rows     = KeptAt(@, {i \in DOMAIN @ : @[i].owner # id}),
              !.followed = RecordSkipped(@, {s \in ToSet(c.subs) : s.id = id},
                                         catalogue.listed)]

RemoveSubscription ==
    \E id \in SubIds(config.subs) :
        /\ Edit("remove", Removed(config, id), "remove")
        /\ waived' = (waived \/ id \in Owners(config.rows))
        /\ UNCHANGED subscribing

SetQueue ==
    /\ Edit("queue", [config EXCEPT !.queue = ~@], "queue")
    /\ UNCHANGED <<subscribing, waived>>

\* The lookups on Twitch come before the config is read again.
FollowGame ==
    \E game \in {GameOf[c] : c \in Campaigns} \ GamesOf(config) :
        /\ Edit("follow",
                [config EXCEPT !.followed = Append(@,
                    [game |-> game, pool |-> DefaultPool, skipped |-> {}])],
                "follow")
        /\ UNCHANGED <<subscribing, waived>>

SetGamePool ==
    \E g \in DOMAIN config.followed, n \in PoolSizes :
        EditOnly("game-pool", [config EXCEPT !.followed[g].pool = n])

Unskip ==
    \E g \in DOMAIN config.followed :
        \E c \in config.followed[g].skipped :
            /\ Edit("unskip", [config EXCEPT !.followed[g].skipped = @ \ {c}],
                    "unskip")
            /\ UNCHANGED <<subscribing, waived>>

Unfollow ==
    \E game \in GamesOf(config) :
        EditOnly("unfollow",
                 [config EXCEPT !.followed =
                     KeptAt(@, {g \in DOMAIN @ : @[g].game # game})])

\* Re-resolve: every pool is rebuilt, a live one too.
Resolve ==
    /\ Edit("resolve", config, "manual")
    /\ UNCHANGED <<subscribing, waived>>

\* PUT /api/config: the browser edits a copy of the whole config.  A channel
\* is added by hand, or one of the user's own is switched off or removed.
StageConfig ==
    /\ CanEdit("stage")
    /\ edits' = edits + 1
    /\ LET base == IF staged = Nothing THEN config ELSE staged
       IN  \/ \E c \in Channels \ LoginsOf(base.rows) :
                 staged' = [base EXCEPT !.rows = Append(@,
                              [login |-> c, owner |-> ByHand, on |-> TRUE])]
           \/ \E i \in DOMAIN base.rows :
                 /\ base.rows[i].owner = ByHand
                 /\ \/ staged' = [base EXCEPT !.rows[i].on = ~@]
                    \/ staged' = [base EXCEPT !.rows = RemoveAt(@, i)]
    /\ UNCHANGED <<config, passes, subscribing, memory, boot, miner, world,
                   catalogue, events>>

\* The backend itself waits for the boot pass, which then has nothing to
\* propose; a start that does not wait may read what that pass will replace.
TooEarly == boot = "passing"

\* POST /api/config/apply: writes the staged config and restarts the miner, or
\* stops it when there is no session to mine with.
ApplyConfig ==
    /\ staged # Nothing
    /\ staged' = Nothing
    /\ config' = staged
    /\ watched' \in {Roster(staged.rows), NotRunning}
    /\ waived' = TooEarly
    /\ overwritten' = FALSE
    /\ UNCHANGED <<passes, subscribing, memory, boot, pending, world,
                   catalogue, bounds>>

-----------------------------------------------------------------------------
(* The miner and the pending restart.                                      *)

\* At the end of the boot pass, and again whenever the dashboard, a sign-in or
\* a crash respawn starts it.
MinerStarts ==
    /\ watched' = Roster(config.rows)
    /\ waived' = TooEarly
    /\ overwritten' = FALSE
    /\ UNCHANGED <<config, staged, passes, subscribing, memory, boot, pending,
                   world, catalogue, bounds>>

MinerStops ==
    /\ "stop" \in Events
    /\ events < MaxEvents
    /\ events' = events + 1
    /\ watched' = NotRunning
    /\ UNCHANGED <<config, staged, passes, subscribing, memory, boot, pending,
                   waived, overwritten, world, catalogue, edits>>

RestartFires ==
    /\ pending
    /\ pending' = FALSE
    /\ watched' = Roster(config.rows)
    /\ waived' = TooEarly
    /\ overwritten' = FALSE
    /\ UNCHANGED <<config, staged, passes, subscribing, memory, boot, world,
                   catalogue, bounds>>

CancelRestart ==
    /\ "cancel" \in Routes
    /\ edits < MaxEdits
    /\ edits' = edits + 1
    /\ pending
    /\ pending' = FALSE
    /\ waived' = TRUE
    /\ UNCHANGED <<config, staged, passes, subscribing, memory, boot, watched,
                   overwritten, world, catalogue, events>>

-----------------------------------------------------------------------------
(* The world.                                                              *)

Event(name) == name \in Events /\ events < MaxEvents /\ events' = events + 1

CampaignOpens ==
    /\ Event("open")
    /\ \E c \in Campaigns : /\ phase[c] = "scheduled"
                            /\ phase' = [phase EXCEPT ![c] = "open"]
    /\ UNCHANGED <<config, staged, passes, subscribing, memory, boot, miner,
                   listed, complete, catalogue, edits>>

CampaignEnds ==
    /\ Event("end")
    /\ \E c \in Campaigns : /\ phase[c] = "open"
                            /\ phase' = [phase EXCEPT ![c] = "over"]
    /\ UNCHANGED <<config, staged, passes, subscribing, memory, boot, miner,
                   listed, complete, catalogue, edits>>

CampaignLeaves ==
    /\ Event("leave")
    /\ \E c \in listed : listed' = listed \ {c}
    /\ UNCHANGED <<config, staged, passes, subscribing, memory, boot, miner,
                   phase, complete, catalogue, edits>>

CampaignCompletes ==
    /\ Event("complete")
    /\ \E c \in Campaigns \ complete : /\ phase[c] = "open"
                                       /\ complete' = complete \cup {c}
    /\ UNCHANGED <<config, staged, passes, subscribing, memory, boot, miner,
                   listed, phase, catalogue, edits>>

-----------------------------------------------------------------------------
PassEnds == \E slot \in Slots, answer \in Answers : Commit(slot, answer)

AnythingElse ==
    \/ TimerPass
    \/ \E slot \in Slots : Decide(slot)
    \/ BootBudgetSpent
    \/ SubscribeBegins \/ SubscribeEnds
    \/ Reorder \/ SetPoolSize \/ RemoveSubscription \/ SetQueue
    \/ FollowGame \/ SetGamePool \/ Unskip \/ Unfollow \/ Resolve
    \/ StageConfig \/ ApplyConfig
    \/ MinerStarts \/ MinerStops \/ RestartFires \/ CancelRestart
    \/ CampaignOpens \/ CampaignEnds \/ CampaignLeaves \/ CampaignCompletes

Next == PassEnds \/ AnythingElse

Spec == Init /\ [][Next]_vars

-----------------------------------------------------------------------------
(* Properties.                                                             *)

\* The step that ends a pass.
Commits(slot) == passes[slot].stage = "resolving" /\ passes'[slot].stage = "idle"

\* A pass undoes nothing that was saved while it was asking: the user's own
\* channels, a subscription removed, a game unfollowed, a campaign skipped or
\* the queue switch, even when it started from a config that held them.
PassUndoesNothing ==
    \A slot \in Slots : Commits(slot) =>
        /\ Manual(config'.rows) = Manual(config.rows)
        /\ GamesOf(config') = GamesOf(config)
        /\ config'.queue = config.queue
        /\ \A s \in ToSet(config'.subs) \ ToSet(config.subs) :
              \E g \in DOMAIN config.followed :
                 /\ config.followed[g].game = s.via
                 /\ s.target \notin config.followed[g].skipped

\* A subscription that the pass serves, and that is still there at its end, loses
\* a channel from the watch list.
LosesChannels(sub, slot) ==
    /\ sub.id \in SubIds(config.subs)
    /\ ~(PoolOf(sub, passes[slot]) \cap LoginsOf(OwnedBy(config.rows, sub.id))
            \subseteq LoginsOf(config'.rows))

\* Its campaign was in the catalogue the pass read, and the directory answered.
WasLookedUp(sub, slot) ==
    /\ sub.target \in passes[slot].seen.listed
    /\ \A answer \in Answers :
          Commit(slot, answer) => sub.target \notin answer.failing

\* Its campaign was in the catalogue, or was missing from one to be trusted.
WasLookedFor(id, slot) ==
    \E s \in ToSet(passes[slot].view.subs) :
        /\ s.id = id
        /\ \/ s.target \in passes[slot].seen.listed
           \/ passes[slot].seen.available /\ passes[slot].seen.fresh

\* A pass that could not look a subscription's channels up, because no catalogue
\* it could read has the campaign or because the directory lookup failed, leaves
\* every one of them on the watch list: "it never silently empties a pool".  Nor
\* does it "delete a live subscription over a network blip".
BlindPassKeepsPools ==
    \A slot \in Slots : Commits(slot) =>
        /\ \A s \in ToSet(Served(passes[slot])) :
              LosesChannels(s, slot) => WasLookedUp(s, slot)
        /\ \A id \in SubIds(config.subs) \ SubIds(config'.subs) :
              WasLookedFor(id, slot)
=============================================================================
