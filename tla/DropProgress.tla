----------------------------- MODULE DropProgress ----------------------------
(***************************************************************************)
(* What the account has earned of one campaign and what the backend says   *)
(* of it: the helper's inventory request (python/helpers/state.py), the    *)
(* inventory and the catalogue that cache its answer and the tracker's     *)
(* (state/inventory.ts, campaignCatalogue.ts), the status of each drop     *)
(* (dropState.ts), the Drops page's reads (http/server.ts), the recorder   *)
(* that keeps the campaign's last look (campaignRecorder.ts), and the      *)
(* claims that are stored and announced (dropClaims.ts).                   *)
(*                                                                         *)
(* The limits on age and rate are flags that may expire at any time, which *)
(* allows every timing the clocks of the code allow.                       *)
(***************************************************************************)
EXTENDS Integers, FiniteSets

CONSTANTS
    Drops,
    Required,   \* of each drop, requiredMinutes
    SubGated,   \* drops that take a subscription: requiredSubs > 0
    Shut,       \* drops whose gate Twitch reports shut: preconditionsMet false
    Pasts,      \* bound: the rewards of other campaigns, as Init may choose them
    Budgets     \* bounds: how much of each thing one behaviour may do

VARIABLES
    watched,    \* Twitch: minutes watched, which count for every drop of the ladder
    claimed,    \* Twitch: the drops claimed
    past,       \* Twitch: the rewards claimed of other campaigns
    running,    \* the tracker lists the campaign
    inventory,  \* InventoryCache
    fetch,      \* its request in flight
    catalogue,  \* CampaignCatalogue
    sweep,      \* its request in flight: a fetch of the tracker
    disk,       \* the catalogue's file
    reader,     \* a call that reads both caches: the page's and the recorder's
    seen,       \* of each, the campaign as it last saw it
    store,      \* drop_claims
    news,       \* "Drop claimed" notifications, of each claim
    timer,      \* verifyClaimAttempts
    left,       \* what this behaviour may still spend
    best,       \* history: of each drop, the furthest status a reader ever saw
    told,       \* history: what the tracker ever said of the campaign
    synced,     \* history: Twitch's rewards have been taken in
    late        \* history: the drops claimed since then

truth     == <<watched, claimed, past, running>>
caches    == <<inventory, fetch, catalogue, sweep, disk>>
claims    == <<store, news>>
history   == <<best, told, synced, late>>
vars      == <<truth, caches, reader, seen, claims, timer, left, history>>

Readers == {"page", "recorder"}
Nothing == [d \in {} |-> 0]

Watchable  == {d \in Drops : d \notin SubGated /\ Required[d] > 0}
Earnable   == Watchable \ Shut
Minted(d)  == IF d \in Earnable THEN watched >= Required[d] ELSE d \in claimed
Limit(a, b)  == IF a < b THEN a ELSE b
Larger(a, b) == IF a < b THEN b ELSE a

-----------------------------------------------------------------------------
(* The helper: two queries of Twitch, one after the other.                 *)

\* dropCampaignsInProgress, which a campaign enters with its first minute
\* and leaves with its last claim; then _inventory().
InProgress == watched > 0 /\ ~ (Drops \subseteq claimed)
Inventory  ==
    IF InProgress
    THEN [d \in Drops |-> [minutes |-> IF d \in Earnable THEN watched ELSE 0,
                           claimed |-> d \in claimed, minted |-> Minted(d), open |-> d \notin Shut]]
    ELSE Nothing

\* _claimed_rewards(): a reward is listed once it is minted, and counts once
\* it is claimed.
RewardNodes    == {[drop |-> d, status |-> IF d \in claimed THEN "CLAIMED" ELSE "CLAIMABLE"] :
                     d \in {e \in Drops : Minted(e)}}
ClaimedRewards == {n.drop : n \in {m \in RewardNodes : m.status = "CLAIMED"}}

-----------------------------------------------------------------------------
(* The status of a drop, from the answer that is held.                     *)

Status(name, mins) == [status |-> name, minutes |-> mins]

\* resolveDrop()
ResolveDrop(d, inv) ==
    LET entry == inv.progress[d]
        mins  == Limit(entry.minutes, Required[d])
    IN  CASE d \notin Watchable -> Status("unobtainable", 0)
          [] d \in Watchable /\ d \notin DOMAIN inv.progress ->
                IF ~ inv.available       THEN Status("unknown", 0)
                ELSE IF d \in inv.earned THEN Status("claimed", Required[d])
                                         ELSE Status("not-started", 0)
          [] OTHER ->
                IF entry.claimed         THEN Status("claimed", mins)
                ELSE IF entry.minted     THEN Status("claimable", mins)
                ELSE IF ~ entry.open     THEN Status("unobtainable", mins)
                ELSE IF mins > 0         THEN Status("in-progress", mins)
                                         ELSE Status("not-started", mins)

Resolved(inv)     == [d \in Drops |-> ResolveDrop(d, inv)]
Obtainable(drops) == {d \in Drops : drops[d].status # "unobtainable"}

\* campaignComplete(): watching has nothing left to add.
Complete(drops, available) ==
    /\ available
    /\ Obtainable(drops) # {}
    /\ \A d \in Obtainable(drops) : drops[d].status \in {"claimed", "claimable"}

\* campaignStatus()
CampaignStatus(drops, available) ==
    CASE ~ available                -> "unknown"
      [] available /\ Obtainable(drops) = {} -> "untouched"
      [] OTHER ->
            IF \A d \in Obtainable(drops) : drops[d].status = "claimed" THEN "collected"
            ELSE IF \E d \in Obtainable(drops) : drops[d].status # "not-started"
                 THEN "partial" ELSE "untouched"

\* resolveCampaign(), with the payload's account of both halves.
Campaign(inv) ==
    LET drops == Resolved(inv)
    IN  [drops |-> drops, status |-> CampaignStatus(drops, inv.available),
         complete |-> Complete(drops, inv.available), partly |-> inv.partly]

NoCampaign == [drops |-> Nothing, status |-> "none", complete |-> FALSE, partly |-> FALSE]

-----------------------------------------------------------------------------
NoFetch == [stage |-> "none", progress |-> Nothing, earned |-> {}, answered |-> FALSE]
Idle    == [at |-> "idle", forces |-> {}, listed |-> FALSE]
ColdInventory ==
    [progress |-> Nothing, earned |-> {}, available |-> FALSE, fresh |-> FALSE,
     limited |-> FALSE, partly |-> FALSE]
ColdCatalogue == [list |-> "none", fresh |-> FALSE, limited |-> FALSE]

\* load(): the list of the file, which is as old as the file.
Loaded(file, fresh) ==
    IF file = "none" THEN ColdCatalogue ELSE [ColdCatalogue EXCEPT !.list = file, !.fresh = fresh]

Rank(s, d) ==
    CASE s.status = "claimed"     -> Required[d] + 2
      [] s.status = "claimable"   -> Required[d] + 1
      [] s.status = "in-progress" -> s.minutes
      [] OTHER                    -> 0

\* What every reader of S sees of a campaign that its list has, and keeps.
Sees(S, listed, inv) ==
    LET c == Campaign(inv)
        Takes(r) ==
            /\ r \in S /\ listed[r]
            /\ r = "recorder" => inv.available /\ c.status \in {"partial", "collected"}
    IN  /\ seen' = [r \in Readers |->
                      IF Takes(r) THEN c
                      ELSE IF r = "page" /\ r \in S THEN NoCampaign ELSE seen[r]]
        /\ best' = IF \E r \in S : Takes(r)
                   THEN [d \in Drops |-> Larger(best[d], Rank(c.drops[d], d))] ELSE best

Spends(what) == left[what] > 0 /\ left' = [left EXCEPT ![what] = @ - 1]

WaitingFor(what) == {r \in Readers : reader[r].at = what}

-----------------------------------------------------------------------------
\* A first boot, or the boot of a backend that has read the list lately; what
\* watching cannot earn the account has, or will not have.
Init ==
    /\ left \in Budgets
    /\ watched = 0 /\ claimed \in {{}, Drops \ Earnable} /\ past \in Pasts
    /\ \/ left.ages > 0 /\ disk = "none" /\ running \in BOOLEAN
       \/ disk = "with" /\ running = TRUE
    /\ catalogue = Loaded(disk, TRUE) /\ sweep = FALSE /\ told = {disk} \ {"none"}
    /\ inventory = ColdInventory /\ fetch = NoFetch
    /\ reader = [r \in Readers |-> Idle] /\ seen = [r \in Readers |-> NoCampaign]
    /\ store = {} /\ news = [c \in Drops \cup past |-> 0] /\ timer = FALSE
    /\ best = [d \in Drops |-> 0] /\ synced = FALSE /\ late = {}

(* Twitch and the tracker.                                                 *)

\* Twitch keeps counting past the requirement.
Watch ==
    /\ Spends("minutes") /\ ~ (Earnable \subseteq claimed)
    /\ watched' = watched + 1
    /\ UNCHANGED <<claimed, past, running, caches, reader, seen, claims, timer, history>>

\* The miner's event goes out before its request; a user may claim as well.
ClaimAttempt(d) ==
    /\ Minted(d) /\ d \notin claimed
    /\ timer' = TRUE /\ Spends("attempts")
    /\ UNCHANGED <<truth, caches, reader, seen, claims, history>>

Claim(d) ==
    /\ Minted(d) /\ d \notin claimed
    /\ claimed' = claimed \cup {d}
    /\ late' = IF synced THEN late \cup {d} ELSE late
    /\ UNCHANGED <<watched, past, running, caches, reader, seen, claims, timer, left, best, told, synced>>

CampaignStarts ==
    /\ ~ running /\ watched = 0
    /\ running' = TRUE
    /\ UNCHANGED <<watched, claimed, past, caches, reader, seen, claims, timer, left, history>>

(* The calls.                                                              *)

Begun == IF fetch.stage = "none" THEN [NoFetch EXCEPT !.stage = "progress"] ELSE fetch

\* The second half of the calls of S, with the list the first half ended
\* with: inventory.get() and refresh(), for which there is a snapshot or a
\* request to wait for.  The recorder stops at a list that was never read.
GoOn(S, forces, list) ==
    LET forced(r) == "progress" \in forces[r]
        stops   == {r \in S : r = "recorder" /\ list = "none"}
        held    == {r \in S \ stops : IF forced(r) THEN inventory.limited
                                     ELSE inventory.available /\ inventory.fresh}
        waiting == S \ (stops \cup held)
    IN  /\ Sees(held, [r \in S |-> list = "with"], inventory)
        /\ reader' = [r \in Readers |->
                        IF r \in waiting
                        THEN [at |-> "inventory", forces |-> {}, listed |-> list = "with"]
                        ELSE IF r \in S THEN Idle ELSE reader[r]]
        /\ fetch' = IF waiting = {} THEN fetch ELSE Begun
        /\ inventory' = [inventory EXCEPT !.limited = @ \/ \E r \in S : forced(r)]

\* campaignPayload() and the recorder's pass: the catalogue's get() or
\* refresh(), which has a list or a sweep to wait for, the one under way if
\* there is one.
Ask(r, forces) ==
    LET forced == "catalogue" \in forces
        held   == IF forced THEN catalogue.limited ELSE catalogue.fresh
    IN  /\ reader[r].at = "idle"
        /\ IF r = "page" THEN Spends("reads") ELSE forces = {} /\ UNCHANGED left
        /\ IF held
           THEN GoOn({r}, [q \in {r} |-> forces], catalogue.list) /\ UNCHANGED sweep
           ELSE /\ reader' = [reader EXCEPT ![r] =
                                [at |-> "catalogue", forces |-> forces, listed |-> FALSE]]
                /\ sweep' = TRUE
                /\ UNCHANGED <<inventory, fetch, seen, best>>
        /\ catalogue' = [catalogue EXCEPT !.limited = @ \/ forced]
        /\ UNCHANGED <<truth, disk, claims, timer, told, synced, late>>

SweptOn(list) ==
    GoOn(WaitingFor("catalogue"), [r \in Readers |-> reader[r].forces], list)

\* fetch(): the list, and its file, which may not be writable.
SweepAnswers(writable) ==
    LET list == IF running THEN "with" ELSE "without"
    IN  /\ sweep /\ sweep' = FALSE
        /\ catalogue' = [catalogue EXCEPT !.list = list, !.fresh = TRUE]
        /\ disk' = IF writable THEN list ELSE disk
        /\ told' = told \cup {list}
        /\ SweptOn(list)
        /\ UNCHANGED <<truth, claims, timer, left, synced, late>>

EmptyList(list) == "without"

KeptList(list) == list

SweepFails ==
    /\ sweep /\ sweep' = FALSE
    /\ catalogue' = [catalogue EXCEPT !.list = KeptList(@)]
    /\ SweptOn(KeptList(catalogue.list))
    /\ UNCHANGED <<truth, disk, claims, timer, left, told, synced, late>>

\* The timer of verifyClaimAttempts: refresh(), whose answer nobody awaits.
Verify ==
    /\ timer /\ timer' = FALSE
    /\ fetch' = IF inventory.limited THEN fetch ELSE Begun
    /\ inventory' = [inventory EXCEPT !.limited = TRUE]
    /\ UNCHANGED <<truth, catalogue, sweep, disk, reader, seen, claims, left, history>>

\* The request's halves: get_inventory(), then _earned(), which may fail on
\* its own.
Half(f) ==
    IF f.stage = "progress"
    THEN [f EXCEPT !.stage = "rewards", !.progress = Inventory]
    ELSE [f EXCEPT !.stage = "answer", !.earned = ClaimedRewards \cup past, !.answered = TRUE]

Query ==
    /\ fetch.stage \in {"progress", "rewards"} /\ fetch' = Half(fetch)
    /\ UNCHANGED <<truth, inventory, catalogue, sweep, disk, reader, seen, claims, timer, left, history>>

RewardsFail ==
    /\ fetch.stage = "rewards"
    /\ fetch' = [fetch EXCEPT !.stage = "answer"]
    /\ UNCHANGED <<truth, inventory, catalogue, sweep, disk, reader, seen, claims, timer, left, history>>

Answered(inv) ==
    LET S == WaitingFor("inventory")
    IN  /\ Sees(S, [r \in S |-> reader[r].listed], inv)
        /\ reader' = [r \in Readers |-> IF r \in S THEN Idle ELSE reader[r]]

\* syncClaims() with recordClaims(): the first rewards of a fresh store are
\* no news.
Whole(earned) == earned

Unheld(earned) == earned \ store

SyncClaims(answered, earned) ==
    IF ~ answered THEN UNCHANGED claims
    ELSE /\ store' = store \cup earned
         /\ news' = IF store = {} THEN news
                    ELSE [c \in DOMAIN news |-> IF c \in Unheld(earned) THEN news[c] + 1 ELSE news[c]]

InventoryAnswers ==
    LET inv == [inventory EXCEPT
                  !.progress = fetch.progress,
                  !.earned = IF fetch.answered THEN fetch.earned ELSE @,
                  !.partly = ~ fetch.answered,
                  !.available = TRUE, !.fresh = TRUE]
    IN  /\ fetch.stage = "answer" /\ fetch' = NoFetch
        /\ inventory' = inv
        /\ Answered(inv)
        /\ SyncClaims(fetch.answered, fetch.earned)
        /\ synced' = (synced \/ fetch.answered)
        /\ UNCHANGED <<truth, catalogue, sweep, disk, timer, left, told, late>>

InventoryFails ==
    LET inv == [inventory EXCEPT !.available = FALSE]
    IN  /\ fetch.stage # "none" /\ fetch' = NoFetch
        /\ inventory' = inv
        /\ Answered(inv)
        /\ UNCHANGED <<truth, catalogue, sweep, disk, claims, timer, left, told, synced, late>>

\* What is held grows old, and the limits on forced reads run out.
InventoryAges ==
    /\ inventory.fresh /\ inventory' = [inventory EXCEPT !.fresh = FALSE]
    /\ UNCHANGED <<truth, fetch, catalogue, sweep, disk, reader, seen, claims, timer, left, history>>

CatalogueAges ==
    /\ catalogue.fresh /\ catalogue' = [catalogue EXCEPT !.fresh = FALSE]
    /\ Spends("ages")
    /\ UNCHANGED <<truth, inventory, fetch, sweep, disk, reader, seen, claims, timer, history>>

LimitsEnd ==
    /\ inventory.limited \/ catalogue.limited
    /\ inventory' = [inventory EXCEPT !.limited = FALSE]
    /\ catalogue' = [catalogue EXCEPT !.limited = FALSE]
    /\ UNCHANGED <<truth, fetch, sweep, disk, reader, seen, claims, timer, left, history>>

\* The backend is killed and boots: the page keeps what it shows, the
\* database and the catalogue's file stay.
Kill ==
    /\ Spends("kills")
    /\ inventory' = ColdInventory /\ fetch' = NoFetch
    /\ \E fresh \in {TRUE, left.ages = 0} : catalogue' = Loaded(disk, fresh)
    /\ sweep' = FALSE /\ timer' = FALSE
    /\ reader' = [r \in Readers |-> Idle]
    /\ UNCHANGED <<truth, disk, seen, claims, history>>

Environment ==
    \/ Watch
    \/ \E d \in Drops : ClaimAttempt(d) \/ Claim(d)
    \/ CampaignStarts
    \/ InventoryAges \/ CatalogueAges \/ LimitsEnd \/ Kill

Calls ==
    \/ \E r \in Readers, forces \in SUBSET {"catalogue", "progress"} : Ask(r, forces)
    \/ Verify

Answers ==
    \/ \E writable \in BOOLEAN : SweepAnswers(writable)
    \/ SweepFails \/ Query \/ RewardsFail
    \/ InventoryAnswers \/ InventoryFails

Next == Environment \/ Calls \/ Answers

Spec == Init /\ [][Next]_vars

-----------------------------------------------------------------------------
Saw(r) == seen[r].status # "none"

\* What is said to be done is done: a reward that is stored was claimed, a drop the
\* page or the history has as claimed was, one called claimable has its minutes,
\* and a campaign called complete, which the drops engine stops watching, has
\* nothing left to watch.
DoneIsDone ==
    /\ store \subseteq claimed \cup past
    /\ \A r \in Readers : Saw(r) =>
          /\ \A d \in Drops :
                /\ seen[r].drops[d].status = "claimed"   => d \in claimed
                /\ seen[r].drops[d].status = "claimable" => Minted(d)
          /\ seen[r].complete => \A d \in Earnable : Minted(d)

\* Progress is never seen to go back, by the page or in the history, by an
\* answer in two parts between which Twitch moved on, by a failure, or by a
\* restart: only an answer whose rewards Twitch did not give may.
ProgressNeverGoesBack ==
    [][\A r \in Readers : seen'[r] # seen[r] /\ seen'[r].status # "none" /\ ~ seen'[r].partly =>
          \A d \in Drops :
              \/ seen'[r].drops[d].status = "unknown"
              \/ Rank(seen'[r].drops[d], d) >= best[d]]_vars

\* A list without the campaign is what the tracker once said, never what a
\* failed fetch, an unwritable file or a restart made of it.
AbsenceWasTold == catalogue.list # "none" => catalogue.list \in told

\* Each claim is announced once at most, and on an account that has earlier
\* rewards every claim made since those were taken in is, when it is stored.
ClaimIsNews ==
    /\ \A c \in DOMAIN news : news[c] <= 1
    /\ past # {} => \A d \in store \cap late : news[d] = 1

\* No drop is called done, campaign called gone or claim called new without it.
NothingIsMadeUp == DoneIsDone /\ AbsenceWasTold /\ ClaimIsNews

=============================================================================
