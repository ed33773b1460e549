----------------------------- MODULE CampaignGrid ----------------------------
(***************************************************************************)
(* The campaigns of the Drops page (frontend routes/Drops.tsx, components/ *)
(* CampaignCard.tsx, lib/campaignHistory.ts and campaignMatch.ts), from    *)
(* the payload the backend resolves for them.                              *)
(*                                                                         *)
(* The payload is as old as the last load, the order of the grid as old as *)
(* the last change of data, view or filter, and a badge is worked out each *)
(* time the card is drawn.  How the two halves of the payload are fetched  *)
(* and cached is DropProgress.                                             *)
(***************************************************************************)
EXTENDS Integers, Sequences, FiniteSets, SequencesExt, FiniteSetsExt

CONSTANTS
    Campaigns,      \* numbers, in the order of their names
    Starts, Ends,   \* their windows, or Never where the source has no date
    Required,       \* of each drop, its minutes; none for one that is not watched for
    Budgets         \* bounds: how much of each thing one behaviour may do

VARIABLES
    clock,
    watched,    \* Twitch: of each campaign, the minutes
    claims,     \* Twitch: of each campaign, the drops claimed
    listed,     \* backend: the campaigns of the catalogue
    inventory,  \* backend: [minutes, claims, available], as last read
    kept,       \* backend: campaign_history, the last snapshot of each
    data,       \* page: the last payload, of each campaign or Absent
    recorded,   \* page: the history as read when its view was opened
    view, needle, jumpedTo,
    sortedAt,   \* page: when the grid was last put in order
    open, was,  \* page: of each card drawn, whether it is open and was forced open
    left        \* what of its budget a behaviour has left

backend == <<listed, inventory, kept>>
page    == <<data, recorded, view, needle, jumpedTo, sortedAt, open, was>>
vars    == <<clock, watched, claims, backend, page, left>>

Never  == -1
Drops  == DOMAIN Required
Absent == [status |-> "absent", complete |-> FALSE,
           drops |-> [d \in Drops |-> [status |-> "unknown", minutes |-> 0]]]
NoNeedle == [in |-> "none", of |-> Never]
Views  == {"all", "running", "scheduled", "unclaimed", "collected", "history"}
Spends(what) == left[what] > 0 /\ left' = [left EXCEPT ![what] = @ - 1]

Lesser(a, b) == IF a < b THEN a ELSE b

-----------------------------------------------------------------------------
(* The payload.                                                            *)

\* resolveDrop(), from the entry an inventory has of a campaign begun.
Drop(c, d) ==
    LET mins    == Lesser(inventory.minutes[c], Required[d])
        Is(s, m) == [status |-> s, minutes |-> m]
    IN  IF Required[d] = 0 THEN Is("unobtainable", 0)
        ELSE IF inventory.minutes[c] = 0
             THEN Is(IF inventory.available THEN "not-started" ELSE "unknown", 0)
        ELSE IF d \in inventory.claims[c] THEN Is("claimed", mins)
        ELSE Is(IF mins = Required[d] THEN "claimable" ELSE "in-progress", mins)

Obtainable(drops) == {d \in Drops : drops[d].status # "unobtainable"}

CampaignStatus(drops) ==
    IF ~inventory.available THEN "unknown"
    ELSE IF Obtainable(drops) = {} THEN "untouched"
    ELSE IF \A d \in Obtainable(drops) : drops[d].status = "claimed" THEN "collected"
    ELSE IF \E d \in Obtainable(drops) : drops[d].status # "not-started" THEN "partial"
    ELSE "untouched"

\* resolveCampaign()
Resolved(c) ==
    LET drops == [d \in Drops |-> Drop(c, d)]
    IN  [drops |-> drops, status |-> CampaignStatus(drops),
         complete |-> /\ inventory.available /\ Obtainable(drops) # {}
                      /\ \A d \in Obtainable(drops) :
                            drops[d].status \in {"claimed", "claimable"}]

-----------------------------------------------------------------------------
(* The views.                                                              *)

IsScheduled(c, now) == Starts[c] # Never /\ Starts[c] > now
HasEnded(c, now)    == Ends[c] # Never /\ Ends[c] <= now

InView(c, v, now) ==
    CASE v = "running"   -> ~IsScheduled(c, now) /\ ~HasEnded(c, now)
      [] v = "scheduled" -> IsScheduled(c, now)
      [] v = "unclaimed" -> ~HasEnded(c, now) /\ data[c].status # "collected"
      [] v = "collected" -> data[c].status = "collected"
      [] OTHER           -> TRUE

\* What the box matches: a campaign by its name or game, or only by a drop.
MatchesHeader(c) == needle = NoNeedle \/ needle = [in |-> "name", of |-> c]
MatchesDrop(c)   == needle = [in |-> "drop", of |-> c]

Tier(c, now) ==
    IF HasEnded(c, now) THEN 4
    ELSE IF data[c].status = "collected" THEN 3
    ELSE IF IsScheduled(c, now) THEN 2
    ELSE IF data[c].status = "partial" THEN 0 ELSE 1

\* The date within a tier; none is later than any.
Date(c, now) ==
    LET d == IF IsScheduled(c, now) THEN Starts[c] ELSE Ends[c]
    IN  IF d = Never THEN 1000 ELSE d

Before(c, d, now) ==
    \/ Tier(c, now) < Tier(d, now)
    \/ Tier(c, now) = Tier(d, now) /\ Date(c, now) < Date(d, now)
    \/ Tier(c, now) = Tier(d, now) /\ Date(c, now) = Date(d, now) /\ c < d

Watched(s) == s.status \in {"partial", "collected"}

\* watchedCampaigns(): those recorded, or as they are now where that is known.
History ==
    [c \in {x \in Campaigns : Watched(data[x]) \/ recorded[x] # Absent} |->
        IF Watched(data[c]) THEN data[c] ELSE recorded[c]]

\* shown: the slice, searched, in order; the history has an order of its own.
Shown ==
    LET scope == IF view = "history" THEN DOMAIN History
                 ELSE {c \in Campaigns : data[c] # Absent /\ InView(c, view, sortedAt)}
        found == {c \in scope : MatchesHeader(c) \/ MatchesDrop(c)}
        Ended(c, d) == Ends[c] > Ends[d] \/ (Ends[c] = Ends[d] /\ c < d)
    IN  SetToSortSeq(found, LAMBDA c, d : IF view = "history" THEN Ended(c, d)
                                          ELSE Before(c, d, sortedAt))

-----------------------------------------------------------------------------
(* A card.                                                                 *)

Card(c) == IF view = "history" THEN History[c] ELSE data[c]

\* Mutant: the badge is of the moment the grid was put in order, like its place.
BadgeAsOrdered(c) ==
    LET s == Card(c).status
    IN  IF HasEnded(c, sortedAt) /\ s # "collected" THEN "ended"
        ELSE IF IsScheduled(c, sortedAt) /\ s \notin {"collected", "partial"} THEN "scheduled"
        ELSE s

\* badge(), of the moment the card is drawn.
Badge(c) ==
    LET s == Card(c).status
    IN  IF HasEnded(c, clock) /\ s # "collected" THEN "ended"
        ELSE IF IsScheduled(c, clock) /\ s \notin {"collected", "partial"} THEN "scheduled"
        ELSE s

\* elapsedPercent()
Elapsed(c) ==
    IF Starts[c] = Never \/ Ends[c] = Never \/ Ends[c] <= Starts[c] THEN Never
    ELSE Lesser(100, Max({0, ((clock - Starts[c]) * 100) \div (Ends[c] - Starts[c])}))

\* The countdown beside it, and windowLines() behind it.
Countdown(c) ==
    IF HasEnded(c, clock) THEN "ended" ELSE IF IsScheduled(c, clock) THEN "starts in"
    ELSE IF Ends[c] # Never THEN "left" ELSE "none"
WindowState(c) ==
    IF HasEnded(c, clock) THEN "ended" ELSE IF IsScheduled(c, clock) THEN "opens in"
    ELSE IF Starts[c] # Never THEN "started" ELSE "none"

ClaimedCount(s) == {d \in Obtainable(s.drops) : s.drops[d].status = "claimed"}

\* watchTime(): the drops are milestones of one running total.
WatchTime(s) ==
    LET required == Max({Required[d] : d \in Obtainable(s.drops)})
    IN  [required |-> required,
         watched  |-> Lesser(required, Max({s.drops[d].minutes : d \in Obtainable(s.drops)})),
         claimed  |-> Max({0} \cup {Required[d] : d \in ClaimedCount(s)})]

Milestones(s) ==
    {Required[d] : d \in Obtainable(s.drops)} \ {0, WatchTime(s).required}

\* The bar is drawn where progress is known and something can be watched for.
HasBar(s) == s.status # "unknown" /\ Obtainable(s.drops) # {}

\* expand: a jump came here, or only a drop inside was found.
Expands(c, at, box) == at = c \/ box = [in |-> "drop", of |-> c]

-----------------------------------------------------------------------------
(* The page.                                                               *)

\* Every drawing follows a change of expand; a card that was not drawn is new.
Drawn ==
    LET now  == ToSet(Shown')
        forced == [c \in now |-> Expands(c, jumpedTo', needle')]
    IN  /\ was' = forced
        /\ open' = [c \in now |-> IF c \in DOMAIN open /\ was[c] = forced[c] THEN open[c]
                                  ELSE forced[c]]

World == UNCHANGED <<clock, watched, claims>>

\* A load or a refresh; its inventory may fail, and what is held then stands.
Load ==
    /\ Spends("loads")
    /\ inventory' \in {[minutes |-> watched, claims |-> claims, available |-> TRUE],
                       [inventory EXCEPT !.available = FALSE]}
    /\ data' = [c \in Campaigns |-> IF c \in listed THEN Resolved(c)' ELSE Absent]
    /\ sortedAt' = clock
    /\ World /\ UNCHANGED <<listed, kept, recorded, view, needle, jumpedTo>>
    /\ Drawn

\* Opening the history reads what is recorded; the read is part of the step.
ChoosesView(v) ==
    /\ v # view /\ Spends("clicks")
    /\ view' = v /\ sortedAt' = clock
    /\ recorded' = IF v = "history" THEN kept ELSE recorded
    /\ World /\ UNCHANGED <<backend, data, needle, jumpedTo>>
    /\ Drawn

Searches(box) ==
    /\ box # needle /\ Spends("clicks")
    /\ needle' = box /\ sortedAt' = clock
    /\ World /\ UNCHANGED <<backend, data, recorded, view, jumpedTo>>
    /\ Drawn

\* The palette's jump; the link of a subscription only opens the card.
Jumps(c) ==
    /\ Spends("clicks")
    /\ view' = "all" /\ needle' = NoNeedle /\ jumpedTo' = c /\ sortedAt' = clock
    /\ World /\ UNCHANGED <<backend, data, recorded>>
    /\ Drawn

Toggles(c) ==
    /\ Spends("clicks")
    /\ c \in DOMAIN open /\ open' = [open EXCEPT ![c] = ~@]
    /\ World /\ UNCHANGED <<backend, data, recorded, view, needle, jumpedTo, sortedAt, was>>

-----------------------------------------------------------------------------
(* The backend and the world.                                              *)

\* CampaignRecorder.run(), with an inventory it has just read.
Records ==
    /\ Spends("records")
    /\ inventory' = [minutes |-> watched, claims |-> claims, available |-> TRUE]
    /\ kept' = [c \in Campaigns |-> IF c \in listed /\ Watched(Resolved(c)') THEN Resolved(c)'
                                    ELSE kept[c]]
    /\ World /\ UNCHANGED <<listed, page>>

Watches(c) ==
    /\ ~IsScheduled(c, clock) /\ ~HasEnded(c, clock)
    /\ watched[c] < Max({Required[d] : d \in Drops}) /\ Spends("minutes")
    /\ watched' = [watched EXCEPT ![c] = @ + 1]
    /\ UNCHANGED <<clock, claims, backend, page>>

Claims(c, d) ==
    /\ Required[d] > 0 /\ watched[c] >= Required[d] /\ d \notin claims[c]
    /\ claims' = [claims EXCEPT ![c] = @ \cup {d}]
    /\ UNCHANGED <<clock, watched, backend, page, left>>

\* A campaign that has ended leaves the catalogue with its next sweep.
Passes ==
    /\ Spends("moments") /\ clock' = clock + 1
    /\ listed' \in {listed, {c \in listed : ~HasEnded(c, clock')}}
    /\ UNCHANGED <<watched, claims, inventory, kept, page>>

\* The page has made its first load.
Init ==
    /\ clock = 0
    /\ watched = [c \in Campaigns |-> 0] /\ claims = [c \in Campaigns |-> {}]
    /\ listed = Campaigns
    /\ inventory \in [minutes : {watched}, claims : {claims}, available : BOOLEAN]
    /\ kept = [c \in Campaigns |-> Absent] /\ recorded = kept
    /\ data = [c \in Campaigns |-> Resolved(c)]
    /\ view = "all" /\ needle = NoNeedle /\ jumpedTo = Never /\ sortedAt = 0
    /\ was = [c \in Campaigns |-> FALSE] /\ open = was
    /\ left \in Budgets

Next ==
    \/ Load \/ Records \/ Passes
    \/ \E v \in Views : ChoosesView(v)
    \/ \E box \in {NoNeedle} \cup [in : {"name", "drop"}, of : Campaigns] : Searches(box)
    \/ \E c \in Campaigns : Jumps(c) \/ Toggles(c) \/ Watches(c)
    \/ \E c \in Campaigns, d \in Drops : Claims(c, d)

Spec == Init /\ [][Next]_vars

-----------------------------------------------------------------------------
\* What can be earned by watching now stands above what cannot, as of when the
\* grid was put in order, and watch time already spent above what only ends
\* sooner (Drops.tsx: "Five tiers").
CanEarn(c) ==
    ~IsScheduled(c, sortedAt) /\ ~HasEnded(c, sortedAt) /\ data[c].status # "collected"
OrderIsUseful ==
    view # "history" =>
        \A i, j \in DOMAIN Shown : i < j =>
            /\ CanEarn(Shown[j]) => CanEarn(Shown[i])
            /\ CanEarn(Shown[j]) /\ data[Shown[j]].status = "partial" =>
                 /\ data[Shown[i]].status = "partial"
                 /\ Ends[Shown[j]] # Never => Ends[Shown[i]] \in 0..Ends[Shown[j]]

\* A card invites to nothing that cannot be done: its badge, its countdown and
\* the lines behind it agree about the window, also when the payload is older
\* than the window's end; and its bar never shows more claimed than watched, is
\* full just when watching has nothing to add, and passes just the milestones of
\* the drops that are done (CampaignCard.tsx: badge, watchTime, milestones).
CardsAreHonest ==
    \A c \in ToSet(Shown) :
        LET s == Card(c)
            t == WatchTime(s)
        IN  /\ Badge(c) \in {"untouched", "unknown"} => Elapsed(c) \in -1..99
            /\ Badge(c) = "partial" => ~HasEnded(c, clock)
            /\ Countdown(c) = "ended" => Badge(c) \in {"ended", "collected"}
            /\ Badge(c) = "ended" => Countdown(c) = "ended"
            /\ Badge(c) = "scheduled" => Countdown(c) = "starts in"
            /\ (Countdown(c) = "ended") = (WindowState(c) = "ended")
            /\ (Countdown(c) = "starts in") = (WindowState(c) = "opens in")
            /\ HasBar(s) =>
                 /\ t.claimed <= t.watched /\ t.watched <= t.required
                 /\ s.complete <=> t.watched = t.required
                 /\ {m \in Milestones(s) : m <= t.watched}
                      = {Required[d] : d \in {x \in Obtainable(s.drops) :
                            s.drops[x].status \in {"claimed", "claimable"}}} \ {t.required}

\* A campaign that was recorded stays in the history, whether it is still listed
\* and its progress can be read or not, and with all that was recorded of it
\* unless the payload knows it by itself (campaignHistory.ts:5-12).
HistoryStays ==
    view = "history" =>
        \A c \in Campaigns : Watched(recorded[c]) =>
            /\ c \in DOMAIN History /\ Watched(History[c])
            /\ ~Watched(data[c]) =>
                 \A d \in Drops : recorded[c].drops[d].minutes <= History[c].drops[d].minutes

\* A card forced open is open until its reader closes it or the reason is gone,
\* and a jump to a listed campaign lands on its card.
JumpsLand ==
    /\ DOMAIN open = ToSet(Shown)
    /\ jumpedTo # Never /\ view = "all" /\ needle = NoNeedle /\ data[jumpedTo] # Absent =>
          jumpedTo \in DOMAIN open

GridIsHonest == OrderIsUseful /\ CardsAreHonest /\ HistoryStays /\ JumpsLand

=============================================================================
