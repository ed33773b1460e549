------------------------------ MODULE Sources -------------------------------
(***************************************************************************)
(* What publishes notifications, with Delivery to bring them: the campaign *)
(* watcher and its backlog, the daily digest, the miner's health and its   *)
(* error reports, streams that go live (notify/sources), and the prune of  *)
(* the keys that say what was announced already (notify/store.ts).         *)
(***************************************************************************)
EXTENDS Delivery

CONSTANTS
    Parts,      \* parts of the miner that report errors (a row's context)
    MaxDays     \* bound: days

VARIABLES
    campaign,   \* of each subject: its progress, and whether it ends soon
    primed,     \* notify_seen has PRIMED_KEY
    backlog,    \* history: campaigns complete, and not told of, at a first pass
    unmarked,   \* history: campaigns complete that a first pass ended before
    day,        \* the local date, and whether the digest time has passed
    digested,   \* notify_seen: the digest keys, of a row and a date
    digests,    \* history: how many digests a row was sent of a date
    crashed,    \* watchHealth's flag
    noticed     \* errorSources: the parts whose last notice is less than an hour old

campaignVars == <<campaign, primed, backlog, unmarked>>
digestVars   == <<day, digested, digests>>
healthVars   == <<crashed, noticed>>
vars == <<deliveryVars, campaignVars, digestVars, healthVars>>

Dates == 1..MaxDays

TypeOK ==
    /\ vapid \in Nat
    /\ \A i \in Ids : rows[i] = NoRow \/ i <= inserted
    /\ inserted \in 0..MaxRows
    /\ seen \subseteq KeyedNotes /\ inbox \subseteq Notes
    /\ \A s \in sends : s.attempt \in 1..2 /\ s.notes # {} /\ s.notes \subseteq Notes
    /\ \A t \in Tabs : tabs[t].at \in {"idle", "loaded", "resubscribing", "registering"}
    /\ campaign \in [Subjects -> [at : {"partial", "complete"}, soon : BOOLEAN]]
    /\ day \in [date : Dates, past : BOOLEAN]
    /\ digested \subseteq Ids \X Dates
    /\ noticed \subseteq Parts /\ crashed \in BOOLEAN /\ undone \in BOOLEAN

\* What a source does that only publishes.
UnlessPublished == UNCHANGED <<vapid, rows, inserted, browserVars, undone>>
UnlessNotified  == UNCHANGED <<vapid, storeVars, memoryVars, browserVars, told, undone>>

-----------------------------------------------------------------------------
(* The campaign watcher.                                                   *)

\* On Twitch: a campaign is completed, or its end comes near.
CampaignMoves(c) ==
    /\ Spends("events")
    /\ \/ campaign[c].at = "partial" /\ campaign' = [campaign EXCEPT ![c].at = "complete"]
       \/ ~campaign[c].soon /\ campaign' = [campaign EXCEPT ![c].soon = TRUE]
    /\ UNCHANGED <<primed, backlog, unmarked, digestVars, healthVars>> /\ UnlessNotified

Completed  == {Note("completed", c) : c \in {x \in Subjects : campaign[x].at = "complete"}}
EndingSoon == {Note("ending", c) :
                 c \in {x \in Subjects : campaign[x].at = "partial" /\ campaign[x].soon}}

Of(notes, cs) == {n \in notes : n.about \in cs}

\* Mutant: the first run announces what it finds.
AnnouncedAll(cs) == Dispatched(Of(Completed \cup EndingSoon, cs), {})

\* The loop over campaigns: the first run marks what is complete as seen.
AnnouncedNews(cs) ==
    IF primed THEN Dispatched(Of(Completed \cup EndingSoon, cs), {})
    ELSE Dispatched(Of(EndingSoon, cs), Of(Completed, cs))

\* run(), after its awaits.  PRIMED_KEY is committed before the loop, which a throw
\* (swallowed by pass()) or a kill may end before it has come to all of them.
CampaignPass ==
    \E reached \in SUBSET Subjects :
        /\ IF reached = Subjects THEN UNCHANGED budget ELSE Spends("faults")
        /\ AnnouncedNews(reached)
        /\ primed' = TRUE
        /\ IF primed THEN UNCHANGED <<backlog, unmarked>>
           ELSE /\ backlog' = {n \in Completed : \A i \in Ids : told[i][n] = 0}
                /\ unmarked' = unmarked \cup (Completed \ Of(Completed, reached))
        /\ UNCHANGED <<campaign, digestVars, healthVars>> /\ UnlessPublished

-----------------------------------------------------------------------------
(* The digest.                                                             *)

DayMoves ==
    /\ Spends("halfDays")
    /\ day' = IF day.past THEN [date |-> day.date + 1, past |-> FALSE]
              ELSE [day EXCEPT !.past = TRUE]
    /\ UNCHANGED <<campaignVars, digested, digests, healthVars>> /\ UnlessNotified

\* tick(): the key is stored before the summary is read, which may be empty.
DigestTick(hasData) ==
    LET due == {i \in Rows : /\ rows[i].on /\ rows[i].prefs = "own"
                             /\ <<i, day.date>> \notin digested}
    IN  /\ day.past /\ due # {}
        /\ digested' = digested \cup {<<i, day.date>> : i \in due}
        /\ sends' = sends \cup
             IF hasData THEN {Sending(i, rows[i].to, {n}) :
                                i \in due, n \in {x \in Notes : x.kind = "digest"}}
             ELSE {}
        /\ digests' = [i \in Ids |-> [d \in Dates |->
                         IF i \in due /\ d = day.date /\ digests[i][d] < 2
                           THEN digests[i][d] + 1 ELSE digests[i][d]]]
        /\ UNCHANGED <<budget, seen, inbox, buckets, told, campaignVars, day, healthVars>>
        /\ UnlessPublished

-----------------------------------------------------------------------------
(* The miner.                                                              *)

MinerCrashes ==
    /\ Spends("faults")
    /\ crashed' = TRUE
    /\ UNCHANGED <<campaignVars, digestVars, noticed>> /\ UnlessNotified

MinerRuns ==
    /\ crashed /\ crashed' = FALSE
    /\ Dispatched({n \in Notes : n.kind = "recovered"}, {})
    /\ UNCHANGED <<budget, campaignVars, digestVars, noticed>> /\ UnlessPublished

\* "event" with an ERROR: its part may have had its notice of the hour.
Reports(p) ==
    /\ Spends("faults")
    /\ IF p \in noticed THEN UNCHANGED <<noticed, seen, inbox, memoryVars, told>>
       ELSE /\ noticed' = noticed \cup {p}
            /\ Dispatched({n \in Notes : n.kind = "error"}, {})
    /\ UNCHANGED <<campaignVars, digestVars, crashed>> /\ UnlessPublished

HourPasses ==
    /\ noticed # {} /\ noticed' = {}
    /\ UNCHANGED <<budget, campaignVars, digestVars, crashed>> /\ UnlessNotified

\* "streams": one has just gone live.
StreamStarts(c) ==
    /\ Spends("events")
    /\ Dispatched({Note("online", c)}, {})
    /\ UNCHANGED <<campaignVars, digestVars, healthVars>> /\ UnlessPublished

-----------------------------------------------------------------------------
\* The restart of the backend, for the sources: the tables stay.
AllRestarts ==
    /\ BackendRestarts
    /\ crashed' = FALSE /\ noticed' = {}
    /\ UNCHANGED <<campaignVars, digestVars>>

\* prune(), of keys older than 90 days: the one of the first run is the oldest, and
\* those of a campaign that ends tomorrow and of today's digest are younger.
Prune ==
    /\ Spends("prunes")
    /\ \E young \in SUBSET seen :
          /\ seen \cap EndingSoon \subseteq young
          /\ seen' = young
    /\ digested' = {d \in digested : d[2] = day.date}
    /\ primed' = FALSE /\ inbox' = {}
    /\ UNCHANGED <<vapid, rows, inserted, memoryVars, browserVars, told, undone,
                   campaign, backlog, unmarked, day, digests,
                   healthVars>>

Init ==
    /\ DeliveryInit
    /\ campaign \in [Subjects -> [at : {"partial", "complete"}, soon : {FALSE}]]
    /\ primed = FALSE /\ backlog = {} /\ unmarked = {}
    /\ day = [date |-> 1, past |-> FALSE] /\ digested = {}
    /\ digests = [i \in Ids |-> [d \in Dates |-> 0]]
    /\ crashed = FALSE /\ noticed = {}

Publishing ==
    \/ \E c \in Subjects : CampaignMoves(c) \/ StreamStarts(c)
    \/ CampaignPass
    \/ DayMoves \/ \E hasData \in BOOLEAN : DigestTick(hasData)
    \/ MinerCrashes \/ MinerRuns
    \/ \E p \in Parts : Reports(p)
    \/ HourPasses \/ Prune

Next ==
    \/ Publishing
    \/ Deliveries /\ UNCHANGED <<campaignVars, digestVars, healthVars>>
    \/ Pages /\ UNCHANGED <<campaignVars, digestVars, healthVars>>
    \/ AllRestarts

\* The timer of a batch fires, the push service answers or the request times out,
\* and a page goes on; the app is opened again and again.
Fairness ==
    /\ \A i \in Ids : WF_deliveryVars(WindowEnds(i))
    /\ WF_deliveryVars(\E s \in sends : SendAnswered(s) \/ SendGone(s) \/ SendFails(s))
    /\ \A t \in Tabs : /\ WF_deliveryVars(Loads(t)) /\ WF_deliveryVars(HealDecides(t))
                       /\ WF_deliveryVars(HealSubscribes(t)) /\ WF_deliveryVars(Registers(t))

Spec == Init /\ [][Next]_vars /\ Fairness

-----------------------------------------------------------------------------
\* Whatever restarts, passes, ticks and batches do, a destination is given a
\* notification with a key once, and never one about a campaign that was complete
\* before the watcher first ran (campaigns.ts:101, digest.ts:105).  What this says
\* nothing of is a campaign that a first run ended before, by a throw or a kill: its
\* key tells the next run that the backlog is marked, which then announces it, after a
\* prune for the second time.
AnnouncedOnce ==
    /\ \A i \in Ids : \A n \in KeyedNotes \ unmarked :
          told[i][n] <= IF n \in backlog THEN 0 ELSE 1
    /\ \A i \in Ids : \A d \in Dates : digests[i][d] <= 1

\* However tabs race to heal, turn on and turn off, with requests lost and the
\* keys replaced, one endpoint is in one row: the next event rings once, and
\* the UNIQUE column never refuses a browser (schema.ts:116).
OneRowPerEndpoint ==
    \A i, j \in Rows : rows[i].to = rows[j].to => i = j

\* What happened once rings once.
RingsOnce == AnnouncedOnce /\ OneRowPerEndpoint

\* Every batch and every delivery comes to an end, once the sources rest: the push
\* service is asked twice at most (webPush.ts:152-157).
Quiet == sends = {} /\ \A i \in Ids : buckets[i] = NoBucket
DeliveriesEnd == []<>Quiet

\* The browser has a subscription that is signed with the server's key and known to it.
Connected == sub # Nowhere /\ sub.key = vapid /\ At(sub) # {}

\* As long as the app is opened now and then, the browser and the server come to
\* agree (lib/push.ts:129-136): push is off in the browser, or on for both.  However
\* often the keys are replaced and the pages of several tabs heal that in any order, it
\* is on in the end, unless push was switched off or something undid a step: a
\* registration that is lost is not made up for at the next visit, which takes it for
\* a removal (push.ts:133-134, 172).
SubscriptionHeals ==
    /\ []<>(sub = Nowhere \/ Connected)
    /\ []<>(Connected \/ undone)

\* Pushes end and push stays on.  What fails twice, or is under way when the backend
\* restarts, is not told again.
PushRecovers == DeliveriesEnd /\ SubscriptionHeals

=============================================================================
