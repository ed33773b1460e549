------------------------------ MODULE Delivery ------------------------------
(***************************************************************************)
(* How a notification reaches a browser: the notifier with its batches     *)
(* (notify/notifier.ts, batcher.ts), the destinations, the inbox and the   *)
(* keys in SQLite (notify/store.ts, routes.ts), the Web Push channel with  *)
(* its one retry (channels/webPush.ts), and the pages that subscribe the   *)
(* browser and heal its subscription (frontend lib/push.ts).               *)
(*                                                                         *)
(* There is one browser, whose tabs share its subscription; other devices  *)
(* are there as what they do to the rows.  An endpoint carries the server  *)
(* key it was made for.  Which notifications are published, and when, is   *)
(* Sources.                                                                *)
(***************************************************************************)
EXTENDS Integers

CONSTANTS
    Tabs,       \* tabs of the app in the browser
    Subjects,   \* what notifications are about: campaigns, streamers
    Budgets,    \* bounds: how much of each thing one behaviour may do
    MaxRows     \* bound: rows ever inserted

VARIABLES
    vapid,      \* the server's key pair
    rows,       \* notify_destinations
    inserted,   \* how many ids have been given out
    seen,       \* notify_seen
    inbox,      \* notifications
    buckets,    \* the Batcher's: per row, the destination kept and the items
    sends,      \* deliveries under way
    sub,        \* the browser's push subscription: an endpoint or Nowhere
    tabs,       \* what each tab is doing about it
    budget,     \* what this behaviour may still spend; see Budgets
    told,       \* history: how often each row was given each notification
    undone      \* history: push was switched off, or a step of a page undone; see below

storeVars  == <<rows, inserted, seen, inbox>>
memoryVars == <<buckets, sends>>
browserVars   == <<sub, tabs>>
deliveryVars == <<vapid, storeVars, memoryVars, browserVars, budget, told, undone>>

-----------------------------------------------------------------------------
(* Data.                                                                   *)

Kinds == {"completed", "ending", "digest", "error", "online", "recovered"}
Notes == [kind : Kinds, about : Subjects]
Note(kind, about) == [kind |-> kind, about |-> about]

\* The catalogue: the kinds that collect in batches, that the inbox keeps,
\* that a destination takes unless told otherwise; and those a source
\* publishes with a dedupeKey, which is made of the kind and the subject.
Batched   == {"online"}
InInbox   == {"completed", "ending", "recovered"}
DefaultOn == {"completed", "ending"}
Keyed     == {"completed", "ending"}
KeyedNotes == {n \in Notes : n.kind \in Keyed}

Ids       == 1..MaxRows
Nowhere   == [n |-> 0, key |-> 0]
NoRow     == [to |-> Nowhere, on |-> FALSE, prefs |-> "none"]
NoBucket  == [to |-> Nowhere, items |-> {}]
IdleTab   == [at |-> "idle", key |-> 0, known |-> {}, was |-> Nowhere, got |-> Nowhere]
Rows      == {i \in Ids : rows[i] # NoRow}

At(endpoint) == {i \in Rows : rows[i].to = endpoint}

Spends(what) == budget[what] > 0 /\ budget' = [budget EXCEPT ![what] = @ - 1]

-----------------------------------------------------------------------------
(* The notifier.                                                           *)

\* wants(): a row with the defaults, or with every kind switched on.
Wants(row, note) == row.on /\ (row.prefs = "own" \/ note.kind \in DefaultOn)

\* Who of a row's owners hears of which of them.
Heard(id, notes) == IF id \in Rows THEN {n \in notes : Wants(rows[id], n)} ELSE {}

Sending(id, to, notes) == [row |-> id, to |-> to, notes |-> notes, attempt |-> 1]

\* dispatch() of what is published in one synchronous stretch, and markSeen() of
\* more: a batch keeps the destination of its first item.
Dispatched(notes, more) ==
    LET new   == notes \ seen
        later == {n \in new : n.kind \in Batched}
        now(i) == {Sending(i, rows[i].to, {n}) : n \in Heard(i, new \ later)}
        kept(i) == [to    |-> IF buckets[i] = NoBucket THEN rows[i].to ELSE buckets[i].to,
                    items |-> buckets[i].items \cup Heard(i, later)]
    IN  /\ seen' = seen \cup {n \in new \cup more : n.kind \in Keyed}
        /\ inbox' = inbox \cup {n \in new : n.kind \in InInbox}
        /\ sends' = sends \cup UNION {now(i) : i \in Ids}
        /\ buckets' = [i \in Ids |-> IF Heard(i, later) = {} THEN buckets[i] ELSE kept(i)]
        /\ told' = [i \in Ids |-> [n \in KeyedNotes |->
                       IF n \in Heard(i, new) /\ told[i][n] < 2 THEN told[i][n] + 1
                       ELSE told[i][n]]]

\* The window of a batch ends: one delivery, to the destination it kept.
WindowEnds(id) ==
    /\ buckets[id] # NoBucket
    /\ sends' = sends \cup {Sending(id, buckets[id].to, buckets[id].items)}
    /\ buckets' = [buckets EXCEPT ![id] = NoBucket]
    /\ UNCHANGED <<vapid, storeVars, browserVars, budget, told, undone>>

-----------------------------------------------------------------------------
(* The channel.  The push service accepts what is signed with the key of a *)
(* living subscription, says 403 to another key and 410 to a dead one.     *)

Ended(s) == sends' = sends \ {s}
UnlessSent == UNCHANGED <<vapid, inserted, seen, inbox, buckets, browserVars, budget, told>>

Dropped(id) == rows' = [rows EXCEPT ![id] = NoRow]

SendAnswered(s) ==
    /\ s.to = sub
    /\ Ended(s)
    /\ UNCHANGED <<rows, undone>> /\ UnlessSent

\* 404 or 410: the row goes, whatever its endpoint has become.
SendGone(s) ==
    /\ s.to # sub
    /\ Ended(s)
    /\ Dropped(s.row)
    /\ undone' = (undone \/ rows[s.row].to = sub)
    /\ UnlessSent

\* One retry, of the same subscription, after a pause.
Retried(s) ==
    sends' = IF s.attempt = 1 THEN (sends \ {s}) \cup {[s EXCEPT !.attempt = 2]}
             ELSE sends \ {s}

\* No answer, 429 or 5xx.
SendFails(s) ==
    /\ Retried(s)
    /\ UNCHANGED <<rows, undone>> /\ UnlessSent

-----------------------------------------------------------------------------
(* The pages.  What undoes their work: push is switched off, by the user,  *)
(* another device, the browser or its push service; a request on the way   *)
(* is lost, or its page closed; a delivery that was under way removes the  *)
(* row of the subscription that replaced its own; tabs cross.              *)

Becomes(t, tab) == tabs' = [tabs EXCEPT ![t] = tab]
UnlessPage == UNCHANGED <<vapid, seen, inbox, memoryVars, told>>

\* healOnStart(): the server's key, and the endpoints it knows.
Loads(t) ==
    /\ tabs[t].at = "idle" /\ budget.visits > 0
    /\ Becomes(t, [IdleTab EXCEPT !.at = "loaded", !.key = vapid,
                                  !.known = {rows[i].to : i \in Rows}])
    /\ UNCHANGED <<rows, inserted, sub, budget, undone>> /\ UnlessPage

\* Mutant: a subscription that the server knows is left, whatever its key.
DecidedByEndpoint(t) ==
    IF sub = Nowhere \/ sub \in tabs[t].known THEN Becomes(t, IdleTab) /\ UNCHANGED sub
    ELSE sub' = Nowhere /\ Becomes(t, IdleTab)

\* heal(): what the browser has now, against what the server knew then.
Decided(t) ==
    IF sub = Nowhere \/ (sub.key = tabs[t].key /\ sub \in tabs[t].known)
      THEN Becomes(t, IdleTab) /\ UNCHANGED sub
    ELSE /\ sub' = Nowhere
         /\ Becomes(t, IF sub.key = tabs[t].key THEN IdleTab
                       ELSE [tabs[t] EXCEPT !.at = "resubscribing", !.was = sub])

\* A tab takes for removed what another has registered since, or is registering.
Crosses(t) ==
    /\ sub # Nowhere /\ sub.key = tabs[t].key /\ sub \notin tabs[t].known
    /\ At(sub) # {} \/ \E u \in Tabs : tabs[u].at = "registering" /\ tabs[u].got = sub

HealDecides(t) ==
    /\ tabs[t].at = "loaded"
    /\ Decided(t)
    /\ undone' = (undone \/ Crosses(t))
    /\ UNCHANGED <<rows, inserted, budget>> /\ UnlessPage

\* pushManager.subscribe(): what there is if it has this key, else a rejection.
Subscribes(t) ==
    /\ \/ sub = Nowhere /\ Spends("endpoints")
          /\ sub' = [n |-> budget.endpoints, key |-> tabs[t].key]
       \/ sub # Nowhere /\ UNCHANGED <<sub, budget>>
    /\ Becomes(t, IF sub'.key = tabs[t].key
                     THEN [tabs[t] EXCEPT !.at = "registering", !.got = sub']
                   ELSE IdleTab)
    /\ UNCHANGED <<rows, inserted, undone>> /\ UnlessPage

HealSubscribes(t) == tabs[t].at = "resubscribing" /\ Subscribes(t)

\* enable(), with the key that the page has loaded.
TurnsOn(t) ==
    /\ tabs[t].at = "loaded" /\ budget.clicks > 0
    /\ IF sub = Nowhere
         THEN /\ budget.endpoints > 0
              /\ budget' = [budget EXCEPT !.clicks = @ - 1, !.endpoints = @ - 1]
              /\ sub' = [n |-> budget.endpoints, key |-> tabs[t].key]
       ELSE /\ budget' = [budget EXCEPT !.clicks = @ - 1] /\ UNCHANGED sub
    /\ Becomes(t, IF sub'.key = tabs[t].key
                     THEN [tabs[t] EXCEPT !.at = "registering", !.got = sub']
                   ELSE IdleTab)
    /\ UNCHANGED <<rows, inserted, undone>> /\ UnlessPage

Inserted(endpoint) ==
    /\ inserted < MaxRows /\ inserted' = inserted + 1
    /\ rows' = [rows EXCEPT ![inserted + 1] = [to |-> endpoint, on |-> TRUE, prefs |-> "default"]]

\* upsertWebPush()
Upserted(endpoint, was) ==
    /\ \/ At(endpoint) # {} /\ UNCHANGED <<rows, inserted>>
       \/ /\ At(endpoint) = {}
          /\ \E i \in At(was) : rows' = [rows EXCEPT ![i].to = endpoint]
          /\ UNCHANGED inserted
       \/ At(endpoint) = {} /\ At(was) = {} /\ Inserted(endpoint)

Registers(t) ==
    /\ tabs[t].at = "registering"
    /\ Upserted(tabs[t].got, tabs[t].was)
    /\ Becomes(t, IdleTab)
    /\ UNCHANGED <<sub, budget, undone>> /\ UnlessPage

\* The request is lost, or the tab is closed on the way.
GivesUp(t) ==
    /\ tabs[t].at # "idle" /\ Spends("failures")
    /\ Becomes(t, IdleTab)
    /\ undone' = (undone \/ tabs[t].at # "loaded")
    /\ UNCHANGED <<rows, inserted, sub>> /\ UnlessPage

\* disable(): the browser's row is removed too, if the request arrives.
TurnsOff(t) ==
    /\ tabs[t].at = "loaded" /\ sub # Nowhere /\ Spends("clicks")
    /\ sub' = Nowhere
    /\ Becomes(t, IdleTab)
    /\ (\E i \in At(sub) : Dropped(i)) \/ UNCHANGED rows
    /\ undone' = TRUE
    /\ UNCHANGED inserted /\ UnlessPage

\* Any device edits or removes any row.
Edits(id) ==
    /\ id \in Rows /\ Spends("clicks")
    /\ \/ rows' = [rows EXCEPT ![id].on = ~@] /\ UNCHANGED undone
       \/ rows' = [rows EXCEPT ![id].prefs = IF @ = "own" THEN "default" ELSE "own"]
          /\ UNCHANGED undone
       \/ Dropped(id) /\ undone' = (undone \/ rows[id].to = sub)
    /\ UNCHANGED <<inserted, browserVars>> /\ UnlessPage

\* The browser or its push service drops the subscription.
SubscriptionEnds ==
    /\ sub # Nowhere /\ Spends("failures")
    /\ sub' = Nowhere
    /\ undone' = TRUE
    /\ UNCHANGED <<rows, inserted, tabs>> /\ UnlessPage

-----------------------------------------------------------------------------
\* The backend restarts, with the key pair it had or, the file lost, another.
BackendRestarts ==
    /\ \/ UNCHANGED <<vapid, budget>>
       \/ vapid' = vapid + 1 /\ Spends("keys")
    /\ buckets' = [i \in Ids |-> NoBucket] /\ sends' = {}
    /\ UNCHANGED <<storeVars, browserVars, told, undone>>

\* The browser has notifications on, of every kind.
DeliveryInit ==
    /\ vapid = 1
    /\ budget \in Budgets
    /\ sub = [n |-> budget.endpoints + 1, key |-> 1]
    /\ rows = [i \in Ids |-> IF i = 1 THEN [to |-> sub, on |-> TRUE, prefs |-> "own"]
                             ELSE NoRow]
    /\ inserted = 1
    /\ seen = {} /\ inbox = {}
    /\ buckets = [i \in Ids |-> NoBucket] /\ sends = {}
    /\ tabs = [t \in Tabs |-> IdleTab]
    /\ told = [i \in Ids |-> [n \in KeyedNotes |-> 0]] /\ undone = FALSE

Deliveries ==
    \/ \E i \in Ids : WindowEnds(i)
    \/ \E s \in sends : SendAnswered(s) \/ SendGone(s) \/ SendFails(s)

Pages ==
    \/ \E t \in Tabs :
          \/ Loads(t) \/ HealDecides(t) \/ HealSubscribes(t) \/ Registers(t)
          \/ TurnsOn(t) \/ TurnsOff(t) \/ GivesUp(t)
    \/ \E i \in Ids : Edits(i)
    \/ SubscriptionEnds

=============================================================================
