# Formal models of twitch-miner-control

twitch-miner-control is a Fastify backend, a Preact dashboard and a few Python
helpers around a vendored Twitch points miner, in one container. This directory
holds TLA+ models of the parts of it where order, time and failure matter, the
TLC configurations that check them on small instances, and proofs, checked by
TLAPS, of what must hold for every instance.

`PROJECT.json` says for every definition which lines of the repository it
stands for, for every property which mutation of the code would break it, and
for every hazard which property watches it.

    tlc -workers 2 -config Supervisor.cfg CrashLoop      # model-check
    tlapm SupervisorProofs.tla                           # check the proofs

## 1. Inventory

Everything in the backend runs on one Node event loop. There are no threads,
but every `await` is a point where anything else may run, and the processes it
controls (the miner, three kinds of Python helper), the browser, Twitch and the
tracker of campaigns are concurrent with it. Paths are relative to
`apps/backend/src` unless they start with `python/` or `frontend/` (which is
`apps/frontend/src`).

| Component | State it keeps | Operations | What makes it correct |
|---|---|---|---|
| **Supervisor** `miner/supervisor.ts` | state, child, generation, crash times, the promise lock, the backoff sleepers | start, stop, restart, shutdown; the child's spawn, error and exit; respawn after a crash | never two miners; the state it reports is true; a stop is final; respawns are bounded; nothing holds the lock for ever |
| **Launcher** `python/run.py`, `python/miner_config.py` with `config/store.ts`, `config/schema.ts`, `state/roster.ts`, `state/dropsEligible.ts` | config.json, the miner's roster, modes, pools and slots | load, validate and save in two spellings; build the miner from the file | what is saved can be launched; the miner mines what the cards say |
| **Drops engine** `drops/engine.ts` with `reconcile`, `resolution`, `queue`, `follow`, `rebase` | `scheduled`, `activeInQueue`, `progress`, `stalled`; the subscriptions and channels of config.json | boot pass, timer pass, pass after an edit | a pass undoes nothing saved meanwhile, empties no pool it could not look up, and comes to rest; the queue collects one campaign at a time |
| **Campaign source and catalogue** `state/campaignSource.ts`, `campaignCatalogue.ts` | campaigns with an age, a copy on disk | sweep, get: cached, fetched, or stale after a failure | a sweep is complete or fails; a failure is never read as "no campaigns" |
| **Drop progress** `state/inventory.ts`, `dropState.ts`, `dropClaims.ts`, `campaignRecorder.ts` | what was earned, in two halves; claims; snapshots of campaigns | get, refresh, record, announce | nothing is called done that is not; progress does not go back; a claim is news once |
| **Drop badges** `state/drops.ts` | each channel's next drop with an age | resolve, observe, forget | a badge is not wrong for longer than an answer is held |
| **Pending restart** `drops/pendingRestart.ts` | the proposal with its deadline, one timeout | propose (renews, but keeps the first deadline), cancel, fire now, fire | fires once, at its deadline, unless vetoed; cannot be put off for ever |
| **Restart notifications** `notify/sources/restart.ts`, `notify/actions.ts` | tokens that expire, the notification's tag | announce, redeem, follow up | a token cancels the restart it was minted for; whoever was told of a restart hears its outcome |
| **Notifications** `notify/notifier.ts`, `batcher.ts`, `store.ts`, `routes.ts`, `channels/webPush.ts`, `sources/`, `frontend/lib/push.ts` | destinations, preferences, dedupe keys, batches waiting, the browser's subscription | publish, flush, retry, heal, prune | a notification is neither repeated nor lost to a filter; browser and server come to agree |
| **Helper client** `helpers/ndjsonClient.ts` | child, requests pending, stopped | request, restart, stop; a line, an exit, a timeout | every request settles, with its own answer or a reason; an ended helper is gone |
| **State helper** `python/helpers/state.py`, `_session.py` | a token read from the cookie file | one request at a time, in batches, answered in order | one channel's failure costs no other; a working session is not called dead |
| **Login** `helpers/loginRunner.ts`, `loginStatus.ts`, `python/helpers/login.py` | the attempt in flight, whether the session works | begin, cancel, a line, the exit; sign-out | one attempt at a time; helper and miner end up with the configured account |
| **State service** `state/service.ts` | the cards, in-flight, dirty and debounce flags, error epoch, event times | poll, ring, refresh now, idle and visible polling, stop | a refresh asked for happens; what is shown is not older than what was shown |
| **Doorbell** `python/helpers/doorbell.py` and its route | a bounded queue in the miner, the watch slots | enqueue (drops when full), post, apply | losing an event loses only freshness |
| **Profiles, gift subs** `state/profiles.ts`, `giftSubs.ts` | answers with an age | resolve, refresh | every channel's turn comes, which it does not with many live (section 5); list and cards agree |
| **History and Insights** `db/history.ts`, `db/dailyPoints.ts`, `insights/`, `state/spans.ts`, `gains.ts` | snapshots, stream sessions, mining sessions, days | recordPoints, open and close, heartbeat, recovery, rollup, prune; the figures read from them | one session open per channel; a gap in the evidence is not counted as time; all pages say the same of one past |
| **Event hub and live page** `http/sse.ts`, `frontend/api/useLiveState.ts`, `app.tsx` | connected clients; one stream, its timers | connect, broadcast, retry, probe, lock | a page has one connection, is current, and comes back by itself |
| **Logs** `miner/logBuffer.ts`, `appLog/`, `frontend/lib/useLiveLog.ts` | a ring with a total; a file with one older generation | push, rotate, load and merge | no line is missing or doubled; recent events are on disk |
| **Dashboard auth** `http/auth.ts`, `http/loginLimiter.ts` | sessions and failures with expiry times | login, check, logout, limit | wrong guesses are rationed; a session lasts no longer than its day |
| **Drops page** `frontend/routes/Drops.tsx`, `components/CampaignCard.tsx`, `FollowGamesDialog.tsx` with the routes of `http/server.ts` | rows drawn before they are saved, a payload of some age, picks | mutations, drags, search, follow | at rest it shows what the server has; order, badge and history agree |
| **Settings and Streamers pages** `frontend/routes/` | a draft of the whole config; the staged one | edit, drag, add, apply | what is shown as saved was saved; no row is lost |
| **Boot and shutdown** `index.ts` | the wiring | boot pass with a budget, start, signal handler | the miner starts although the boot pass hangs |

How they interact:

    browser --routes--> HTTP server --load/save--> config.json <--load/save-- drops engine
                             |                         ^                          |
                             |                         | read once, at start      | propose
                             v                         |                          v
                        supervisor --fork/kill--> miner (python/run.py)     pending restart
                             ^                         |                          |
                             +------------- restart() -|--------------------------+--> notifier --> devices
                                                       | doorbell (POST)          |
                                                       v                          |
      Twitch <-- state helper <--NDJSON-- state service --> history         Cancel token
                 (drops helper, login helper)     \--> event hub --> browser

The behaviour that is hard to get right, and hard to test:

* **a copy of shared state held across an await**: a pass holds config.json for
  seconds, the subscribe route too, a page holds a whole draft of it for minutes, a
  poll holds a question whose answer an event overtakes, `fire()` holds a proposal
  while `restart()` runs;
* **two operations that overlap**: passes, restarts, stops and respawns, sign-in
  and sign-out, tabs that heal one subscription;
* **late arrivals**: the exit of a child that has been replaced, a helper's
  answer to a request that timed out, the boot pass after its budget, a tap on
  an old notification, a search that was typed over;
* **loss and restart**: a doorbell event dropped, a stream cut, a lookup that
  fails, a save that throws, a backend killed with sessions open;
* **several computations of one thing**: the cards, the dialog, the chart and
  Insights each read the same past; two languages read the same settings;
* **things that must end**: a miner or helper that ignores SIGTERM while a lock
  is held, a proposal renewed on every pass, two pools that trade a channel.

## 2. Modules

| Module | Models | Composes |
|---|---|---|
| `Supervisor` | the class `MinerSupervisor` with its child processes | - |
| `MinerLifecycle` | what its consumers may rely on: an abstract life cycle | implemented by `Supervisor` |
| `CrashLoop` | a history variable for the rate of respawns | `Supervisor` |
| `Launch` | config.json read and written in two languages, the miner's roster and slots, what the cards make of the same file | launcher, config store, roster |
| `WatchList`, `Pools`, `DropsEngine`, `DropsSettle` | the config the engine maintains and what must hold of it; the pure decisions; passes, routes, the miner's starts; a history variable for "the world is at rest" | the supervisor and the pending restart as one bit each |
| `PendingRestart` | deferral, notifications, Cancel tokens, overlapping `restart()` calls | notifier and token store |
| `SignIn`, `SignOut` | the login runner and its process, the routes that sign in, sign out and apply; a history variable for "the user has signed out" | supervisor as a queue of operations, pending restart as a bit |
| `HelperClient`, `StateHelper` | the client, its process and the pipe; a request inside the helper | client and helper |
| `Refresh` | polls, cards, errors and frames; sign-in and sign-out as they see them | login status, event hub, `recycleHelper` |
| `Sessions` | balances and stream sessions of one channel under polls, events and kills | doorbell, poll, history, Twitch |
| `Doorbell` | the watch slots and verdicts from the miner to the cards | handler, route, cards |
| `Badges`, `Profiles`, `GiftSubs` | the three caches behind a card | state service, helper |
| `Ledger`, `Readings` | the recorded past, its rollup and prune; every figure read from it | `Readings` extends `Ledger` |
| `Sweep`, `DropProgress` | the tracker's sweep; inventory, catalogue, drop status, recorder, claims | helper, tracker |
| `Delivery`, `Sources` | destinations, keys, batches, pushes, tabs that heal; what publishes | `Sources` extends `Delivery` |
| `LivePage`, `LogFeed`, `AppLog`, `Access` | a tab's connection and gate; a log page; the event log's file; sessions and limiter | event hub, auth |
| `DropsPage`, `FollowDialog`, `CampaignGrid`, `DraftPages` | the pages that change something or draw what others computed | the routes they call |
| `MCDrops`, `MCLinks`, `MCRecords`, `MCPages`, `MCSources` | instances for TLC | see below |
| `BrowserProofs` | theorems about `Sources` (with `Delivery`), `LivePage`, `Access` and `DropsPage` | |
| `HelperClientProofs` | theorems about `HelperClient`, and about two that ask through it, `Sweep` and `Badges` | |
| `DropsProofs` | theorems about `DropsEngine` and `DropsSettle` (with `Pools` and `WatchList`) | |
| `PendingRestartProofs` | theorems about `PendingRestart` and `Doorbell` | |
| `SignInProofs` | theorems about `SignIn`, `GiftSubs`, `LogFeed`, `AppLog` and `FollowDialog` | |
| `SessionsProofs` | theorems about `Sessions` and `StateHelper` | |
| the other `*Proofs` | theorems about the module of that name; `SupervisorProofs` about `CrashLoop` as well | |

**Several components in one run.** `MCDrops`, `MCLinks`, `MCRecords` and `MCPages` put
components that share no state into one run. Those a theorem is about (`DropsSettle`; `HelperClient`,
`Sessions`, `LivePage`; `Sweep`, `Badges`; `Access`, `Doorbell`, `StateHelper`, `LogFeed`, `AppLog`,
`GiftSubs`, `FollowDialog`, `DropsPage`) they extend, so that the theorem's property and the run's are
one; the others they instantiate. A behaviour is one of one component: `part` (`link` in `MCLinks`) says
of which, `Only` keeps the others where they began, and the others have one beginning. The number of
states is therefore the sum and not the product, and what is checked of a component is what would be
checked of it alone. Where the component is an instance, the property of the run says of it, in its
part, what its module states: `MinerIsAsConfigured` is `LaunchedAsConfigured`, `GridIsTrue`
is `GridIsHonest`, `DraftsAreKept` is `DraftsAreSafe`, and `StoreFollows` is `StoreCatchesUp`.

### Supervisor

One action per handler. `Start`, `Stop`, `Restart` and `Shutdown` are the calls;
they queue an operation. `BeginStart`, `BeginStop`, `BeginRestart` and
`BeginRespawn` are an operation that gets the lock and runs to its first await;
`Spawned`, `Settle`, `SpawnError`, `Terminated` and `Escalate` resume it.
`ProcessExit(p)` is a process that ends, of itself or killed, and everything
`handleExit` then does: count the crash, evict old ones, announce RESTARTING and
go to sleep. `Wake` ends a backoff sleep. `procs` is what the operating system
runs; `child` is what the class believes. A free lock goes to its next waiter
before anything else happens, as a microtask does (`EventTurn`). Time is kept as
ages and countdowns in ticks, so there is no clock to bound; the stop grace and
the settle window are untimed, their timers may fire at any moment.
`onMinerStarted` and `onMinerStopped` are `miningSession`.

### Launch

`LoadConfig` and `SaveConfig` are the zod schemas with their renames, `Refused` and the
operators up to `Selections` are `miner_config.py`, `DropsMode` and `ResolveRoster` the
backend's idea of the same. Settings are functions from keys to values: `claim_drops`,
whose value decides something, and `bet`, whose keys show the nested rename. `Launches`
reads the file, `Rewrites` and `Edits` write it, `Selects` is `DropSlotSelector` on any
choice of the miner's.

### Drops engine

`Pools` translates `reconcile`, `resolution`, `queue`, `follow` and `rebase` as
operators on subscriptions and rows. A filter of the code is the places of a sequence it
keeps (`KeptAt`), and a list it builds is what is sorted into it (`Listing`): the order is
that of the code, and no operator recurses. A pass in `DropsEngine` is `Begin*` (load
the config), `Decide` (catalogue and progress have answered) and `Commit` (the
directory has answered for each subscription: resolve, rebase on the config as it
is *now*, save, propose). Routes are one action each; the subscribe request,
which awaits the catalogue between its load and its save, is two. `watched` is
the roster the miner read at its last start, so the miner's config and the
config on disk are two different things, as they are in the program. A save that
throws is a possible outcome of a commit. The catalogue is a file of an earlier process
or there is none (`NoCatalogue`), and then it stays unavailable until a sweep succeeds; a failed
sweep keeps what there was. A pass that looks for a channel's campaign in vain, because the catalogue
does not have it, is unavailable, or the directory's lookup failed, must keep its
channels (`BlindPassKeepsPools`). Two history variables excuse a miner that is left behind in
`MinerIsNotLeftBehind`: `waived`, the user's own doing (a cancelled restart, released channels, a
start that did not wait for the boot pass), and `overwritten`, a defect of the code: the
subscribe route saved the config it had read before its await (`http/server.ts:813`), and
with it an older watch list, for which nothing proposes a restart. Both end with the miner's next start.
The supervisor is `MinerStarts`, `MinerStops` and `RestartFires`, the pending
restart one bit: their own modules have the detail.

### Pending restart

`Propose` (which renews a proposal inside its deadline), `CancelOnDashboard`,
`Redeem` (a tap on Cancel), `FireNow` and `TimerFires` are the operations of the
class and of the routes that call it. `FireNow` restarts the miner with nothing pending as well, as
after a veto the page has not heard of: a restart that only the button explains. `RestartEnds` is the `restart()` of `fire()`
returning or throwing, `Prefer` a device whose preferences change. `armed` holds
every timeout that is still set with the time left on it, so a timeout that should have
been cleared is visible; `firing` holds the proposals whose `restart()`
has not returned. A token is the proposal it was minted for, told from others by
`dueAt` alone: two proposals never share a millisecond (`DistinctDeadline`),
which `notify/actions.ts:3-7` relies on. A backend restart forgets the proposal
and keeps what is in the database.

### Sign-in and sign-out

An attempt is a process (`process[a]`, where it is and which signal it was sent), its
lines and its exit as Node delivers them, which may be in another order, and the
runner's `child` and `current`. `login.py` is a step per await: ask for a code, poll,
validate, write the cookies. The supervisor is the queue `ops`, each operation one step
when it ends; `helper` and `miner` are the accounts they were started with. A sign-out
and an apply are two steps, before and after their await. `SignOut` adds `out`, how far the last
thing the user asked for is, if it is a sign-out; a pending restart that fires is not asked for.

### Helpers

`HelperClient`: `Request` writes a line to `child`; `HelperAnswers` is the helper's
loop, one line at a time and in order; `LineArrives`, `ExitArrives` and
`SpawnErrorArrives` are the events as Node delivers them, later than they happened.
`Timeout` and `WriteFails` settle a request without the helper. `Terminate` is
`killChild()` called by `restart()` or `stop()`, `GraceExpires` its SIGKILL. `Garbled`
are the requests whose answer carries no id.

`StateHelper` takes one request apart: each call to Twitch is a step, a batch that
cannot be parsed is asked item by item, a 401 is classified by whether the cookie file
still holds a session, and a token is read again when the file has changed. The file is
written, deleted and its token revoked between any two calls.

### Refresh

When polls happen and what is shown. A poll is `Ask` (the roster is there),
`HelperReplies`, and one of `IdleAnswer` (nobody watches), `Answer` with `Derive`,
`Fails` and `FailsUnnoticed`; `phase` says what it waits for and `Settle` is the
`finally` that starts the next one. `Tick`, `DebounceFires`, `Recycled`, `Connects` and
`Loads` ask for polls. One channel stands for the roster: `truth` counts how often its
balance and how often the rest of it changed, an event tells of each change, `cards` is
what the service holds of it and `frame` what each page shows. `MayAnswer` lets a poll
answer with anything between the state at the question and now, fail, or be turned away;
`session` is the stored Twitch session and `helper` the one the state helper has loaded.
`SignIn` is the handler of the login runner's "ok", `SignOut` and `Apply` the two routes,
each with the recycling it starts: from there to `Recycled` the old helper answers
nothing. Their stop or restart of the miner changes only which events come, and any may.
A roster that cannot be read makes a poll reject outside its `try`: the process
ends (`RosterFails`) unless every caller swallows that (`RosterLapses`).

### Sessions

One channel. Twitch goes live and offline and changes the balance; a change is
heard by the miner or missed (`BalanceChanges(heard)`). A heard one waits in the
doorbell's queue (`BellRoom` places, a full queue drops it) until `Ring` or
`PostFails`. A poll is `Ask`, `LookUp` (Twitch's answer as of that moment),
`LookUpFails` (a row without a stream or balance), `PollFails`, and `Apply`, which
is the writing half of `doRefresh` in its order: record the balance unless an
event overtook the question, open the session, close the others. `Killed` and
`Boot` lose the memory and the miner's queue and keep the database.

### What is on a card

`Doorbell`: `truth` is what the miner watches, `queue` and `wire` carry what its handler
announced, `watchSlots`, `verdict` and `gain` are what the backend keeps of it, `cards`
the frame drawn of that by an event, a poll or, before the first poll, from the record
(`Paints`). The handler sends the whole set with every change. Posts fail, the miner
ends and starts, a gain and a verdict age.

`Badges`, `Profiles` and `GiftSubs` are a cache each with its request under way, what
moves or forgets an entry meanwhile, and what is drawn. A pass of Profiles asks for the first
`PerPass` stale channels, always from the same end of the roster.

### The past

`Ledger` keeps the tables: samples of each channel's balance, stream sessions, miner
sessions with a heartbeat, and the days rolled up from the samples. `Poll`, `IdleTick`,
`MinerStarts`, `MinerStops`, `Killed`, `Boot` and `Housekeeping` (rollup, then prune) write
them; beside them the history variables `ever`, `mined` and `aired` keep what really happened to
the points, to the miner and to the streams.
`Readings` adds what is read, each figure as the code computes it: a card's gains, the
dialog's chart, table, strip and schedule, the recap. Its properties say that figures
computed in different ways agree.

`DropProgress` follows one campaign: the two halves of the helper's inventory request,
inventory and catalogue with their ages and failures, the page's and the recorder's
reads, the stored claims and their announcements. `Sweep` reads the tracker's pages,
each of an age of its own, with two workers.

### Notifications

`Delivery` has the rows, the keys, the inbox, the batches and the sends with their retry, and
per tab the steps of `heal()` and `enable()`; an endpoint carries the server key it was
made for. `Sources` publishes: campaigns and their first run, digests, crashes and error
reports by part, streams. A pass over the campaigns writes its own key, and then comes to some or
all of them: a throw or a kill between ends it, and what a first pass had not come to is `unmarked`.
`undone` is the history of what keeps push off: the user, or a lost registration.
`Prune` drops what is older than 90 days.

### The browser

`LivePage` is one tab: the gate, EventSources (`Retries` after a transport failure,
`Refused` for good by an HTTP error), the grace and reconnect timers, the auth probe, and the
loads that race the frames. `LogFeed` merges a loaded ring with the frames that came
meanwhile (`Upon`, `Merged`), over cuts and a restart of the backend; `due` is what it has been
told of, and `letGo` says that a load dropped a frame that had waited for it. `AppLog` rotates and
rereads the event log around torn lines. `Access` counts wrong passwords per address and
ends sessions.

`DropsPage` takes every call apart into request, handling, reply and the reads that
follow, with drags drawn first and changes elsewhere. Three history variables say what excuses
a page for not being current: `behind` is what it has had no chance to learn (a lost read, a
change elsewhere, the order a pass made beyond a drag, `Unread`), `unsaved` the pool-size boxes whose
number no list has shown since it was typed, `miscounted` that a follow that nothing disturbed
was said to have added another number of subscriptions than it did.
`FollowDialog` has words, settling, answers of searches that may be superseded, picks over
several searches and the route's lookups. `CampaignGrid` has no concurrency but three
ages: of the payload, of the order and of the drawing. `DraftPages` is two tabs that edit
copies of the whole config; `held`, `confirmed` and `excused` are history.

## 3. Runs

| Run | Configuration | Shows |
|---|---|---|
| `supervisor` | `Supervisor.cfg` on `CrashLoop` | one miner whose state is told truly and whom no respawn revives unasked (`OneWantedMiner`), a bounded rate of respawns, no operation that hangs, and that the class implements `MinerLifecycle` |
| `drops` | `Drops.cfg` on `MCDrops` | passes that overlap the routes and each other, one pass at a time in a changing and failing world, and the watch list at rest |
| `pending_restart` | `PendingRestart.cfg` | at most one due restart per proposal and none that was vetoed, tokens are not mistaken, outcomes are told, every proposal resolves |
| `sign_in` | `SignIn.cfg` | one login helper at a time, helper and miner end up with the configured account, cancelled attempts end |
| `links` | `Links.cfg` on `MCLinks` | every helper request settles with its own answer or a reason, ended helpers are gone, restart() and stop() return; sessions and balances stay consistent under loss and crash and end up true; a tab has one connection, shows the status there is, and comes back by itself or locks |
| `refresh` | `Refresh.cfg` | overtaken cards are on their way to be replaced and whoever connects gets cards (`CardsAreRenewed`), a session that works stays signed in |
| `records` | `Records.cfg` on `MCRecords` | points, uptime and streams on record are true, but for what `StreamsAreTrue` allows, and read alike everywhere; progress is not made up, badges catch up, sweeps are complete |
| `notify` | `Sources.cfg` on `MCSources` | what happened once rings once, batches and deliveries end, push comes back after a change of keys |
| `pages` | `Pages.cfg` on `MCPages` | eleven components: replies, launches, logs, access, Drops page, dialog, grid, drafts, watch slots, gifts |
| `sign_out_undone` | `SignOut.cfg` | the code does not keep what the sign-out dialog says: section 5 |
| `log_gap` | `LogGap.cfg` on `LogFeed` | a load can leave the gap that a comment rules out: section 5 |
| `profiles` | `Profiles.cfg` | with many channels live the last are never looked up: section 5 |

### Bounds, and why they are enough

* **supervisor**: one tolerated crash per window and a window longer than both
  delays, so that the cap is reached, evicted and reached again; two waiting
  operations, so that a stop and a start both wait behind a restart; six
  generations: a first start, a crash and its respawn, an operator's restart that clears the crash
  history, and a second history after it, all within one window, so that the rate is
  measured across that restart. Requests and crashes stop at the last generation;
  everything in flight then still finishes.
* **drops**, `Overlap`: two slots because an interleaving of two passes that goes
  wrong needs no third; one edit of the user during them, since the passes and
  the boot are the other writers; two campaigns and three channels give a channel
  that both want, one of each, and a manual one. The directory answers nothing or
  two live channels, so pools shrink and grow between the passes. `MaxId` = 5 is
  larger than the number of ids these can use up. `World`: one slot, one event and
  one edit (those that the other two do not already meet with). Any pass may find the catalogue
  cached, fetched or failed, from the start on with none on file, the directory's lookup of the first campaign
  failed and the progress unread; that pools stall is left to the world at rest, where they are read. Of
  the campaigns the first may still be to open; passes are unbounded, the timer keeps firing. At rest, with the constants of the cfg: two subscriptions that collide with pools of two on four
  channels, of which `CheckLimit` lets only two be read, and a pool that may stall; it and `World` ask for pools of two only, since a request for
  a smaller one meets the passes in `Overlap`. `Settled` = 2 is what the property claims, not a bound.
* **pending_restart**: three proposals, so that a token outlives its proposal and
  meets the next but one while the last restart still runs; a long and a short
  deferral, so that renewals race the first deadline. One device and one reason: devices do not
  affect each other, a reason is only repeated in what is sent, and the proofs hold for any set of both.
* **sign_in**: two attempts, so that a second begins while the first's helper dies or
  its events are out, and one operation beside the one that runs. One name beside
  "no account yet": the other accounts are those an attempt brings; the proofs hold for
  any set.
* **links**: three requests (one times out, one answers late, one
  follows), three helpers and two restarts racing one stop, one answer without id; two streams, so that
  one ends and another begins between two polls, two changes of the balance, one overtaking the other, three
  instants, one kill, one failure, a queue with one place (where a failed lookup is
  allowed a lost one is a case of it); two EventSources at a time, three pieces of news, two faults, two probes.
* **refresh**: two changes of the channel, so that one overtakes a poll and another
  its follow-up; one sign-in, so that a poll from before it is answered after; any
  number of ticks, polls, failures, sign-outs, applies, page loads and kills. One
  browser: what a second adds is a hub that is not empty, which only means fewer
  polls asked for on its behalf, and the proofs hold for any set.
* **records**: the past has two channels, days of two moments, a retention of one day and
  three days, so that a day is open, rolled up and pruned; the budgets give
  behaviours about points, about uptime with a kill, about streams, also with a kill, and pairs of them;
  the pairs that need no third day stop before it. The ladder has two drops and one behind a subscription, over one kill or three
  minutes. Badges have a ttl of one minute over
  three and drops of two minutes, so that a drop is begun, nearly done and claimable. The tracker has two games that
  share a campaign, two workers and pages up to one hour old.
* **notify**: five mixes. Busy pages (two tabs, a key replaced, requests lost), the same with one event and its
  push, which fails or crosses a click; busy sources (two events, two faults, two half days); or a
  time long enough for a prune. Four rows are ever inserted: a browser, a key replaced and two tabs ask for no more.
* **pages**: each instance's bounds stand with a comment in `MCPages`; they are chosen so
  that two actors meet with one failure: a batch of three with two that fail; two runs
  of the backend and two cuts of a stream; wrong passwords from two addresses around a lockout;
  two calls of a page or one with an event elsewhere and a
  lost message; two tabs with a row of the engine's between two of the user's; three
  changes of the watch slots with two lost; four gifts, one of no channel; two
  queries with more matches than are shown. The grid's moves of the clock come in two
  mixes, since what ages and what is edited do not meet twice.
* **log_gap**, **profiles**: what their counterexamples need, two lines in the ring and one cut; four live channels of which
  each pass looks up one and that are stale again after two.

The budgets of `records` and `notify`, and some in `pages`, are sets: a behaviour has one of several mixes of
how much of each thing may happen, so that each pair of causes meets without all of
them at once.

Deadlock is checked for the supervisor, the drops, `Refresh` and the notifications.
The others come to rest once their budgets are used up, as the program does when
nobody asks anything of it.

### Fairness, and what justifies it

* **Supervisor**: the lock's waiter runs (a microtask), timers fire (`Settle`,
  `Escalate`, `Wake`, `Tick`), a fork reports `spawn` or `error`, and a process
  that was sent SIGKILL exits. A process that was sent SIGTERM owes nothing.
* **Pending restart**: time passes, due timeouts run, and `restart()` returns, which is
  part of what `NothingHangs` shows of the supervisor.
* **Sign-in**: Node delivers exits and spawn errors and runs timers, the kernel kills, the
  supervisor's operations end. A login helper owes nothing, nor does Twitch.
* **Helper client**: Node delivers exits and runs timers. The helper owes nothing,
  neither an answer nor obedience to SIGTERM.
* **Sessions**: the interval keeps asking, a question is answered or times out,
  the doorbell's worker keeps posting, the container is started again.
* **Notifications**: a batch's timer fires; a push is answered or times out; a page that healing has begun in
  goes on, and the app is opened again.
* **Live page**: timers fire, requests and connections are answered, an outage ends.
* **Profiles**: a pass runs every minute and its lookup is answered.

Fairness is asked of steps of one kind together (the exits and spawn errors of the helpers, the two
timers of a page, the stages of a poll): that some one of those that can happen does, not which.

Everything else is safety alone. "Ends up" there is said of the states in which
nothing is under way any more, or with a bound on how long a thing may be wrong.

## 4. Proofs

Each `*Proofs` module states an inductive invariant `IInv`, proves it of the
initial states and of each action, and derives the theorems from it. No bound
on queues, generations, proposals, attempts, requests, clocks or failures is used
beyond its being a number.

| Module | Inductive invariant | Theorems (property) |
|---|---|---|
| `SupervisorProofs` | `TypeOK`, `CoreInv`, `BackoffInv`, `RespawnInv`; `RateInv`, `WindowInv` | `TypeCorrect`, `MinerIsInHand` (`OneWantedMiner`) from `AtMostOneMiner`, `ReportIsTrue`, `BackoffIsSafe` and `ShutdownIsFinal`, `BothGuardsHold` (`StopCancelsBackoff`, which no run repeats), `Refinement` (`ImplementsLifecycle`), `RateIsBounded` (`RespawnRateIsBounded`) |
| `PendingRestartProofs` | `TypeOK`, `ArmedInv`, `OutcomeInv`, `TokenInv`, `TaggedInv`; `BellTypes`, `SlotsInv`, `TruthInv`, `EndInv` | `TypeCorrect`, `WantedRestartsOnly` (`RestartsAreWanted`) from `NoStaleTimeout` and `VetoHolds`, `NotificationsAreFaithful` (`TokensKnowTheirRestart`) from `TokensAreNotMistaken` and `OutcomesAreTold`; `WatchingStaysTold` (`WatchingIsTold`) |
| `HelperClientProofs` | `ClientTypeOK`, `ProcInv`, `IdInv`, `LineInv`, `CallInv` and the properties; `SweepInv`; `BadgeInv` | `TypeCorrect`, `RequestsMeetTheirEnd` (`RequestsAreKept`) from `NoRequestIsLost`, `AnswersReachTheirRequest` and `EndedHelpersAreGone`; `SweepStaysComplete` (`SweepIsComplete`); `BadgesCatchUp` (`BadgeCatchesUp`) |
| `SignInProofs` | `TypeOK`, `NameInv`, `OneAttempt`, `AccountsAgree`; `GiftInv`; `FeedInv`; `EventsInv`; `SearchInv`, `FollowInv` | `TypeCorrect`, `SignInHolds` (`SignInAgrees`) from `OneAttemptAtATime` and `AccountsFollow`; `GiftsStayShown` (`GiftsAreShown`); `LogStaysWhole` (`LogIsWhole`); `EventsStayOnDisk` (`RecentEventsAreOnDisk`); `FollowsStayHonest` (`FollowsAreHonest`) |
| `SessionsProofs` | `TypeOK`, `StreamInv`, `BalanceInv` and two properties; `HelperInv` | `TypeCorrect`, `SessionsAreOfStreams` (`SessionsMatchStreams`) from `StreamsAreReportedOnce` and `AtMostOneSessionIsOpen`, `RecordIsFinal` (`RecordStays`) from `PollsKeepTheNewestBalance` and `RecordedSessionsStay`; `RepliesStayFair` (`RepliesAreFair`) |
| `RefreshProofs` | `TypeOK`, `DownInv`, `EpochInv`, `AuthInv`, `OvertakenInv` and two properties | `TypeCorrect`, `CardsComeAnew` (`CardsAreRenewed`, which is `CardsFollowEvents` and `ClientsAreServed`), `SignInHolds` (`WorkingSessionStays`) |
| `DropsProofs` | `Inv`: `ConfigsAreGood`, `WorldIsTyped`, `PassesAreGood`, `NewIdsAreNew`; `Follows`; `CalmInv` | `TypesHold`, `ConfigStaysSound` (`ConfigIsSound`), `MinerFollows` (`MinerIsNotLeftBehind`), `PassesUndoNothing` and `BlindPassesKeepPools` (together what `PassesKeepConfig` says of the run's instances), `QueueStaysMoving` (`QueueMovesOn`) |
| `BrowserProofs` | `RowsInv`, `ToldInv`, `DigestInv`; `PageInv`; `LimiterInv`, `SessionInv`; `PanelIInv` | `EverythingRingsOnce` (`RingsOnce`), `PageStaysCurrent` (`PageIsCurrent`), `AccessStaysKept` (`AccessIsKept`), `PanelIsTyped`, `QuietPageStaysCurrent` (`QuietPageIsCurrent`) |

Why the strengthenings are needed:

* **Supervisor.** `OneMiner` alone says nothing about what the lock's holder will
  do when it resumes. `CoreInv` ties each value of `lock` to the child, the
  processes alive and the state reported: a holder that waits for an exit waits
  for `child`, and a free lock means the state is settled. `BackoffInv` says a sleeper
  or a queued respawn of the current generation finds RESTARTING and no process;
  `RespawnInv` bounds the generations they carry. The refinement needs all three:
  each step of the class is a step of `MinerLifecycle` or leaves its variables alone.
* **The rate of respawns.** All respawns of the last window are kept, those before an operator's restart() too,
  and of each how many such restarts have cleared the crash history since (`clearsSince`). That of any
  `MaxRestarts` + 2 of them a clearing came between the first and the last says nothing
  of the crashes the cap counts. `RateInv` pairs the respawns since the last clearing
  with them: every one but the newest was followed by a crash that is at most as old and still counted
  (`Followed`), and while one is on its way (asleep with the current generation, or queued)
  the cap has room. What leaves the window leaves all these sequences from their old end
  (`WindowKeepsTheEnd`), so the pairing survives a tick. `WindowInv` puts the two together: the respawns
  since the last clearing are the newest of the window, and all before have been cleared.
* **Pending restart.** What restarts the miner is a timeout or "now" (`AsksForRestart`), and "now" alone does
  so with nothing pending. `ArmedInv` says the only timeout set is that of the pending
  proposal and runs out at its deadline, which no single operation shows.
  `OutcomeInv` keeps a proposal that was vetoed, forced or fired from being
  any of the others. `TokenInv` and `TaggedInv` relate tokens and the tag "restart"
  to the proposals they came from. The one assumption about the world is
  `DistinctDeadline`.
* **Doorbell.** What the cards say when nothing is on its way depends on the order in which
  it arrived. `SlotsInv` says the handler's copy is the miner's set, that of this run's
  changes in the queue and on the wire the newer comes later (`ChangesAreInOrder`) and only
  the newest has the slots (`NewestHasTheSlots`), that a post still out from an earlier run is
  told apart from it (`RunsAreKnown`), and that a newest change which was not lost is on its way or is
  told with nothing behind it that could undo it (`SentIsTold`). `TruthInv` dates what is on record: a verdict is no
  newer than the last time it was so, hence one within the trust was so within the
  trust; that every event is delivered or lost within its minute is used here. `EndInv` has a
  running miner be heard of. `DoorbellAssumption` asks for a finite roster and that the
  endpoint takes sets as large as a miner's slots (2, against `DOORBELL_WATCHING_MAX` of 16).
* **Helper client.** `AnswersAreOwn` needs the pipe: `LineInv` says which requests the lines
  in `inbox` and `outbox` can stand for, `IdInv` that ids are not reused, and
  `ProcInv` that only the child's lines are read.
* **Sign-in.** An account is written by whichever attempt ends, so `NameInv` follows the
  name from the click through the process to the line it ends with; `AccountsAgree` is
  inductive only together with it, since a helper or a miner of another account must be
  on its way out in every state between.
* **Gift subs.** That a card shows each gift when nothing is under way depends on what the last fetch
  read. `FetchesOwe` says that an answer which has been read, and is not applied yet, has every gift
  whose event started a fetch of its own (`owed`) and that has not ended. A gift rung for while a
  fetch was out shares that fetch, owes nothing, and is outside the theorem.
* **Log page.** A page is put together from an answer and the frames that came while it
  loaded, and what the two share is told by counting. `FramesAreChunks` says that each frame
  on the wire is the last lines of this run up to a total the buffer has reached,
  `EarlyAreChunks` the same of those held back, `FramesAreNew` that a frame's lines are past all the page
  was told of (`due`), and `PagesAreWhole` that `due` is reached by the answer or by a frame that waits for it. What
  is put upon the answer then leaves no gap, unless a waiting frame has to be dropped because one before it was
  lost (`letGo`, the run `log_gap`); any frame that comes after that starts another load.
  All is said of a mount that has not outlived a run of the backend, as the property is.
* **App event log.** Events are in the file in lines, and the sink rotates by bytes.
  `FileHasNewest` says the file has as many of the newest events as it has lines, or as the sink has
  counted bytes; `FilesHaveRecent` that the two files together have a file's worth;
  `HalfIsLast` that half a line is at the end only and is a torn event's, and `LostIn` that of each file
  only torn events and the ones appended to them are lost.
* **Following games.** `SearchInv` says that a search that will be heeded is of the words that
  have settled. `FollowInv` says that the dialog has one call out at a time, and that of the games it
  is for, each that Twitch knows has been found, is followed, or has been unfollowed since.
* **Sessions.** A poll carries an answer about the past; `StreamInv` says how a
  stream an answer names relates to the streams begun since and to the rows, so
  that an old answer neither reopens nor reports a stream twice.
* **State helper.** What a reply must have is decided many calls before it. `NoneIsLost` follows
  the channels Twitch answers for through a request: each is still to be asked about, in its batch
  or alone, or has been answered, and when the last stage is over there is none to ask. That a
  finished sign-in is picked up by the second request is `RefusedHasToken`: a request that was
  refused although the file had a good token leaves that token with the process.
* **Refresh.** `OvertakenInv` follows a poll whose answer may be older than an event
  until it settles: `dirty` or the debounce outlives it. `AuthInv` says a poll of the
  current epoch is turned away only while the session does not work, and `EpochInv`
  that a poll of an older epoch waits for a helper that is being replaced, so that
  the failure it disowns is followed by `Recycled`'s poll. Together they are the error
  epoch's reason: either alone leaves a path to "sign in again" after a sign-in.
* **Drops engine.** That config.json is sound is not inductive: what is saved may come from
  the copy that was staged, from the config a subscribe request read before its awaits, or from a
  pass, which rebases what it decided seconds earlier on a config that is newer. `ConfigsAreGood`
  says the first two are sound as well. `PassesAreGood` says what a pass may hold: the
  sound config it loaded, and distinct additions, each for a game that config follows and a
  campaign the game does not skip. `NewIdsAreNew` says the ids a pass has given to what it adds are in no
  config that may yet be saved and not with another pass, which is why rebasing never adds an
  id twice; that no *target* comes twice is `KeptAdditions`. The lemmas say what `KeptAt`,
  `Listing`, `Reconcile`, `RebasePass` and the additions keep: a reconciled list has each login once
  and no owner but those asked for. `Follows` adds that a miner started before the boot
  pass was done is waived, so the pass that ends last need not have proposed; a subscribe request that saves
  its old copy over another watch list is excused by `overwritten`, here as in the run. That a blind pass
  empties no pool is about one step: what was not looked up is asked to stay (`BlindPassesKeepPools`). The theorems
  assume `Parameters`: the kinds of the constants, and that the configs the program may
  begin with are sound ones (`saveConfig` writes no others); TLC evaluates it for the three
  instances. Nothing is assumed of the number of passes, edits, events or failures.
* **The queue.** `QueueMovesOn` is about what one pass leaves behind, so `CalmInv` has little to
  carry: while nothing has happened since it began, a pass has loaded the config as it is, and what it
  has been told is still so (`CalmPassesAreUpToDate`). The rest is the argument about that pass. Its
  first subscription in rank order that is ready heads the `Listing` of those to serve
  (`HeadIs`), the additions of the pass included (`AdditionsStand`, `SubsAfter`); its pool is found anew and
  not empty (`RebuiltHas`), so it gets channels (`HeadGetsChannels`, `HeadIsAskedFor`) and
  `Reconcile` leaves no other owner (`OneOwner`), or a channel of the user's own that is live stands
  in for all of them. `Undisturbed` is where the code promises as much: one pass at a
  time, answers that arrive, no fault in saving, a live channel for whoever asks, and no
  subscription or channel that the user has switched off. TLC evaluates it, like `Parameters`,
  for the constants with which the run checks the property, those of the world at rest.
* **Notifications.** A key is pruned after 90 days, so "it has its key" is no reason why
  nothing is told twice. `ToldInv` has the other: what was told of a campaign is true of
  it, and its key is there or the campaign is past the state in which a pass would tell it; until
  the first pass after a start has marked what it finds, nothing is told of it. Left out are the completions that a first
  pass, cut short after its own key, had not come to mark (`unmarked`): the next pass announces them. `RowsInv`
  lets an upsert find the row of an endpoint, and `DigestInv` lets a digest of today
  find its key and one of an earlier day never be due.
* **Live page.** `PageInv` follows the news from the backend to the page: on a wire the last
  frame is the newest (`FramesAreNews`); without frames and without a miss it is what is
  shown (`NewsIsShown`), and no load that was answered before can still overwrite it
  (`NoLateLoad`). `Held`, `FramesAreHeld` and `LockedIsBare` say whose the connections and
  the loads are, since a frame of a stream that was replaced is nobody's news. The one
  assumption, `NoStreamAssumption`, is that the value for "no EventSource" is not one.
* **Sessions and login limiter.** The limiter keeps a count and a moment, not the guesses, and
  starts a new window when the old one has run out: a stretch of time can hold the end of
  one window and the whole of the next. `Rationed` says that the window began with
  the first guess the record counts, that those of the last lockout before it are fewer than
  `MaxAttempts`, and that a lockout runs from the last of all. `RecentIsTheEnd` is why only the oldest guesses leave when time passes. `SessionInv`
  relates a session's end to the moment it was issued. `AccessAssumption` asks
  that the lockout, the day and the attempts are positive numbers.
* **Drops page.** What the page shows when all is quiet is what its last calls brought, and a call
  carries a list that was read earlier. `PanelIInv` follows a call from its request to its last
  read. While nothing is behind, there is one call at most, and `ListedInv` and `RestartInv` say of each
  stage what the page already has and what the call must still bring; a drag has moved
  the rows, and `DragDrawn` says that undone they are the list. `AloneInv` says that a call which
  met no other is the only one, so that what it read is still so (`ListTrue`, `StatusTrue`) and
  the rows that appeared are those the pass added (`FollowTrue`). `BoxesInv` has a box show its row's
  size. `PanelAssumption` asks for a finite set of campaigns of the game and a first order of
  subscriptions.
* **Sweep.** What a sweep leaves out shows only at its end. `OwedIsListed` says the games
  it goes through include those of all that is owed, whichever of the index and the home
  page is the older; `OwedIsRead` says the same of each game's page once it is read. Nothing
  comes to be owed while a sweep runs (`OwedBefore`), so both survive time. `SweepAssumption`
  asks that ages are numbers and that every campaign has a game, and games the tracker lists.
* **Badges.** An answer, an event and a pass under way each say something of the past.
  `BadgeInv` says when each was right: what is held was right when it was asked for, an event
  that is on its way is right unless what it is about changed this very minute, and
  what a pass does not ask for it has good reason not to. `BadgeAssumption` asks that the
  times are numbers and that drops are numbered from 1. The proof showed that a bound had
  hidden a case: with drops of one minute, no event can be on its way when a
  stream ends, and the model did not count the end of a stream as a change of what its badge
  should say. It does now, and the run has drops of two minutes.

Two of these modules recurse over data, `Merged` of `LogFeed` and `Without` of `FollowDialog`, both
as functions of sequences by their lengths. The induction theorems of the library take an operator as a
parameter, which the provers cannot instantiate; `SignInProofs` proves the induction it needs of sets of
numbers instead (`LeastMember`, `Induction`), from the well-foundedness that the library
states, and describes both functions from it.

Only model-checked: every liveness property (fairness is out of the prover's
reach); of the drops engine, `WatchListSettles`: how many passes a chain of
colliding pools takes to settle depends on the subscriptions and the directory, and the bound
`Settled` of the run is one for its own; the record, whose figures are sums over
sequences of sequences; the launch of the miner, the grid, the drafts and the
drops' progress. What the three runs that expect a violation refute is not to be proved.

## 5. What the code does and its documents do not say

Three runs expect a violation:

* **`sign_out_undone`** - the sign-out stops the miner and leaves a pending restart standing. It
  fires afterwards and starts the miner again. `Login.tsx:190` tells the user that signing out
  stops the miner and that they have to sign in again to resume mining.
* **`log_gap`** - a load is answered, lines are logged before the stream is open, and the frame of the
  next lines, which waited for the load, is dropped (`useLiveLog.ts:92`, `?? acc`). The page lacks lines
  until another frame comes. `useLiveLog.ts:88-90` says: "a gap is not possible here".
* **`profiles`** - each pass looks up the first ten stale channels, and a live one is stale again two passes
  later: with more than twenty live, those at the end are never looked up (`profiles.ts:126`).
  `profiles.ts:29-30` has "the remainder" picked up by later refreshes.

What follows was met while modelling. The models have these behaviours and the
properties are stated so as to allow them; most are rare or heal by themselves.

Miner, drops and restarts:

* Start pressed while the boot pass runs: the miner reads the old channels and the
  pass, within its budget, proposes no restart (`engine.ts:589-590`); `index.ts:527-529`
  calls this "safe".
* After a cancelled restart no later pass proposes one, since the config was saved
  first and passes see no difference. The design document (`:404-408`) and
  the notification's own text promise that the next pass proposes it again.
* A proposal made while the last restart is in flight takes over the notification tag, so
  the old one's follow-up goes to the devices of the new one and replaces its button.
* An older pass may commit after a newer one; the next pass repairs it. The subscribe
  route saves the config it loaded before its await (`http/server.ts:813`): what a pass or another route saved
  meanwhile is lost. Where that takes back a watch list the miner was restarted for, no restart is proposed,
  since the passes compare with the file, and the miner stays behind until its next start.
  `MinerIsNotLeftBehind` excuses this by name (`overwritten`), and `PassesKeepConfig` is about passes.
* "Restart now" with nothing pending, a second press or one of a page that has not heard of a veto, restarts
  the miner all the same (`http/server.ts:1160-1167`, `pendingRestart.ts:156-184`), and tells no device.
* `schema.ts:232` says lower ranks fill the watch slots first, but the miner's selection
  is left alone when any pooled channel is in it. `roster.ts:4-12` says the miner builds
  the same union, but a disabled streamer that is followed is blacklisted there
  (`miner_config.py:157-163`) and shown here.
* A hand-written file with camelCase keys is accepted by `loadConfig()` and refused by the
  miner until something saves it.
* A campaign that opens between the (cached) index and home pages of one sweep is in
  neither list and reads downstream as gone.
* `drops.ts:132-133` says a failure does not buy a full TTL of silence, but one channel's
  failure inside a request that succeeds does; `forget()` during a fetch is undone by its
  answer, and observed minutes by an older one.
* A finished campaign whose last claim came after the answer that stands is called
  unfinished once it leaves the progress (`inventory.ts:180-183`); on an account
  without rewards the first claim is taken for a fresh store's and not announced
  (`dropClaims.ts:14-17`).

Sign-in:

* A sign-in that finishes while a sign-out waits for the miner to stop starts it again, and marks the session as
  working although its cookies have just been deleted.
* A login helper's exit may be seen before its last line; a late "ok" after a cancel
  marks the account signed in although its cookies are deleted. `start()` does not reset
  `current`. A second sign-in with another name while one runs does nothing, and the first's
  "ok" writes its own name back. `LoginProgress` documents seconds where `login.py`
  sends milliseconds.
* `check_login` raises for a name that cannot be resolved, and `is_logged_in()` in the
  helper's error handler is unguarded: either ends the helper. A `check_login` that fails
  otherwise leaves "sign in" showing until the next sign-in.

Cards, record and Insights:

* A lookup that fails in a poll that succeeds closes the session of its live stream
  for good; the first poll after an outage records its balance before it closes
  sessions (`service.ts:651-678`), so a stream that ended while the backend was down ends at that poll and the
  outage counts as online, against `history.ts:268-274` (`history.test.ts:282-290` tests only the
  case without a change). `StreamsAreTrue` allows for it, and for no more: a session claims too much by one
  record of points at the most. Sessions that overlap are counted twice in the time online, and
  a day's stretch may then hold more mined minutes than it has. Time is counted as mined on
  a channel that has left the roster while live (`recap.ts:11`).
* The error of a failed refresh stays on the page although a later one succeeds, if that
  one changes nothing (`service.ts:531-532`). A roster that cannot be read ends the process at
  the next tick, or leaves no trace at all (`service.ts:568-571`).
* No heartbeat is written while polls fail, so a kill after an outage loses that uptime.
  The snapshot before a day's first rise may be pruned, and the rise with it. The all-time
  figure goes back when a session is clamped.
* A balance recorded at midnight sharp belongs to the day before in `pointsBetween`
  and to the day it opens in chart and Insights.
* Two changes of the watch slots handled at once may be queued in the wrong order
  (`put_nowait` is outside the lock), and the next change repairs it. A ring on the wire when
  the miner ends may leave slots held for a stopped miner until it starts. `minerRunning()`
  does not redraw the cards.
* A gift rung while a fetch is out shares its older answer and stays unseen until the
  next trigger; an ended gift leaves one redrawn card before the list
  (`service.ts:464`: "in step with the cards").
* A channel whose profile lookup fails alone stores an empty avatar for a week.

Notifications and logs:

* A push retried with the old subscription after a heal gets 410, and the row is deleted
  with its new endpoint; a lost request turns push off at the next visit instead of
  retrying (`push.ts:133-134`). Tabs heal with a stale idea of what the server knows.
* A kill between a key and its delivery loses the notification; a throw or a kill between
  the first run's key and its marks makes the next run announce what was not marked, against
  `campaigns.ts:101-102` (`RingsOnce` leaves out what is `unmarked`). A pushed retry may arrive
  after its follow-up.
* Out-of-order replies of preference saves overwrite newer ones on the page.
* `sink.ts:179` counts on losing one event to a torn line; the next run's first line is
  appended to it and lost too. A page carried over a restart compares totals of two runs.

Pages:

* The load of the cards has no guard against an older answer, unlike the status. The
  reconnect timer is not cleared by "open". The gate says "Wrong password" of every
  failure. Logging out does not close the streams that are open.
* A page of settings loaded before a pass, another tab's apply or a sign-in puts its
  whole draft back, the old account name included (`server.ts:416-418` protects the staged
  draft only). One tab's apply may write what another staged. `add` on Streamers drops what
  was toggled while it looked the channel up.
* A drag is not held back while another call runs, so one that is rejected after a removal
  shows the removed row until the next load; two drags may be handled out of order; a
  second card's button clears the first one's spinner; "after the restart" stays after
  the restart; the reorder route takes ids twice; a size that could not be saved
  stays typed; a follow dialog closed while it confirms wipes what was picked after it
  was reopened.
* `Drops.tsx:726` does not read the list again after a drag, since it "would only replace the rows
  with identical ones". The route ends in a pass (`server.ts:869`), which may subscribe to
  a followed game's new campaign: with the queue off the page then misses that row until its next
  load. Larger bounds than those of the run showed it.
* The grid keeps the order of its last change while badges are drawn anew, so an ended
  campaign stays among the live ones; History prefers the page's payload to a fuller
  snapshot, and misses a campaign that is in neither when progress cannot be read.

## 6. What is left out

* Within what is modelled: log lines, wording, settings of a channel other than
  "enabled" and `claim_drops`, viewer counts (an order of the channels), names and payloads.
  The directory's answers of one pass arrive together; the miner's restart is one step
  in `DropsEngine` and is taken apart in `Supervisor` and `PendingRestart`. Days have one
  length and one time zone.
* Vendored miner, tracker, Twitch, browser and push service: external; modelled as
  choices over what they may answer, including not at all. The miner is taken to emit its
  slot changes from one thread in order, and a ring to be delivered or lost within a
  minute.
* `stop()` of the state service, the signal handler's wait for everything at once, quiet
  hours, the inbox's reads, the helper's lookup and directory operations, activity rows and
  their paging, the update check, the log level, process statistics, migrations,
  packaging: little state, or none that anything else depends on.
* The other pages of the frontend, its charts, formats and animations: rendering.

`PROJECT.json` lists each with its reason.

## 7. Plan

1. **Proofs of the other components** that are first-order: `DraftsAreSafe`, `GridIsHonest` and
   `LaunchedAsConfigured`, which only TLC checks, each with an inductive invariant over its requests.
2. **Shutdown**: the signal handler over `MinerLifecycle`, the helper client's abstract stop
   and the login runner, with an abstract specification of `HelperClient` for its users.
3. **The rest of notifications**: quiet hours, the inbox, the gift reminder.
