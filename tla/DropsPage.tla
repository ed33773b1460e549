------------------------------ MODULE DropsPage ------------------------------
(***************************************************************************)
(* The subscriptions panel of the Drops page (frontend routes/Drops.tsx)   *)
(* against the routes it calls (backend http/server.ts): mutations that    *)
(* are followed by the reads of what they changed, and drags that move the *)
(* rows before the server knows.                                           *)
(*                                                                         *)
(* A request, its handling and its reply are three steps.  What an engine  *)
(* pass does to the channels is Pools and DropsEngine; here it adds what a *)
(* followed game subscribes to, and it may propose a restart.              *)
(***************************************************************************)
EXTENDS Integers, Sequences, FiniteSets, SequencesExt, FiniteSetsExt

CONSTANTS
    Subs,         \* subscriptions, each known by its campaign
    OfGame,       \* those whose campaign is of the one game
    FirstOrder,   \* the subscriptions at the beginning, by rank
    PanelBudgets  \* bounds: how many calls, events elsewhere and lost messages

ASSUME PanelAssumption ==
    /\ OfGame \subseteq Subs /\ IsFiniteSet(OfGame)
    /\ FirstOrder \in Seq(Subs)
    /\ PanelBudgets \subseteq [calls : Nat, elsewhere : Nat, lost : Nat]

VARIABLES
    config,     \* server: [order, queueOn, pool, followed, skipped]
    restartDue, \* server: pendingRestart.pending
    panel,      \* page: the last list read, [rows, queueOn, followed, skipped]
    waiting,    \* page: restartPending
    typed,      \* page: of each row, what its pool-size box holds
    busy,       \* page: busy.key, or Nobody
    notice,     \* page: what the last follow is said to have added, or -1
    calls,      \* the page's requests: their stage, and where it is
    panelLeft,  \* what of its budget a behaviour has left
    behind,     \* history: what the page has had no chance to learn
    unsaved,    \* history: the boxes whose number no list has shown since
    miscounted  \* history: an undisturbed follow was said to add another number

server    == <<config, restartDue>>
pageState == <<panel, waiting, typed, busy, notice>>
excuses   == <<behind, unsaved, miscounted>>
panelVars == <<server, pageState, calls, panelLeft, excuses>>

Nobody == "nobody"
PanelSpends(what) == panelLeft[what] > 0 /\ panelLeft' = [panelLeft EXCEPT ![what] = @ - 1]
Sizes  == {1, 2}
IdsOf(rows) == ToSet([i \in DOMAIN rows |-> rows[i].id])

-----------------------------------------------------------------------------
(* The server.                                                             *)

\* GET /api/subscriptions: a row's place is its turn, when there are turns.
Place(i) == IF ~config.queueOn THEN "none" ELSE IF i = 1 THEN "active" ELSE "waiting"
Listing ==
    [rows |-> [i \in DOMAIN config.order |->
                 [id |-> config.order[i], place |-> Place(i),
                  pool |-> config.pool[config.order[i]]]],
     queueOn |-> config.queueOn, followed |-> config.followed, skipped |-> config.skipped]

\* The pass that ends a handler: a followed game's campaigns join at the end.
Passed(c) ==
    [c EXCEPT !.order = @ \o SetToSeq(IF c.followed THEN OfGame \ (ToSet(@) \cup c.skipped)
                                      ELSE {})]

\* What a handler saves: nothing where it refuses.
Where(guard, c) == IF guard THEN {c} ELSE {}
Listed(s) == s \in ToSet(config.order)

Subscribe(s) == Where(~Listed(s), [config EXCEPT !.order = Append(@, s), !.pool[s] = 1])
Unlisted(s) == RemoveAt(config.order, CHOOSE i \in DOMAIN config.order : config.order[i] = s)
Unsubscribe(s) ==
    Where(Listed(s), [config EXCEPT !.order = Unlisted(s),
                                    !.skipped = IF config.followed /\ s \in OfGame
                                                THEN @ \cup {s} ELSE @])
SetPoolSize(s, n) == Where(Listed(s), [config EXCEPT !.pool[s] = n])
Reorder(ids) ==
    Where(Len(ids) = Len(config.order) /\ ToSet(ids) = ToSet(config.order),
         [config EXCEPT !.order = ids])
Unskip(s) == Where(config.followed /\ s \in config.skipped, [config EXCEPT !.skipped = @ \ {s}])
Unfollow  == Where(config.followed, [config EXCEPT !.followed = FALSE, !.skipped = {}])

Saved(c) ==
    CASE c.kind = "subscribe" -> Subscribe(c.ids[1])
      [] c.kind = "remove"    -> Unsubscribe(c.ids[1])
      [] c.kind = "pool-size" -> SetPoolSize(c.ids[1], c.num)
      [] c.kind = "reorder"   -> Reorder(c.ids)
      [] c.kind = "queue"     -> {[config EXCEPT !.queueOn = c.num = 1]}
      [] c.kind = "resolve"   -> {config}
      [] c.kind = "follow"    -> {[config EXCEPT !.followed = TRUE]}
      [] c.kind = "unskip"    -> Unskip(c.ids[1])
      [] c.kind = "unfollow"  -> Unfollow

EndsInPass(kind) == kind # "unfollow" /\ ~(kind = "follow" /\ config.followed)

-----------------------------------------------------------------------------
(* The page's calls.                                                       *)

\* A call replaces itself, or ends.
Proceeds(c, d) == calls' = (calls \ {c}) \cup {d}
Completes(c)   == calls' = calls \ {c}

Crossed(cs) == {[c EXCEPT !.alone = FALSE] : c \in cs}
Both == {"rows", "restart"}

\* A request with its subscriptions and its number, and what the page held.
Request(n, kind, ids, num, stage, alone) ==
    [n |-> n, kind |-> kind, ids |-> ids, num |-> num, stage |-> stage, at |-> "out",
     list |-> panel, pending |-> FALSE, before |-> panel, sure |-> "rows" \notin behind,
     grew |-> 0, alone |-> alone]

Sends(kind, ids, num) ==
    /\ PanelSpends("calls")
    /\ calls' = Crossed(calls)
                \cup {Request(panelLeft.calls, kind, ids, num, "post", calls = {})}
    /\ behind' = IF calls = {} THEN behind ELSE Both
    /\ UNCHANGED <<server, waiting, notice, miscounted>>

Boxes == UNCHANGED <<typed, unsaved>>

\* mutate() and follow()
Mutates(kind, ids, num, key) ==
    /\ Sends(kind, ids, num)
    /\ busy' = key
    /\ UNCHANGED panel

\* The panel's own controls are inert while anything runs.
RemoveRow ==
    \E s \in IdsOf(panel.rows) : busy = Nobody /\ Mutates("remove", <<s>>, 0, s) /\ Boxes

ThrowSwitch ==
    /\ busy = Nobody /\ IdsOf(panel.rows) \cup panel.skipped # {}
    /\ Mutates("queue", <<>>, IF panel.queueOn THEN 0 ELSE 1, "panel") /\ Boxes

ResolveNow ==
    /\ busy = Nobody /\ IdsOf(panel.rows) \cup panel.skipped # {}
    /\ Mutates("resolve", <<>>, 0, "panel") /\ Boxes

UnskipRow ==
    \E s \in panel.skipped \ IdsOf(panel.rows) :
        busy = Nobody /\ Mutates("unskip", <<s>>, 0, s) /\ Boxes

UnfollowGame ==
    busy = Nobody /\ panel.followed /\ Mutates("unfollow", <<>>, 0, "followed") /\ Boxes

\* From the dialog, whose button is the panel's.
FollowGames ==
    busy = Nobody /\ ~panel.followed /\ Mutates("follow", <<>>, 0, "followed") /\ Boxes

\* PoolSizeInput: a number that is not the one in force.
TypesPoolSize ==
    \E i \in DOMAIN panel.rows, n \in Sizes :
        /\ busy = Nobody
        /\ n # panel.rows[i].pool
        /\ Mutates("pool-size", <<panel.rows[i].id>>, n, panel.rows[i].id)
        /\ typed' = [typed EXCEPT ![panel.rows[i].id] = n]
        /\ unsaved' = unsaved \cup {panel.rows[i].id}

\* A campaign's card is inert only while its own campaign is busy.
CardToggles(s) ==
    /\ busy # s
    /\ Mutates(IF s \in IdsOf(panel.rows) THEN "remove" ELSE "subscribe", <<s>>, 0, s)
    /\ Boxes

CardFollows(s) == busy # s /\ ~panel.followed /\ Mutates("follow", <<>>, 0, s) /\ Boxes

\* reorder(): the rows move first.
Drags(from, to) ==
    /\ from # to
    /\ LET row   == panel.rows[from]
           moved == InsertAt(RemoveAt(panel.rows, from), to, row)
       IN  /\ Sends("reorder", [i \in DOMAIN moved |-> moved[i].id], 0)
           /\ panel' = [panel EXCEPT !.rows = moved]
    /\ UNCHANGED busy /\ Boxes

-----------------------------------------------------------------------------
(* A call's way through the server and back.                               *)

UnlessServed == UNCHANGED <<pageState, panelLeft, excuses>>

\* A drag without the queue is not read back: what the pass that ends it makes of
\* the order beyond the drag is nothing the page hears of.
Unread(c) ==
    IF c.kind = "reorder" /\ ~c.before.queueOn /\ config'.order # c.ids THEN {"rows"} ELSE {}

\* A handler runs; the pass it ends with may propose a restart.
Handled(c) ==
    /\ c.at = "out" /\ c.stage = "post"
    /\ \E new \in Saved(c) :
          /\ config' = IF EndsInPass(c.kind) THEN Passed(new) ELSE new
          /\ restartDue' \in IF EndsInPass(c.kind) THEN {restartDue, TRUE} ELSE {restartDue}
          /\ Proceeds(c, [c EXCEPT !.at = "back",
                                  !.grew = Len(config'.order) - Len(config.order)])
    /\ behind' = behind \cup Unread(c)
    /\ UNCHANGED <<pageState, panelLeft, unsaved, miscounted>>

TurnedDown(c) ==
    /\ c.at = "out" /\ c.stage = "post" /\ Saved(c) = {}
    /\ Proceeds(c, [c EXCEPT !.at = "failed"])
    /\ UNCHANGED server /\ UnlessServed

ListAsked(c) ==
    /\ c.at = "out" /\ c.stage = "subs"
    /\ Proceeds(c, [c EXCEPT !.at = "back", !.list = Listing])
    /\ UNCHANGED server /\ UnlessServed

StatusAsked(c) ==
    /\ c.at = "out" /\ c.stage = "status"
    /\ Proceeds(c, [c EXCEPT !.at = "back", !.pending = restartDue])
    /\ UNCHANGED server /\ UnlessServed

\* A request is lost, or a reply; or a resolve's pass fails.
Lost(c) ==
    /\ PanelSpends("lost") /\ c.at # "failed"
    /\ Proceeds(c, [c EXCEPT !.at = "failed"])
    /\ behind' = IF c.stage = "post" /\ c.at = "out" THEN behind ELSE Both
    /\ UNCHANGED <<server, pageState, unsaved, miscounted>>

Frees(c) == busy' = IF c.kind \in {"reorder", "mount"} THEN busy ELSE Nobody

\* The call itself is answered: with the queue on a drag reads the list again.
PostDone(c) ==
    /\ c.at = "back" /\ c.stage = "post"
    /\ Proceeds(c, [c EXCEPT !.at = "out",
                            !.stage = IF c.kind = "reorder" /\ ~c.before.queueOn
                                      THEN "status" ELSE "subs"])
    /\ UNCHANGED <<server, pageState, panelLeft, excuses>>

\* Mutant: a rejected drag keeps its rows where they were dropped.
RestoredNot(c) == panel

\* A rejected drag puts back the rows it found.
Restored(c) == IF c.kind = "reorder" THEN [panel EXCEPT !.rows = c.before.rows] ELSE panel

\* The panel draws other rows: a pool-size box shows a new value when the value
\* changes, or the row is new.
PoolsOf(rows, s) == {rows[i].pool : i \in {j \in DOMAIN rows : rows[j].id = s}}
Draws(new) ==
    LET redrawn == {s \in Subs : PoolsOf(new.rows, s) # PoolsOf(panel.rows, s)}
        shown(s) == IF PoolsOf(new.rows, s) = {} THEN 0
                    ELSE CHOOSE n \in PoolsOf(new.rows, s) : TRUE
    IN  /\ panel' = new
        /\ typed' = [s \in Subs |-> IF s \in redrawn THEN shown(s) ELSE typed[s]]
        /\ unsaved' = unsaved \ redrawn

PostFailed(c) ==
    /\ c.at = "failed" /\ c.stage = "post"
    /\ Completes(c) /\ Frees(c)
    /\ Draws(Restored(c))
    /\ UNCHANGED <<server, waiting, notice, panelLeft, behind, miscounted>>

\* What a call does after the list.
GoesOn(c) ==
    IF c.kind = "mount" THEN Completes(c) ELSE Proceeds(c, [c EXCEPT !.stage = "status", !.at = "out"])

\* loadSubs(): a failure leaves the panel as it is.
ListRead(c) ==
    /\ c.at = "back" /\ c.stage = "subs"
    /\ Draws(c.list) /\ GoesOn(c)
    /\ behind' = IF c.alone THEN behind \ {"rows"} ELSE behind
    /\ UNCHANGED <<server, waiting, busy, notice, panelLeft, miscounted>>

ListFailed(c) ==
    /\ c.at = "failed" /\ c.stage = "subs"
    /\ GoesOn(c)
    /\ UNCHANGED <<server, pageState, panelLeft, excuses>>

\* follow(): the subscriptions that appeared.
Appeared(c) == Cardinality(IdsOf(c.list.rows) \ IdsOf(c.before.rows))

\* loadRestart(), the last thing of every call.
StatusRead(c) ==
    /\ c.at \in {"back", "failed"} /\ c.stage = "status"
    /\ Completes(c) /\ Frees(c)
    /\ waiting' = IF c.at = "back" THEN c.pending ELSE waiting
    /\ behind' = IF c.alone /\ c.at = "back" THEN behind \ {"restart"} ELSE behind
    /\ notice' = IF c.kind = "follow" THEN Appeared(c) ELSE notice
    /\ miscounted' = (miscounted \/ /\ c.kind = "follow" /\ c.alone /\ c.sure
                                    /\ "rows" \notin behind /\ Appeared(c) # c.grew)
    /\ UNCHANGED <<server, panel, typed, panelLeft, unsaved>>

-----------------------------------------------------------------------------
(* What happens elsewhere.                                                 *)

Elsewhere(part) ==
    /\ PanelSpends("elsewhere")
    /\ calls' = Crossed(calls)
    /\ behind' = behind \cup part
    /\ UNCHANGED <<pageState, unsaved, miscounted>>

\* A pass of the engine ends a campaign, or another tab throws the switch.
ConfigChanges ==
    /\ Elsewhere({"rows"})
    /\ config' \in {[config EXCEPT !.order = Unlisted(s)] : s \in ToSet(config.order)}
                   \cup {[config EXCEPT !.queueOn = ~@]}
    /\ UNCHANGED restartDue

\* A restart is proposed by the engine, fires or is cancelled.
RestartChanges ==
    /\ Elsewhere({"restart"})
    /\ restartDue' = ~restartDue
    /\ UNCHANGED config

PanelInit ==
    /\ config = [order |-> FirstOrder, queueOn |-> FALSE, pool |-> [s \in Subs |-> 1],
                 followed |-> FALSE, skipped |-> {}]
    /\ restartDue \in BOOLEAN
    /\ panel = [rows |-> <<>>, queueOn |-> FALSE, followed |-> FALSE, skipped |-> {}]
    /\ waiting = FALSE /\ typed = [s \in Subs |-> 0] /\ busy = Nobody /\ notice = -1
    /\ behind = Both /\ unsaved = {} /\ miscounted = FALSE
    /\ calls = {Request(0, "mount", <<>>, 0, stage, TRUE) : stage \in {"status", "subs"}}
    /\ panelLeft \in PanelBudgets

PanelNext ==
    \/ RemoveRow \/ ThrowSwitch \/ ResolveNow \/ UnskipRow \/ UnfollowGame \/ FollowGames
    \/ TypesPoolSize
    \/ \E s \in Subs : CardToggles(s)
    \/ \E s \in OfGame : CardFollows(s)
    \/ \E from, to \in DOMAIN panel.rows : Drags(from, to)
    \/ \E c \in calls :
          \/ Handled(c) \/ TurnedDown(c) \/ ListAsked(c) \/ StatusAsked(c) \/ Lost(c)
          \/ PostDone(c) \/ PostFailed(c) \/ ListRead(c) \/ ListFailed(c) \/ StatusRead(c)
    \/ ConfigChanges \/ RestartChanges

PanelSpec == PanelInit /\ [][PanelNext]_panelVars

-----------------------------------------------------------------------------
\* Once its calls have come back the page says what the server has: the rows in
\* their order, with their turns and pool sizes, and whether a restart waits; its
\* buttons are free again, and a follow says what it added.  Excused is only what
\* happened elsewhere since it looked, what crossed another call of the page, what was
\* lost on the way, and what else the pass made of an order that is not read back
\* (Drops.tsx: mutate, follow, reorder).
QuietPageIsCurrent ==
    /\ calls = {} =>
         /\ busy = Nobody
         /\ "rows" \notin behind =>
              /\ panel = Listing
              /\ \A s \in ToSet(config.order) \ unsaved : typed[s] = config.pool[s]
         /\ "restart" \notin behind => waiting = restartDue
    /\ ~miscounted

=============================================================================
