------------------------------ MODULE WatchList ------------------------------
(***************************************************************************)
(* config.json as the drops engine maintains it, what the miner takes from *)
(* it, and what must hold of both whoever writes it: the subscriptions and *)
(* the followed games, and the streamer rows, each the user's own or owned *)
(* by a subscription that collects on its channel.                         *)
(***************************************************************************)
EXTENDS Integers, Sequences, FiniteSets

VARIABLES
    config,       \* config.json: [subs, rows, followed, queue]
    watched,      \* the roster the miner was started with, or NotRunning
    pending,      \* a restart is pending
    waived,       \* history: the user cancelled a restart or released rows, or
                  \* the miner was started before the boot pass was done
    overwritten   \* history: since the miner was started, a subscribe request
                  \* saved its old copy of the config over another watch list

\* ownedBy or viaGame undefined.
ByHand == 0

-----------------------------------------------------------------------------
(* Sequences, by what each place holds: a filter is the places it keeps.   *)

\* The numbers of a finite set, the least first.
Ascending(S) ==
    [k \in 1..Cardinality(S) |->
        CHOOSE x \in S : Cardinality({y \in S : y < x}) = k - 1]

\* The elements of s at the given places, in their order.
KeptAt(s, places) == [k \in 1..Cardinality(places) |-> s[Ascending(places)[k]]]

\* The third components of a set of triples, in the order of the first and,
\* where that is the same, of the second.
Listing(triples) ==
    LET Before(t) == {u \in triples : u[1] < t[1] \/ (u[1] = t[1] /\ u[2] < t[2])}
    IN  [k \in 1..Cardinality(triples) |->
            (CHOOSE t \in triples : Cardinality(Before(t)) = k - 1)[3]]

-----------------------------------------------------------------------------
(* Streamer rows: [login, owner, on].                                      *)

LoginsOf(rows) == {rows[i].login : i \in DOMAIN rows}
Owners(rows)   == {rows[i].owner : i \in DOMAIN rows} \ {ByHand}
OwnedBy(rows, id) == KeptAt(rows, {i \in DOMAIN rows : rows[i].owner = id})
Manual(rows)      == OwnedBy(rows, ByHand)

\* What the miner watches: build_streamers skips a disabled row.
Roster(rows) ==
    LET on == KeptAt(rows, {i \in DOMAIN rows : rows[i].on})
    IN  [i \in DOMAIN on |-> on[i].login]

NotRunning == <<0>>   \* not a roster: no channel is numbered 0

(* Subscriptions: [id, target, rank, pool, via], and followed games:       *)
(* [game, pool, skipped].                                                  *)

SubIds(subs)  == {subs[i].id : i \in DOMAIN subs}
Targets(subs) == {subs[i].target : i \in DOMAIN subs}
GamesOf(c)    == {c.followed[g].game : g \in DOMAIN c.followed}

-----------------------------------------------------------------------------
(* What must hold.                                                         *)

\* saveConfig() validates what it writes and throws on a duplicate login, id
\* or game; and "one subscription per target: two would resolve the same
\* channels and fight over ownership on every pass".
IsValid(c) ==
    /\ \A i, j \in DOMAIN c.rows : c.rows[i].login = c.rows[j].login => i = j
    /\ \A i, j \in DOMAIN c.subs : c.subs[i].id = c.subs[j].id => i = j
    /\ \A i, j \in DOMAIN c.subs : c.subs[i].target = c.subs[j].target => i = j
    /\ \A i, j \in DOMAIN c.followed : c.followed[i].game = c.followed[j].game => i = j

\* "The config can never hold a streamer owned by a subscription that no
\* longer exists": nobody would ever release it.
HasNoOrphan(c) == Owners(c.rows) \subseteq SubIds(c.subs)

IsSound(c) == IsValid(c) /\ HasNoOrphan(c)

\* No sequence of passes and requests leaves a config that the next save would
\* refuse (a pass that decided one would fail, and so would every later one), or
\* a channel on the watch list that no pass will ever release, however subscribe
\* requests, followed games and overlapping passes interleave.
ConfigIsSound == IsSound(config)

\* A running miner watches the channels the config holds, or a restart that
\* will make it so is pending, unless the user cancelled that restart, released
\* the channels by hand or did not wait for the boot pass.  One thing the code
\* does is excused: a subscribe request saves the whole config as it read it
\* before it asked for the campaign (server.ts:813), so what was saved meanwhile
\* is lost, and where that changes the watch list nothing proposes a restart.
\* The excuse lasts until the miner is started again.
MinerIsNotLeftBehind ==
    watched # NotRunning =>
        \/ pending
        \/ waived \/ overwritten
        \/ watched = Roster(config.rows)
=============================================================================
