------------------------------- MODULE Launch -------------------------------
(***************************************************************************)
(* How a configuration becomes a running miner, and what the dashboard     *)
(* makes of the same file: the backend loads and saves it                  *)
(* (config/store.ts, config/schema.ts), run.py and miner_config.py build   *)
(* the miner's roster, its modes and its drop slot from it, and roster.ts  *)
(* and dropsEligible.ts work out, in another process and language, which   *)
(* channels the miner mines and how.                                       *)
(*                                                                         *)
(* Settings are functions from keys to JSON values.  Of the keys two are   *)
(* kept: claim_drops, whose value decides something here, and bet, which   *)
(* holds keys of its own and so shows what the nested renames do; of a bet *)
(* only its keys count.  Logins are already normalised.                    *)
(***************************************************************************)
EXTENDS Naturals, Sequences, FiniteSets, SequencesExt

CONSTANTS
    Files,        \* the files a user may have written
    Follows,      \* the follow lists Twitch may report, in its order
    MaxAmount,    \* upstream: the channels watched at a time
    MaxChanges    \* bound: edits in the web interface and changes of the follow list

VARIABLES
    file,      \* config.json
    author,    \* who wrote it: "user" | "backend"
    follows,   \* Twitch: the account's follow list
    launched,  \* the running miner: its roster and pools, and what it read
    shown,     \* StateService: the roster last resolved, and what it read
    watching,  \* the miner's selection, until anything else happens
    changes    \* how many there were

vars == <<file, author, follows, launched, shown, watching, changes>>

NotRunning == [outcome |-> "none", roster |-> <<>>, pools |-> <<>>, from |-> <<>>]
NotShown   == [roster |-> <<>>, whole |-> FALSE, from |-> <<>>]
NotWatching == [inner |-> <<>>, live |-> {}, result |-> <<>>]

(***************************************************************************)
(* config/schema.ts                                                        *)
(***************************************************************************)
ToPython    == [claimDrops |-> "claim_drops", bet |-> "bet"]
BetToPython == [percentageGap |-> "percentage_gap", strategy |-> "strategy"]
Modes       == {"NONE", "LINKED", "ALL"}

Inverted(map) == [name \in Range(map) |-> CHOOSE k \in DOMAIN map : map[k] = name]
Renamed(key, map) == IF key \in DOMAIN map THEN map[key] ELSE key

\* The two objects are named alike on both sides.
RenameKeys(settings, map, nested) ==
    [key \in {Renamed(k, map) : k \in DOMAIN settings} |->
        LET value == settings[CHOOSE k \in DOMAIN settings : Renamed(k, map) = key]
        IN  IF key = "bet" THEN {Renamed(k, nested) : k \in value} ELSE value]

\* Mutant: the keys of the nested object are left as they are.
SettingsToPythonFlat(settings) ==
    [key \in {Renamed(k, ToPython) : k \in DOMAIN settings} |->
        settings[CHOOSE k \in DOMAIN settings : Renamed(k, ToPython) = key]]

\* The nested object is renamed by a map of its own.
SettingsToPython(settings) == RenameKeys(settings, ToPython, BetToPython)

SettingsFromPython(raw) == RenameKeys(raw, Inverted(ToPython), Inverted(BetToPython))

\* claimDropsSchema: a bool was written before the enum existed.
ClaimDrops(value) ==
    CASE value = "true"  -> "LINKED"
      [] value = "false" -> "NONE"
      [] OTHER           -> value

ValidSettings(s) ==
    /\ DOMAIN s \subseteq DOMAIN ToPython
    /\ "bet" \in DOMAIN s => s["bet"] \subseteq DOMAIN BetToPython
    /\ "claimDrops" \in DOMAIN s => ClaimDrops(s["claimDrops"]) \in Modes

Parsed(s) == [k \in DOMAIN s |-> IF k = "claimDrops" THEN ClaimDrops(s[k]) ELSE s[k]]

Mapped(config, Op(_)) ==
    [config EXCEPT
       !.defaults  = Op(@),
       !.streamers = [i \in DOMAIN @ |-> [@[i] EXCEPT !.settings = Op(@)]]]

Valid(config) ==
    /\ ValidSettings(config.defaults)
    /\ \A i, j \in DOMAIN config.streamers :
          /\ ValidSettings(config.streamers[i].settings)
          /\ config.streamers[i].username = config.streamers[j].username => i = j

(***************************************************************************)
(* config/store.ts                                                         *)
(***************************************************************************)
Camel(raw)    == Mapped(raw, SettingsFromPython)
Loads(raw)    == Valid(Camel(raw))
LoadConfig(raw) == Mapped(Camel(raw), Parsed)
SaveConfig(config) == Mapped(Mapped(config, Parsed), SettingsToPython)

(***************************************************************************)
(* miner_config.py                                                         *)
(***************************************************************************)
Allowed    == {"claim_drops", "bet"}
AllowedBet == {"percentage_gap", "strategy"}

\* _settings(): the overrides win, key by key.
Settings(defaults, overrides) ==
    [k \in DOMAIN defaults \cup DOMAIN overrides |->
        IF k \in DOMAIN overrides THEN overrides[k] ELSE defaults[k]]

Known(merged) ==
    /\ DOMAIN merged \subseteq Allowed
    /\ "bet" \in DOMAIN merged => merged["bet"] \subseteq AllowedBet

\* StreamerSettings, upstream: a bool is mapped, unset is LINKED.
Mode(merged) ==
    IF "claim_drops" \in DOMAIN merged THEN ClaimDrops(merged["claim_drops"])
                                       ELSE "LINKED"

Enabled(cfg) == SelectSeq(cfg.streamers, LAMBDA s : s.enabled)

BuildStreamers(cfg) ==
    [i \in DOMAIN Enabled(cfg) |->
        LET s == Enabled(cfg)[i] IN
        [login |-> s.username, mode |-> Mode(Settings(cfg.defaults, s.settings))]]

Blacklist(cfg) == {s.username : s \in {e \in ToSet(cfg.streamers) : ~e.enabled}}

Logins(roster) == {r.login : r \in ToSet(roster)}

\* TwitchChannelPointsMiner.run, upstream: the followed channels come after the
\* given ones, without those it has and those on the blacklist.
Followed(cfg, list) ==
    LET new == SelectSeq(list, LAMBDA c : c \notin Blacklist(cfg) \cup Logins(BuildStreamers(cfg)))
    IN  [i \in DOMAIN new |-> [login |-> new[i], mode |-> Mode(Settings(cfg.defaults, <<>>))]]

MinedRoster(cfg, list) ==
    BuildStreamers(cfg) \o (IF cfg.followers THEN Followed(cfg, list) ELSE <<>>)

Refused(cfg) ==
    \/ \E s \in ToSet(Enabled(cfg)) : ~Known(Settings(cfg.defaults, s.settings))
    \/ ~Known(cfg.defaults)

Owners(cfg) == SelectSeq(Enabled(cfg), LAMBDA s : s.ownedBy # "nobody")

DropPools(cfg) ==
    LET entries == Owners(cfg)
        first(i) == \A j \in 1..(i - 1) : entries[j].ownedBy # entries[i].ownedBy
        heads   == SetToSortSeq({i \in DOMAIN entries : first(i)}, <)
    IN  [p \in DOMAIN heads |->
            {s.username : s \in {e \in ToSet(entries) : e.ownedBy = entries[heads[p]].ownedBy}}]

(***************************************************************************)
(* DropSlotSelector                                                        *)
(***************************************************************************)
Pooled(pools) == UNION ToSet(pools)

\* _candidate(): of the first pool with a live channel that claims, one whose drop
\* the miner can progress, or the first live one.
Candidates(pools, live, progressable) ==
    LET some == {p \in DOMAIN pools : pools[p] \cap live # {}}
    IN  IF some = {} THEN {}
        ELSE LET pool == pools[CHOOSE p \in some : \A q \in some : p <= q] \cap live
             IN  IF pool \cap progressable # {} THEN pool \cap progressable ELSE pool

Held(candidate, chosen) ==
    LET rest == SelectSeq(chosen, LAMBDA c : c # candidate)
        all  == <<candidate>> \o rest
    IN  SubSeq(all, 1, IF Len(all) < MaxAmount THEN Len(all) ELSE MaxAmount)

Selections(pools, inner, claiming, progressable) ==
    IF ToSet(inner) \cap Pooled(pools) # {} \/ Candidates(pools, claiming, progressable) = {}
      THEN {inner}
      ELSE {Held(c, inner) : c \in Candidates(pools, claiming, progressable)}

(***************************************************************************)
(* state/dropsEligible.ts, state/roster.ts, index.ts: resolveStreamers     *)
(***************************************************************************)
EntryOf(config, login) == {s \in ToSet(config.streamers) : s.username = login}

DropsMode(config, login) ==
    LET own == {s.settings["claimDrops"] :
                  s \in {e \in EntryOf(config, login) : "claimDrops" \in DOMAIN e.settings}}
    IN  IF own # {} THEN CHOOSE m \in own : TRUE
        ELSE IF "claimDrops" \in DOMAIN config.defaults THEN config.defaults["claimDrops"]
        ELSE "LINKED"

Configured(config) == [i \in DOMAIN Enabled(config) |-> Enabled(config)[i].username]

Unique(names) ==
    LET first(i) == \A j \in 1..(i - 1) : names[j] # names[i]
        kept     == SetToSortSeq({i \in DOMAIN names : first(i)}, <)
    IN  [i \in DOMAIN kept |-> names[kept[i]]]

ResolveRoster(config, list) ==
    Unique(Configured(config) \o (IF config.followers THEN list ELSE <<>>))

(***************************************************************************)
(* Actions                                                                 *)
(***************************************************************************)
Init ==
    /\ file \in Files
    /\ author = "user"
    /\ follows \in Follows
    /\ launched = NotRunning
    /\ shown = NotShown
    /\ watching = NotWatching
    /\ changes = 0

\* Any save that changes nothing else: the engine's, a page's.
Rewrites ==
    /\ Loads(file)
    /\ file' = SaveConfig(LoadConfig(file))
    /\ author' = "backend"
    /\ watching' = NotWatching
    /\ UNCHANGED <<follows, launched, shown, changes>>

\* The Settings and Streamers pages: one change, applied.
Changed(config) ==
    {[config EXCEPT !.followers = ~@]}
      \cup {[config EXCEPT !.streamers[i].enabled = ~@] : i \in DOMAIN config.streamers}
      \cup {[config EXCEPT !.streamers[i].settings = s] :
               i \in DOMAIN config.streamers, s \in {<<>>, [claimDrops |-> "NONE"]}}
      \cup {[config EXCEPT !.defaults = s] : s \in {<<>>, [claimDrops |-> "ALL"]}}

Edits ==
    /\ changes < MaxChanges
    /\ Loads(file)
    /\ \E config \in Changed(LoadConfig(file)) : file' = SaveConfig(config)
    /\ author' = "backend"
    /\ changes' = changes + 1
    /\ watching' = NotWatching
    /\ UNCHANGED <<follows, launched, shown>>

\* run.py, from reading the file to mine().
Launches ==
    /\ launched' = IF Refused(file)
                  THEN [NotRunning EXCEPT !.outcome = "refused", !.from = <<file, follows>>]
                  ELSE [outcome |-> "runs", roster |-> MinedRoster(file, follows),
                        pools |-> DropPools(file), from |-> <<file, follows>>]
    /\ watching' = NotWatching
    /\ UNCHANGED <<file, author, follows, shown, changes>>

\* The miner picks what to watch; priorities and campaigns are upstream's.
Selects ==
    /\ launched.outcome = "runs"
    /\ watching = NotWatching
    /\ \E live \in SUBSET Logins(launched.roster) :
       \E inner \in {s \in SeqOf(live, MaxAmount) : IsInjective(s)} :
       \E progressable \in SUBSET live :
          LET claiming == {r.login : r \in {m \in ToSet(launched.roster) : m.mode # "NONE"}} \cap live
          IN  \E result \in Selections(launched.pools, inner, claiming, progressable) :
                 watching' = [inner |-> inner, live |-> claiming, result |-> result]
    /\ UNCHANGED <<file, author, follows, launched, shown, changes>>

\* A pass of the state service: the helper's follow list may fail.
Resolves ==
    /\ Loads(file)
    /\ \E list \in {follows, <<>>} :
          shown' = [roster |-> ResolveRoster(LoadConfig(file), list),
                    whole |-> list = follows, from |-> <<file, follows>>]
    /\ watching' = NotWatching
    /\ UNCHANGED <<file, author, follows, launched, changes>>

Refollows ==
    /\ changes < MaxChanges
    /\ follows' \in Follows
    /\ changes' = changes + 1
    /\ watching' = NotWatching
    /\ UNCHANGED <<file, author, launched, shown>>

Next == Rewrites \/ Edits \/ Launches \/ Selects \/ Resolves \/ Refollows

Spec == Init /\ [][Next]_vars

-----------------------------------------------------------------------------
(* What it is for.                                                         *)

\* The miner and the page looked at the same configuration and follow list, and
\* Twitch gave both all of it.
Comparable ==
    launched.outcome = "runs" /\ shown.whole /\ launched.from = shown.from

\* "The miner builds this same union": no channel is mined that has no card, after
\* the account's follows, the blacklist and what the page edits.
MinedIsShown == Comparable => Logins(launched.roster) \subseteq ToSet(shown.roster)

\* What the backend takes for a channel's claim_drops is what the miner goes by, in
\* every spelling the two accept: the badges and the pools rest on it.
ModesAgree ==
    launched.outcome = "runs" /\ Loads(launched.from[1]) =>
        \A r \in ToSet(launched.roster) :
            DropsMode(LoadConfig(launched.from[1]), r.login) = r.mode

\* Whatever was in a file the backend could read, the one it writes does not make
\* the miner refuse to start.
SavedIsLaunchable ==
    launched.outcome = "refused" => ~(author = "backend" /\ launched.from[1] = file)

\* While a channel of a pool is live one of them is watched, and the best of the
\* miner's own choice keeps a slot, within the slots there are.
SlotIsShared ==
    LET result == watching.result
        pooled == Pooled(launched.pools)
    IN  /\ Len(result) <= MaxAmount /\ IsInjective(result)
        /\ pooled \cap watching.live # {} => pooled \cap ToSet(result) # {}
        /\ watching.inner # <<>> => Head(watching.inner) \in ToSet(result)

\* The miner mines what the config and the cards say it does, the way they say.
LaunchedAsConfigured ==
    MinedIsShown /\ ModesAgree /\ SavedIsLaunchable /\ SlotIsShared

=============================================================================
