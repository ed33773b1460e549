------------------------------- MODULE Badges -------------------------------
(***************************************************************************)
(* The drop badges on the dashboard's cards (state/drops.ts): what each    *)
(* channel's next drop is, asked of Twitch when the last answer is older   *)
(* than ten minutes, moved in between by the miner's progress events and   *)
(* forgotten when the miner tries to claim.                                *)
(*                                                                         *)
(* One campaign runs on every channel: drops 1, 2, ..., each earned by     *)
(* watching.  Time is counted in minutes; with the dashboard open every    *)
(* minute has at least one pass of the state service, and an answer that   *)
(* is on its way is one of the time Twitch read it.                        *)
(***************************************************************************)
EXTENDS Naturals, Sequences, FiniteSets

CONSTANTS
    Channels,
    Drops,      \* 1..n
    Required,   \* minutes a drop takes
    DropsTtl,   \* DROPS_TTL_MS
    LastMinute, \* bound: the last minute
    MaxWires,   \* bound: events on their way at a time
    MaxOutages, \* bound: lookups and events that fail
    MaxEdits    \* bound: changes of the configuration and of the account's link

VARIABLES
    moment,
    current,  \* Twitch: the first drop not claimed; past the last when all are
    minutes,  \* Twitch: watched toward it
    linked,   \* Twitch: the game account is connected
    onAir,    \* Twitch: the channels that stream
    mode,     \* the configuration: claim_drops of each channel
    wires,    \* progress and claim events on their way to the doorbell
    cached,   \* DropsCache: of each channel, the last answer
    pass,     \* the pass that is running
    cards,    \* StateService: the badge of each card
    passed,   \* a pass has ended since the minute began or the world changed
    outages, edits,
    since     \* history: when what a channel's badge should say last changed

badgeVars  == <<moment, current, minutes, linked, onAir, mode, wires, cached, pass, cards,
                passed, outages, edits, since>>
twitchVars == <<current, minutes, linked, onAir>>

\* What the constants are: drops are numbered from 1.
BadgeAssumption ==
    DropsTtl \in Nat /\ LastMinute \in Nat /\ Required \in Nat /\ Drops \subseteq Nat \ {0}

Modes == {"NONE", "LINKED", "ALL"}
None  == [id |-> 0, claimable |-> FALSE]
NeverAsked == [drop |-> None, at |-> LastMinute + 1]
NoPass == [step |-> "none", wanted |-> {}, due |-> {}, unlinked |-> {}, at |-> 0,
           rung |-> FALSE, answer |-> [ch \in Channels |-> None]]

Eligible(ch)       == mode[ch] # "NONE"
AllowsUnlinked(ch) == mode[ch] = "ALL"

\* _next_drop(): of what the miner can progress, the drop with the least left.
NextDrop(allowUnlinked) ==
    IF current \in Drops /\ (linked \/ allowUnlinked)
      THEN [id |-> current, claimable |-> minutes = Required]
      ELSE None

Wanted == {ch \in onAir : Eligible(ch)}
Due(ch) == cached[ch] = NeverAsked \/ moment - cached[ch].at > DropsTtl

-----------------------------------------------------------------------------
(* The pass: DropsCache.resolve() as doRefresh() awaits it.                *)

Shown(wanted, held) ==
    [ch \in Channels |-> IF ch \in wanted THEN held[ch].drop ELSE None]

PassStarts ==
    LET due == {ch \in Wanted : Due(ch)} IN
    /\ pass = NoPass
    /\ IF due = {}
         THEN cards' = Shown(Wanted, cached) /\ passed' = TRUE /\ UNCHANGED pass
         ELSE /\ pass' = [NoPass EXCEPT !.step = "asked", !.at = moment, !.due = due,
                                        !.wanted = Wanted,
                                        !.unlinked = {ch \in due : AllowsUnlinked(ch)}]
              /\ UNCHANGED <<cards, passed>>
    /\ UNCHANGED <<moment, twitchVars, mode, wires, cached, outages, edits, since>>

\* Twitch reads the progress; a channel whose lookup fails has no drop.
Read(failing) ==
    /\ pass.step = "asked"
    /\ failing \subseteq pass.due
    /\ failing # {} => outages < MaxOutages
    /\ pass' = [pass EXCEPT !.step = "read",
                            !.answer = [ch \in Channels |->
                                          IF ch \in failing THEN None
                                          ELSE NextDrop(ch \in pass.unlinked)]]
    /\ outages' = outages + (IF failing = {} THEN 0 ELSE 1)
    /\ since' = [ch \in Channels |-> IF ch \in failing THEN moment ELSE since[ch]]
    /\ UNCHANGED <<moment, twitchVars, mode, wires, cached, cards, passed, edits>>

PassEnds(held) ==
    /\ cached' = held
    /\ cards' = Shown(pass.wanted, held)
    /\ pass' = NoPass /\ passed' = (pass.wanted = Wanted /\ ~pass.rung)
    /\ UNCHANGED <<moment, twitchVars, mode, wires, edits>>

\* The clock of an answer is the time the pass asked.
Stored ==
    /\ pass.step = "read"
    /\ PassEnds([ch \in Channels |-> IF ch \in pass.due
                                       THEN [drop |-> pass.answer[ch], at |-> pass.at]
                                       ELSE cached[ch]])
    /\ UNCHANGED <<outages, since>>

\* Mutant: a failure buys a full TTL of silence.
RefusedForATtl ==
    /\ pass.step = "asked" /\ outages < MaxOutages
    /\ outages' = outages + 1
    /\ PassEnds([ch \in Channels |-> IF ch \in pass.due
                                       THEN [drop |-> cached[ch].drop, at |-> moment]
                                       ELSE cached[ch]])
    /\ since' = [ch \in Channels |-> IF ch \in pass.due /\ since[ch] + DropsTtl < moment
                                       THEN moment - DropsTtl ELSE since[ch]]

\* The request fails as a whole: the old values and their clocks stand, and the
\* next minute's pass asks again.
Refused ==
    /\ pass.step = "asked" /\ outages < MaxOutages
    /\ outages' = outages + 1
    /\ PassEnds(cached)
    /\ since' = [ch \in Channels |-> IF ch \in pass.due /\ since[ch] + DropsTtl < moment
                                       THEN moment - DropsTtl ELSE since[ch]]

-----------------------------------------------------------------------------
(* The miner's events.                                                     *)

\* observe(): the drop the miner says is moving, on a channel that was asked about.
Observed(ch, id) ==
    LET held == cached[ch].drop
        drop == IF held.id = id THEN held ELSE [id |-> id, claimable |-> FALSE]
    IN IF cached[ch] = NeverAsked \/ ~Eligible(ch)
         THEN UNCHANGED <<cached, cards>>
         ELSE /\ cached' = [cached EXCEPT ![ch].drop = drop]
              /\ cards' = [cards EXCEPT ![ch] = drop]

\* forget(): every channel that holds the drop is asked about again.
Forgotten(id) ==
    /\ cached' = [ch \in Channels |-> IF cached[ch].drop.id = id THEN NeverAsked
                                                                ELSE cached[ch]]
    /\ UNCHANGED cards

\* A claim also calls for a pass, or for one more when one is running.
Rings ==
    /\ wires # <<>>
    /\ LET event == Head(wires) IN
         \/ /\ IF event.claim THEN Forgotten(event.id)
                              ELSE Observed(event.channel, event.id)
            /\ passed' = (passed /\ ~event.claim)
            /\ pass' = IF pass = NoPass THEN pass
                       ELSE [pass EXCEPT !.rung = @ \/ event.claim]
            /\ UNCHANGED outages
         \/ /\ outages < MaxOutages /\ outages' = outages + 1
            /\ UNCHANGED <<cached, cards, passed, pass>>
    /\ wires' = Tail(wires)
    /\ UNCHANGED <<moment, twitchVars, mode, edits, since>>

-----------------------------------------------------------------------------
(* The world.  A change of what a badge should say restarts its clock.     *)

UnlessWorld == UNCHANGED <<cached, pass, cards, outages>>
Moved(chs) == since' = [ch \in Channels |-> IF ch \in chs THEN moment ELSE since[ch]]
Progresses(ch) == mode[ch] = "ALL" \/ (mode[ch] = "LINKED" /\ linked)

Watched(ch) ==
    /\ ch \in onAir /\ Progresses(ch) /\ Len(wires) < MaxWires
    /\ current \in Drops /\ minutes < Required
    /\ minutes' = minutes + 1
    /\ wires' = Append(wires, [claim |-> FALSE, id |-> current, channel |-> ch])
    /\ IF minutes' = Required THEN Moved(Channels) ELSE UNCHANGED since
    /\ UNCHANGED <<moment, current, linked, onAir, mode, passed, edits>> /\ UnlessWorld

\* The miner announces a claim before it tries; the viewer claims unannounced.
ClaimTried(works) ==
    /\ current \in Drops /\ minutes = Required /\ Len(wires) < MaxWires
    /\ wires' = Append(wires, [claim |-> TRUE, id |-> current])
    /\ IF works THEN current' = current + 1 /\ minutes' = 0 /\ Moved(Channels)
                ELSE UNCHANGED <<current, minutes, since>>
    /\ UNCHANGED <<moment, linked, onAir, mode, passed, edits>> /\ UnlessWorld

ClaimedByHand ==
    /\ current \in Drops /\ minutes = Required
    /\ current' = current + 1 /\ minutes' = 0 /\ Moved(Channels)
    /\ UNCHANGED <<moment, linked, onAir, mode, wires, passed, edits>> /\ UnlessWorld

Streams(ch) ==
    /\ onAir' = IF ch \in onAir THEN onAir \ {ch} ELSE onAir \cup {ch}
    /\ edits < MaxEdits /\ edits' = edits + 1
    /\ passed' = FALSE
    /\ Moved({ch})
    /\ UNCHANGED <<moment, current, minutes, linked, mode, wires>> /\ UnlessWorld

Linked ==
    /\ linked' = ~linked
    /\ edits < MaxEdits /\ edits' = edits + 1
    /\ Moved(Channels)
    /\ UNCHANGED <<moment, current, minutes, onAir, mode, wires, passed>> /\ UnlessWorld

ModeSet(ch, m) ==
    /\ m # mode[ch] /\ mode' = [mode EXCEPT ![ch] = m]
    /\ edits < MaxEdits /\ edits' = edits + 1
    /\ passed' = FALSE
    /\ Moved({ch})
    /\ UNCHANGED <<moment, twitchVars, wires>> /\ UnlessWorld

Minute ==
    /\ passed /\ pass = NoPass /\ wires = <<>> /\ moment < LastMinute
    /\ moment' = moment + 1 /\ passed' = FALSE
    /\ UNCHANGED <<twitchVars, mode, wires, edits, since>> /\ UnlessWorld

-----------------------------------------------------------------------------

BadgeInit ==
    /\ moment = 0
    /\ current = 1 /\ minutes = 0 /\ linked = TRUE /\ onAir \in SUBSET Channels
    /\ mode = [ch \in Channels |-> "LINKED"]
    /\ wires = <<>>
    /\ cached = [ch \in Channels |-> NeverAsked]
    /\ pass = NoPass /\ cards = [ch \in Channels |-> None] /\ passed = FALSE
    /\ outages = 0 /\ edits = 0
    /\ since = [ch \in Channels |-> 0]

BadgeNext ==
    \/ PassStarts \/ Stored \/ Refused \/ Rings
    \/ \E failing \in SUBSET Channels : Read(failing)
    \/ \E ch \in Channels : Watched(ch) \/ Streams(ch) \/ \E m \in Modes : ModeSet(ch, m)
    \/ \E works \in BOOLEAN : ClaimTried(works)
    \/ ClaimedByHand \/ Linked \/ Minute

BadgeSpec == BadgeInit /\ [][BadgeNext]_badgeVars

-----------------------------------------------------------------------------
(* What it is for.                                                         *)

ShouldSay(ch) ==
    IF ch \in onAir /\ Eligible(ch) THEN NextDrop(AllowsUnlinked(ch)) ELSE None

\* A pass that nothing happened beside leaves no badge that has been wrong for
\* longer than an answer is held, whatever events came while one was under way.
BadgeCatchesUp ==
    passed /\ pass = NoPass /\ wires = <<>> =>
        \A ch \in Channels : cards[ch] # ShouldSay(ch) => moment - since[ch] <= DropsTtl

=============================================================================
