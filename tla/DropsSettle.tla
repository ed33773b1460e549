---------------------------- MODULE DropsSettle ----------------------------
(***************************************************************************)
(* DropsEngine.tla with one history variable: how many passes in a row     *)
(* have met the same world, the same directory and the same wishes of the  *)
(* user as the one before.  The instance has one directory, always read.   *)
(***************************************************************************)
EXTENDS DropsEngine

CONSTANT Settled   \* after this many passes nothing is left to do

VARIABLE calm

calmVars == <<vars, calm>>

CalmInit == Init /\ calm = 0

\* A pass that finds a pool stalled has met something new, and what happens
\* while a pass is in flight is news to the next one too.
CalmNext ==
    \/ \E slot \in Slots, answer \in Answers :
          /\ Commit(slot, answer)
          /\ calm' = IF answer.verdict = "stuck" THEN 0
                     ELSE LeastOf(calm + 1, Settled)
    \/ /\ AnythingElse
       /\ calm' = IF edits' = edits /\ events' = events /\ config' = config
                    THEN calm
                  ELSE IF FreeSlots = Slots THEN 0 ELSE -1

CalmSpec == CalmInit /\ [][CalmNext]_calmVars

\* "Once full it holds": when nothing changes, passes do not go on trading
\* channels between subscriptions, each trade another restart of the miner.
\* One pass settles the subscriptions, a second the channels they collide on.
PassSettles ==
    \A slot \in Slots :
        Commits(slot) /\ calm = Settled /\ calm' = Settled
            => config' = config

\* Subscriptions whose campaign could be collected right now.
Ready == {s \in ToSet(config.subs) : /\ s.target \in listed \ complete
                                     /\ phase[s.target] = "open"}

\* Every subscription is to have a channel, and none is switched off.
IsServable(c) ==
    /\ \A i \in DOMAIN c.subs : c.subs[i].pool # 0
    /\ \A g \in DOMAIN c.followed : c.followed[g].pool # 0
    /\ \A i \in DOMAIN c.rows : c.rows[i].on

\* Where a pass finds all that it asks for, and is not overtaken by another.
Undisturbed ==
    /\ \A s, t \in Slots : s = t
    /\ CatalogueGets = {"fetched"} /\ ProgressReads = {TRUE} /\ Failures = {{}}
    /\ {} \notin LiveSets
    /\ "stage" \notin Routes /\ "save fails" \notin Events
    /\ 0 \notin PoolSizes \cup {DefaultPool}
    /\ InitialPhases \subseteq [Campaigns -> {"scheduled", "open", "over"}]
    /\ \A c \in InitialConfigs : IsServable(c)
    /\ Settled \in Nat

\* One at a time, in rank order: as soon as a pass has seen the world as it is,
\* the first ready subscription of the queue, and no other, has channels, or
\* the user's own channels stand in for them.
QueueMovesOn ==
    calm >= 1 /\ config.queue /\ Ready # {} =>
        \/ \E head \in Ready :
              /\ \A s \in Ready : head.rank <= s.rank
              /\ Owners(config.rows) = {head.id}
        \/ /\ Owners(config.rows) = {}
           /\ \E own \in LoginsOf(Manual(config.rows)) : own \in UNION LiveSets
=============================================================================
