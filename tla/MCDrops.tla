------------------------------- MODULE MCDrops -------------------------------
(***************************************************************************)
(* Three instances of the drops engine in one run of TLC, which differ in  *)
(* what is given room to vary: how passes overlap each other and the       *)
(* routes, what the world does to one pass at a time, and, with the        *)
(* constants of this module, how the watch list settles when the world is  *)
(* at rest.  The campaigns are of one game, whose directory lists them     *)
(* all; channel 1 has the most viewers.                                    *)
(***************************************************************************)
EXTENDS DropsSettle, TLC

CONSTANTS
    Parts,        \* the instances a run is about
    Overlapping   \* the passes in flight at once where they overlap

VARIABLE part

all == <<part, calmVars>>

Symmetry == Permutations(Overlapping)

-----------------------------------------------------------------------------
(* The configs the backend boots with.                                     *)

OneGame == [c \in Campaigns |-> 1]

Sub(id, target, rank, pool) ==
    [id |-> id, target |-> target, rank |-> rank, pool |-> pool, via |-> ByHand]
Row(login, owner) == [login |-> login, owner |-> owner, on |-> TRUE]

\* The game is followed and one of its campaigns subscribed to by hand,
\* beside a channel of the user's own.
Following ==
    [subs |-> <<Sub(1, 1, 0, 1)>>, rows |-> <<Row(3, ByHand), Row(1, 1)>>,
     followed |-> <<[game |-> 1, pool |-> 1, skipped |-> {}]>>, queue |-> FALSE]

\* Two subscriptions, the second waiting in the queue, and a manual channel.
Queued ==
    [subs |-> <<Sub(1, 1, 0, 1), Sub(2, 2, 1, 1)>>,
     rows |-> <<Row(2, ByHand), Row(1, 1)>>,
     followed |-> <<>>, queue |-> TRUE]

\* Pools of two, and the first subscription's channel has gone offline (its
\* directory does not list it) while the second collects on the best one.
Colliding ==
    [subs |-> <<Sub(1, 1, 0, 2), Sub(2, 2, 1, 2)>>,
     rows |-> <<Row(4, 1), Row(1, 2), Row(2, 2)>>,
     followed |-> <<>>, queue |-> FALSE]

\* All open, or the first still to open, or that ended while the backend was down.
AllOpenBut(first) == [c \in Campaigns |-> IF c = 1 THEN first ELSE "open"]
OpenOrSoon  == {AllOpenBut("open"), AllOpenBut("scheduled")}
OpenOrEnded == {AllOpenBut("open"), AllOpenBut("over")}

-----------------------------------------------------------------------------
(* The instances.                                                          *)

Overlap == INSTANCE DropsEngine WITH
    Slots <- Overlapping, Channels <- 1..3,
    Running <- [l \in 1..3 |-> {l}], CheckLimit <- 10,
    LiveSets <- {{}, {1, 2}}, Failures <- {{}}, CatalogueGets <- {"fetched"},
    ProgressReads <- {TRUE}, Checks <- {{}}, Stalls <- {"unread"},
    Routes <- {"subscribe", "remove", "unskip", "unfollow", "queue", "stage", "cancel"},
    Events <- {}, PoolSizes <- {1}, DefaultPool <- 1,
    InitialConfigs <- {Following}, InitialPhases <- OpenOrEnded,
    MaxEdits <- 1, MaxEvents <- 0, MaxId <- 5

World == INSTANCE DropsEngine WITH
    Channels <- 1..3,
    Running <- [l \in 1..3 |-> {l}], CheckLimit <- 10,
    LiveSets <- {{}, {1, 3}}, Failures <- {{}, {1}},
    CatalogueGets <- {"cached", "fetched", "failed"},
    ProgressReads <- {TRUE, FALSE}, Checks <- {{}}, Stalls <- {"unread"},
    Routes <- {"subscribe", "remove", "queue", "follow", "game-pool", "unskip"},
    Events <- {"open", "end", "leave", "complete", "stop", "save fails"},
    PoolSizes <- {2}, DefaultPool <- 1,
    InitialConfigs <- {Following, Queued}, InitialPhases <- OpenOrSoon,
    MaxEdits <- 1, MaxEvents <- 1, MaxId <- 5

\* At rest: this module's own constants.
OneEach      == [l \in Channels |-> {l}]
AnyBeginning == {Following, Queued, Colliding}

ASSUME ParametersAssumption ==
    Overlap!Parameters /\ World!Parameters /\ Parameters

\* What the theorem about the queue assumes of the instance it is checked on.
ASSUME UndisturbedAssumption == Undisturbed

MCInit ==
    /\ part \in Parts
    /\ calm = 0
    /\ CASE part = "overlap" -> Overlap!Init
         [] part = "world"   -> World!Init
         [] part = "at rest" -> Init

MCNext ==
    /\ part' = part
    /\ \/ part = "overlap" /\ Overlap!Next /\ calm' = calm
       \/ part = "world"   /\ World!Next   /\ calm' = calm
       \/ part = "at rest" /\ CalmNext

MCSpec == MCInit /\ [][MCNext]_all

-----------------------------------------------------------------------------
(* What the engine promises, as its own modules state it.  QueueMovesOn is *)
(* about the world at rest: elsewhere no pass is counted.                  *)

\* No pass undoes what was saved while it was asking, or empties a pool that it
\* could not look up.
PassesKeepConfig ==
    [][/\ part = "overlap" => Overlap!PassUndoesNothing
       /\ part = "world" => World!BlindPassKeepsPools]_all

\* With the world at rest, passes stop changing the watch list.
WatchListSettles == [][part = "at rest" => PassSettles]_all
=============================================================================
