------------------------------ MODULE Profiles ------------------------------
(***************************************************************************)
(* Avatars, categories and viewer counts (state/profiles.ts): one lookup   *)
(* fills all of them, the picture is kept in the database for a week and   *)
(* the rest in memory for two minutes, and then only while the channel is  *)
(* live.  A pass looks up so many channels and no more; what is left is    *)
(* for the passes after it.                                                *)
(*                                                                         *)
(* Time is counted in passes, a minute apart; where an age equals its      *)
(* limit, a pass that is a little late finds it over the limit.            *)
(***************************************************************************)
EXTENDS Naturals, Sequences, FiniteSets, SequencesExt

CONSTANTS
    RosterSize,  \* the channels, numbered in the order they are asked about
    PerPass,     \* MAX_FETCH_PER_PASS
    StreamTtl,   \* STREAM_TTL_MS
    AvatarTtl,   \* AVATAR_TTL_MS
    MaxLive,     \* how many channels may stream at a time
    MaxFaults,   \* bound: passes whose lookup fails, and backend restarts
    MaxFlips     \* bound: streams that start or end

VARIABLES
    streaming,  \* Twitch: the channels that stream
    avatarAge,  \* streamers.fetched_at: passes since, or Unknown
    streamAge,  \* ProfileCache.streams: passes since, or Unknown
    failures, flips

profileVars == <<streaming, avatarAge, streamAge, failures, flips>>

Listed   == 1..RosterSize
Roster   == [i \in Listed |-> i]
Unknown  == AvatarTtl + 2
Older(age, limit) == IF age = Unknown \/ age > limit THEN age ELSE age + 1

AvatarStale(ch) == avatarAge[ch] > AvatarTtl
\* late: this pass is further from the one that asked than the limit says.
StreamStale(ch, late) ==
    ch \in streaming /\ (streamAge[ch] > StreamTtl \/ (late /\ streamAge[ch] = StreamTtl))
Stale(late) == SelectSeq(Roster, LAMBDA ch : AvatarStale(ch) \/ StreamStale(ch, late))

\* The first of the stale, MAX_FETCH_PER_PASS of them.
Asked(late) == LET stale == Stale(late) IN
    {stale[i] : i \in 1..(IF Len(stale) < PerPass THEN Len(stale) ELSE PerPass)}

\* The ages at the next pass.  An answer without the channel is stored as well.
Aged(ages, asked, limit) ==
    [ch \in Listed |-> IF ch \in asked THEN 1 ELSE Older(ages[ch], limit)]

Resolved(late, answered) ==
    LET asked == IF answered THEN Asked(late) ELSE {} IN
    /\ avatarAge' = Aged(avatarAge, asked, AvatarTtl)
    /\ streamAge' = Aged(streamAge, asked, StreamTtl)
    /\ UNCHANGED <<streaming, flips>>

Answered == \E late \in BOOLEAN : Resolved(late, TRUE) /\ UNCHANGED failures

\* The rows stand as they are and the next pass tries again.
Failed ==
    /\ failures < MaxFaults /\ failures' = failures + 1
    /\ \E late \in BOOLEAN : Resolved(late, FALSE)

\* A restart loses what is held in memory only.
Restarted ==
    /\ failures < MaxFaults /\ failures' = failures + 1
    /\ streamAge' = [ch \in Listed |-> Unknown]
    /\ UNCHANGED <<streaming, avatarAge, flips>>

Flips(ch) ==
    /\ flips < MaxFlips /\ flips' = flips + 1
    /\ streaming' = IF ch \in streaming THEN streaming \ {ch} ELSE streaming \cup {ch}
    /\ Cardinality(streaming') <= MaxLive
    /\ UNCHANGED <<avatarAge, streamAge, failures>>

ProfileInit ==
    /\ streaming = {}
    /\ avatarAge = [ch \in Listed |-> Unknown]
    /\ streamAge = [ch \in Listed |-> Unknown]
    /\ failures = 0 /\ flips = 0

ProfileNext ==
    \/ Answered \/ Failed \/ Restarted
    \/ \E ch \in Listed : Flips(ch)

\* A pass runs every minute, and its lookup is answered in the end.
ProfileSpec == ProfileInit /\ [][ProfileNext]_profileVars /\ WF_profileVars(Answered)

-----------------------------------------------------------------------------
(* What the comment on MAX_FETCH_PER_PASS says of it.                      *)

\* "The remainder are picked up by later refreshes" (profiles.ts:29-30): a channel
\* that streams and of which nothing is known is looked up in the end, or its
\* stream is over.  Every pass starts from the same end of the roster, so that
\* this fails where more channels stream than are looked up in a lifetime.
NobodyIsPassedOver ==
    \A ch \in Listed :
        ch \in streaming /\ streamAge[ch] = Unknown
            ~> ch \notin streaming \/ streamAge[ch] # Unknown

=============================================================================
