------------------------------ MODULE GiftSubs ------------------------------
(***************************************************************************)
(* The account's gift subs (backend state/giftSubs.ts), and the cards and   *)
(* the list the dashboard shows them in.  Nothing polls for them: a fetch   *)
(* follows the miner's event, its start, the boot and the refresh button,   *)
(* calls that overlap share one fetch, and a gift that ends is filtered on  *)
(* every read.                                                             *)
(*                                                                         *)
(* The hazards are a fetch that fails, which must not take the list away;   *)
(* a list that changes under cards drawn from the one before; and an event  *)
(* that finds a fetch out: it shares an answer that may have been read      *)
(* before the gift, and nobody asks again.                                  *)
(***************************************************************************)
EXTENDS Integers, FiniteSets

CONSTANTS
    Cards,       \* the roster: a card each
    NoChannel,      \* the target of a gift that is for no channel
    Gifts,       \* gifts that may come: [id, target, endsAt]
    GiftBudgets  \* what may happen in a behaviour; each bounds a counter

VARIABLES
    account,    \* Twitch: the gifts the account holds
    fetch,      \* GiftSubsCache.inflight: at most one, [stage, list]
    cached,     \* GiftSubsCache.gifts
    failed,     \* GiftSubsCache.error
    rings,      \* GIFT_SUB_RECEIVED events that are on their way
    giftList,   \* StateService.gifts
    giftCards,  \* StateService.streamers: of each channel at most one gift
    giftUndrawn,\* StateService.undrawn
    giftMinute, \* the clock
    owed,       \* history: the gifts whose event started a fetch of its own
    giftLeft    \* what remains of the budget

giftCache == <<cached, failed>>
giftDrawn == <<giftList, giftCards, giftUndrawn>>
giftVars  == <<account, fetch, giftCache, rings, giftDrawn, giftMinute, owed, giftLeft>>

ASSUME GiftSubsAssumption ==
    /\ NoChannel \notin Cards
    /\ \A g \in Gifts : g.id \in Nat /\ g.target \in Cards \cup {NoChannel} /\ g.endsAt \in Int
    /\ \A g, h \in Gifts : g.id = h.id => g = h

GiftSpends(what) == giftLeft[what] > 0 /\ giftLeft' = [giftLeft EXCEPT ![what] = @ - 1]

\* active(), and forChannel(): the first of the list, whichever Twitch put first.
Active(list) == {g \in list : g.endsAt > giftMinute}
OfChannel(list, c) ==
    LET own == {g \in Active(list) : g.target = c}
    IN  IF own = {} THEN {} ELSE {CHOOSE g \in own : \A h \in own : g.id <= h.id}

DrawsFrame(list) == giftList' = Active(list) /\ giftCards' = [c \in Cards |-> OfChannel(list, c)]

-----------------------------------------------------------------------------
(* The cache.                                                              *)

\* refresh(): a fetch that is out is shared.
Refreshes == fetch' = IF fetch = {} THEN {[stage |-> "sent", list |-> {}]} ELSE fetch

\* The helper asks Twitch.
Reads ==
    /\ \E f \in fetch : f.stage = "sent"
    /\ fetch' = {[stage |-> "read", list |-> Active(account)]}
    /\ UNCHANGED <<account, giftCache, rings, giftDrawn, giftMinute, owed, giftLeft>>

\* Another list is pushed onto the cards held; not before there are any.
FetchAnswers ==
    \E f \in fetch :
        /\ f.stage = "read"
        /\ cached' = f.list /\ failed' = FALSE /\ fetch' = {}
        /\ IF f.list # cached /\ ~giftUndrawn
             THEN DrawsFrame(f.list) ELSE UNCHANGED <<giftList, giftCards>>
        /\ UNCHANGED <<account, rings, giftUndrawn, giftMinute, owed, giftLeft>>

\* Mutant: a fetch that fails takes the list away.
FailsForgets ==
    /\ fetch # {} /\ GiftSpends("faults")
    /\ fetch' = {} /\ failed' = TRUE /\ cached' = {}
    /\ UNCHANGED <<account, rings, giftDrawn, giftMinute, owed>>

\* A fetch that fails keeps the last list.
Fails ==
    /\ fetch # {} /\ GiftSpends("faults")
    /\ fetch' = {} /\ failed' = TRUE
    /\ UNCHANGED <<account, cached, rings, giftDrawn, giftMinute, owed>>

\* watchGiftSubs: the miner's event.
RingHeard ==
    \E g \in rings :
        /\ rings' = rings \ {g}
        /\ owed' = IF fetch = {} THEN owed \cup {g} ELSE owed
        /\ Refreshes
        /\ UNCHANGED <<account, giftCache, giftDrawn, giftMinute, giftLeft>>

\* The miner's start, the boot and the button.
Asked ==
    /\ GiftSpends("asks") /\ Refreshes
    /\ UNCHANGED <<account, giftCache, rings, giftDrawn, giftMinute, owed>>

-----------------------------------------------------------------------------
(* The cards.                                                              *)

\* A poll answers while somebody is connected, or a first frame is painted.
Derives ==
    /\ DrawsFrame(cached) /\ giftUndrawn' \in {giftUndrawn, FALSE}
    /\ giftUndrawn' => giftUndrawn
    /\ UNCHANGED <<account, fetch, giftCache, rings, giftMinute, owed, giftLeft>>

\* A poll answers while nobody is.
GoesIdle ==
    /\ ~giftUndrawn /\ GiftSpends("idles") /\ giftUndrawn' = TRUE
    /\ UNCHANGED <<account, fetch, giftCache, rings, giftList, giftCards, giftMinute, owed>>

\* An event of a channel draws its card again.
Rederives ==
    /\ ~giftUndrawn
    /\ \E c \in Cards : giftCards' = [giftCards EXCEPT ![c] = OfChannel(cached, c)]
    /\ UNCHANGED <<account, fetch, giftCache, rings, giftList, giftUndrawn, giftMinute, owed,
                   giftLeft>>

-----------------------------------------------------------------------------
(* Twitch and the clock.                                                   *)

\* Somebody gives one; the miner rings for a channel it knows, while it runs.
GiftComes ==
    /\ GiftSpends("gifts")
    /\ \E g \in Gifts \ account :
        /\ g.endsAt > giftMinute
        /\ account' = account \cup {g}
        /\ rings' \in {rings, IF g.target = NoChannel THEN rings ELSE rings \cup {g}}
    /\ UNCHANGED <<fetch, giftCache, giftDrawn, giftMinute, owed>>

MinutePasses ==
    /\ GiftSpends("minutes") /\ giftMinute' = giftMinute + 1
    /\ UNCHANGED <<account, fetch, giftCache, rings, giftDrawn, owed>>

GiftInit ==
    /\ giftLeft \in GiftBudgets
    /\ account = {} /\ fetch = {} /\ cached = {} /\ failed = FALSE /\ rings = {}
    /\ giftList = {} /\ giftCards = [c \in Cards |-> {}] /\ giftUndrawn = TRUE
    /\ giftMinute = 0 /\ owed = {}

GiftNext ==
    \/ Reads \/ FetchAnswers \/ Fails \/ RingHeard \/ Asked
    \/ Derives \/ GoesIdle \/ Rederives
    \/ GiftComes \/ MinutePasses

GiftSpec == GiftInit /\ [][GiftNext]_giftVars

-----------------------------------------------------------------------------
(* What the dashboard shows of them.                                       *)

\* The cards and the list are of one frame: a card shows a gift of the list, and every
\* gift of the list that has not ended is on the card of its channel, if only behind
\* another of the same channel.
CardsMatchTheList ==
    /\ \A c \in Cards : giftCards[c] \subseteq giftList
    /\ \A g \in Active(giftList) : g.target \in Cards => giftCards[g.target] # {}

\* While cards are held, they are drawn from the cache, and not from an older list.
ListIsTheCaches == ~giftUndrawn => Active(giftList) = Active(cached)

\* A gift that was rung for while no fetch was out is known once a fetch has answered,
\* whatever failed before; a failure forgets none.
GiftsAreKnown ==
    fetch = {} /\ ~failed => Active(owed) \subseteq cached

GiftsAreShown == CardsMatchTheList /\ ListIsTheCaches /\ GiftsAreKnown

=============================================================================
