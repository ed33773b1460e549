--------------------------- MODULE RefreshProofs ---------------------------
(***************************************************************************)
(* Proofs about Refresh, for any set of browsers and any bounds.           *)
(*                                                                         *)
(* The inductive invariant adds to the two safety invariants what they rest*)
(* on: that nothing is left of a backend that is down; that a poll asked   *)
(* before a sign-in waits for a helper that is being replaced; that only a *)
(* session that does not work is turned away; and that a poll which an     *)
(* event has overtaken has a successor.                                    *)
(***************************************************************************)
EXTENDS Refresh, TLAPS

DownInv ==
    ~up => /\ phase = "none" /\ ~debounce /\ ~recycling
           /\ cards = NoCards
           /\ \A b \in Browsers : ~streaming[b]

EpochInv ==
    /\ poll.epoch <= errorEpoch
    /\ phase = "asked" /\ poll.epoch # errorEpoch => recycling

AuthInv ==
    phase = "asked" /\ poll.reply.kind = "auth" /\ poll.epoch = errorEpoch
        => session # "good"

Asked == phase \in {"asked", "derive"}

OvertakenInv ==
    /\ phase = "derive" => poll.reply.kind = "cards"
    /\ Asked /\ poll.reply.kind = "cards"
         => /\ poll.reply.news.balance >= poll.base.balance
            /\ poll.reply.news.rest >= poll.base.rest
    /\ Asked /\ (poll.base.balance < truth.balance \/ poll.base.rest < truth.rest)
         => dirty \/ debounce

IInv ==
    /\ TypeOK
    /\ DownInv
    /\ EpochInv
    /\ AuthInv
    /\ OvertakenInv
    /\ CardsFollowEvents
    /\ ClientsAreServed

-----------------------------------------------------------------------------
Page   == [shown : BOOLEAN, cards : CardSet, error : BOOLEAN]
Phases == {"none", "lapsed", "roster", "guarded", "asked", "derive"}

\* refresh() always leaves a poll under way; one that has been asked is not
\* disturbed, but followed by another.
LEMMA RefreshNowFacts ==
    ASSUME phase \in Phases, dirty \in BOOLEAN,
           NEW caller \in {"roster", "guarded"}, RefreshNow(caller)
    PROVE  /\ phase' \in Phases \ {"none", "lapsed"} /\ dirty' \in BOOLEAN
           /\ dirty => dirty'
           /\ phase \in {"asked", "derive"} => phase' = phase /\ dirty'
           /\ phase' \in {"asked", "derive"} => phase' = phase
  BY DEF RefreshNow, Idle, Phases

\* A settled poll that something has overtaken is followed by another.
LEMMA SettleFacts ==
    ASSUME dirty \in BOOLEAN, Settle
    PROVE  /\ phase' \in {"none", "roster"}
           /\ dirty => phase' = "roster"
           /\ dirty' = FALSE /\ booting' = FALSE /\ poll' = NoPoll
           /\ debounce' = debounce
  BY DEF Settle

\* A snapshot of well-formed cards is a well-formed page.
LEMMA SnapshotFacts ==
    ASSUME NEW held \in CardSet, NEW error \in BOOLEAN
    PROVE  Snapshot(held, error) \in Page
  BY DEF Snapshot, Page

\* What a step sends leaves well-formed pages.
LEMMA EmitFacts ==
    ASSUME NEW pages \in [Browsers -> Page],
           cards' \in CardSet, lastError' \in BOOLEAN, EmitTo(pages)
    PROVE  frame' \in [Browsers -> Page]
  BY SnapshotFacts DEF EmitTo

\* The cards and polls the program builds are of their types.
LEMMA DataFacts ==
    /\ Untold \in News /\ NoCards \in CardSet /\ FromStore \in CardSet
    /\ \A news \in News : Cards("polled", news) \in CardSet
    /\ NoReply \in ReplySet /\ Replies \subseteq ReplySet
    /\ NoPoll \in [epoch : 0..MaxSignIns, base : News, reply : ReplySet, before : CardSet]
  BY BoundsAssumption
     DEF Untold, News, NoCards, FromStore, CardSet, Cards, NoReply, ReplySet, Replies, NoPoll

\* Every step keeps the types.
LEMMA TypeStep ==
    ASSUME TypeOK, [Next]_vars
    PROVE  TypeOK'
<1> USE DEF TypeOK, twitchVars, controlVars, cardVars, loginVars, pageVars
<1>1. CASE Killed
  <2>1. /\ roster' \in BOOLEAN /\ up' \in BOOLEAN /\ dirty' \in BOOLEAN
        /\ debounce' \in BOOLEAN /\ booting' \in BOOLEAN
        /\ lastError' \in BOOLEAN /\ sessionDead' \in BOOLEAN /\ undrawn' \in BOOLEAN
        /\ loggedIn' \in BOOLEAN /\ recycling' \in BOOLEAN
    BY <1>1, DataFacts, BoundsAssumption
       DEF Killed, Down
  <2>2. /\ truth' \in News /\ session' \in {"good", "dead", "none"}
        /\ helper' \in {"good", "dead", "none"} /\ phase' \in Phases
    BY <1>1, DataFacts, BoundsAssumption
       DEF Killed, Down, Phases
  <2>3. /\ poll' \in [epoch : 0..MaxSignIns, base : News, reply : ReplySet, before : CardSet]
        /\ errorEpoch' \in 0..MaxSignIns /\ cards' \in CardSet
    BY <1>1, DataFacts, BoundsAssumption
       DEF Killed, Down
  <2>4. streaming' \in [Browsers -> BOOLEAN]
    BY <1>1, DataFacts, BoundsAssumption
       DEF Killed, Down
  <2>5. frame' \in [Browsers -> Page]
    BY <1>1, DataFacts, BoundsAssumption, <2>1, <2>3
       DEF Killed, Down, Page
  <2> QED BY <2>1, <2>2, <2>3, <2>4, <2>5 DEF Page, Phases
<1>2. CASE Boot
  BY <1>2, DataFacts
     DEF Boot
<1>3. CASE Tick
  BY <1>3, RefreshNowFacts, DataFacts
     DEF Tick, Phases
<1>4. CASE DebounceFires
  BY <1>4, RefreshNowFacts, DataFacts
     DEF DebounceFires, Phases
<1>5. CASE RosterFails
  <2>1. /\ roster' \in BOOLEAN /\ up' \in BOOLEAN /\ dirty' \in BOOLEAN
        /\ debounce' \in BOOLEAN /\ booting' \in BOOLEAN
        /\ lastError' \in BOOLEAN /\ sessionDead' \in BOOLEAN /\ undrawn' \in BOOLEAN
        /\ loggedIn' \in BOOLEAN /\ recycling' \in BOOLEAN
    BY <1>5, DataFacts, BoundsAssumption
       DEF RosterFails, Down
  <2>2. /\ truth' \in News /\ session' \in {"good", "dead", "none"}
        /\ helper' \in {"good", "dead", "none"} /\ phase' \in Phases
    BY <1>5, DataFacts, BoundsAssumption
       DEF RosterFails, Down, Phases
  <2>3. /\ poll' \in [epoch : 0..MaxSignIns, base : News, reply : ReplySet, before : CardSet]
        /\ errorEpoch' \in 0..MaxSignIns /\ cards' \in CardSet
    BY <1>5, DataFacts, BoundsAssumption
       DEF RosterFails, Down
  <2>4. streaming' \in [Browsers -> BOOLEAN]
    BY <1>5, DataFacts, BoundsAssumption
       DEF RosterFails, Down
  <2>5. frame' \in [Browsers -> Page]
    BY <1>5, DataFacts, BoundsAssumption, <2>1, <2>3
       DEF RosterFails, Down, Page
  <2> QED BY <2>1, <2>2, <2>3, <2>4, <2>5 DEF Page, Phases
<1>6. CASE RosterLapses
  <2>1. /\ roster' \in BOOLEAN /\ up' \in BOOLEAN /\ dirty' \in BOOLEAN
        /\ debounce' \in BOOLEAN /\ booting' \in BOOLEAN
        /\ lastError' \in BOOLEAN /\ sessionDead' \in BOOLEAN /\ undrawn' \in BOOLEAN
        /\ loggedIn' \in BOOLEAN /\ recycling' \in BOOLEAN
    BY <1>6, DataFacts
       DEF RosterLapses
  <2>2. /\ truth' \in News /\ session' \in {"good", "dead", "none"}
        /\ helper' \in {"good", "dead", "none"} /\ phase' \in Phases
    BY <1>6, DataFacts
       DEF RosterLapses, Phases
  <2>3. /\ poll' \in [epoch : 0..MaxSignIns, base : News, reply : ReplySet, before : CardSet]
        /\ errorEpoch' \in 0..MaxSignIns /\ cards' \in CardSet
    BY <1>6, DataFacts
       DEF RosterLapses
  <2>4. streaming' \in [Browsers -> BOOLEAN]
    BY <1>6, DataFacts
       DEF RosterLapses
  <2>5. frame' \in [Browsers -> Page]
    BY <1>6, DataFacts, <2>1, <2>3
       DEF RosterLapses, Page
  <2> QED BY <2>1, <2>2, <2>3, <2>4, <2>5 DEF Page, Phases
<1>7. CASE EmptyRoster
  <2>1. /\ roster' \in BOOLEAN /\ up' \in BOOLEAN /\ dirty' \in BOOLEAN
        /\ debounce' \in BOOLEAN /\ booting' \in BOOLEAN
        /\ lastError' \in BOOLEAN /\ sessionDead' \in BOOLEAN /\ undrawn' \in BOOLEAN
        /\ loggedIn' \in BOOLEAN /\ recycling' \in BOOLEAN
    BY <1>7, SettleFacts, EmitFacts, DataFacts
       DEF EmptyRoster, RosterRead, Emit, Page
  <2>2. /\ truth' \in News /\ session' \in {"good", "dead", "none"}
        /\ helper' \in {"good", "dead", "none"} /\ phase' \in Phases
    BY <1>7, SettleFacts, EmitFacts, DataFacts
       DEF EmptyRoster, RosterRead, Emit, Page, Phases
  <2>3. /\ poll' \in [epoch : 0..MaxSignIns, base : News, reply : ReplySet, before : CardSet]
        /\ errorEpoch' \in 0..MaxSignIns /\ cards' \in CardSet
    BY <1>7, SettleFacts, EmitFacts, DataFacts
       DEF EmptyRoster, RosterRead, Emit, Page
  <2>4. streaming' \in [Browsers -> BOOLEAN]
    BY <1>7, SettleFacts, EmitFacts, DataFacts
       DEF EmptyRoster, RosterRead, Emit, Page
  <2>5. frame' \in [Browsers -> Page]
    BY <1>7, SettleFacts, EmitFacts, DataFacts, <2>1, <2>3
       DEF EmptyRoster, RosterRead, Emit, Page
  <2> QED BY <2>1, <2>2, <2>3, <2>4, <2>5 DEF Page, Phases
<1>8. CASE Ask
  <2>1. /\ roster' \in BOOLEAN /\ up' \in BOOLEAN /\ dirty' \in BOOLEAN
        /\ debounce' \in BOOLEAN /\ booting' \in BOOLEAN
        /\ lastError' \in BOOLEAN /\ sessionDead' \in BOOLEAN /\ undrawn' \in BOOLEAN
        /\ loggedIn' \in BOOLEAN /\ recycling' \in BOOLEAN
    BY <1>8, EmitFacts, DataFacts
       DEF Ask, RosterRead, Paint, Emit, Page
  <2>2. /\ truth' \in News /\ session' \in {"good", "dead", "none"}
        /\ helper' \in {"good", "dead", "none"} /\ phase' \in Phases
    BY <1>8, EmitFacts, DataFacts
       DEF Ask, RosterRead, Paint, Emit, Page, Phases
  <2>3. /\ poll' \in [epoch : 0..MaxSignIns, base : News, reply : ReplySet, before : CardSet]
        /\ errorEpoch' \in 0..MaxSignIns /\ cards' \in CardSet
    BY <1>8, EmitFacts, DataFacts
       DEF Ask, RosterRead, Paint, Emit, Page
  <2>4. streaming' \in [Browsers -> BOOLEAN]
    BY <1>8, EmitFacts, DataFacts
       DEF Ask, RosterRead, Paint, Emit, Page
  <2>5. frame' \in [Browsers -> Page]
    BY <1>8, EmitFacts, DataFacts, <2>1, <2>3
       DEF Ask, RosterRead, Paint, Emit, Page
  <2> QED BY <2>1, <2>2, <2>3, <2>4, <2>5 DEF Page, Phases
<1>9. CASE HelperReplies
  BY <1>9, DataFacts
     DEF HelperReplies, Loaded, MayAnswer
<1>10. CASE IdleAnswer
  <2>1. /\ roster' \in BOOLEAN /\ up' \in BOOLEAN /\ dirty' \in BOOLEAN
        /\ debounce' \in BOOLEAN /\ booting' \in BOOLEAN
        /\ lastError' \in BOOLEAN /\ sessionDead' \in BOOLEAN /\ undrawn' \in BOOLEAN
        /\ loggedIn' \in BOOLEAN /\ recycling' \in BOOLEAN
    BY <1>10, SettleFacts, DataFacts
       DEF IdleAnswer, Answered, Connected
  <2>2. /\ truth' \in News /\ session' \in {"good", "dead", "none"}
        /\ helper' \in {"good", "dead", "none"} /\ phase' \in Phases
    BY <1>10, SettleFacts, DataFacts
       DEF IdleAnswer, Answered, Connected, Phases
  <2>3. /\ poll' \in [epoch : 0..MaxSignIns, base : News, reply : ReplySet, before : CardSet]
        /\ errorEpoch' \in 0..MaxSignIns /\ cards' \in CardSet
    BY <1>10, SettleFacts, DataFacts
       DEF IdleAnswer, Answered, Connected
  <2>4. streaming' \in [Browsers -> BOOLEAN]
    BY <1>10, SettleFacts, DataFacts
       DEF IdleAnswer, Answered, Connected
  <2>5. frame' \in [Browsers -> Page]
    BY <1>10, SettleFacts, DataFacts, <2>1, <2>3
       DEF IdleAnswer, Answered, Connected, Page
  <2> QED BY <2>1, <2>2, <2>3, <2>4, <2>5 DEF Page, Phases
<1>11. CASE Answer
  BY <1>11, DataFacts
     DEF Answer, Answered
<1>12. CASE Derive
  <2>1. /\ roster' \in BOOLEAN /\ up' \in BOOLEAN /\ dirty' \in BOOLEAN
        /\ debounce' \in BOOLEAN /\ booting' \in BOOLEAN
        /\ lastError' \in BOOLEAN /\ sessionDead' \in BOOLEAN /\ undrawn' \in BOOLEAN
        /\ loggedIn' \in BOOLEAN /\ recycling' \in BOOLEAN
    BY <1>12, SettleFacts, EmitFacts, DataFacts
       DEF Derive, Emit, Page, ReplySet
  <2>2. /\ truth' \in News /\ session' \in {"good", "dead", "none"}
        /\ helper' \in {"good", "dead", "none"} /\ phase' \in Phases
    BY <1>12, SettleFacts, EmitFacts, DataFacts
       DEF Derive, Emit, Page, ReplySet, Phases
  <2>3. /\ poll' \in [epoch : 0..MaxSignIns, base : News, reply : ReplySet, before : CardSet]
        /\ errorEpoch' \in 0..MaxSignIns /\ cards' \in CardSet
    BY <1>12, SettleFacts, EmitFacts, DataFacts
       DEF Derive, Emit, Page, ReplySet
  <2>4. streaming' \in [Browsers -> BOOLEAN]
    BY <1>12, SettleFacts, EmitFacts, DataFacts
       DEF Derive, Emit, Page, ReplySet
  <2>5. frame' \in [Browsers -> Page]
    BY <1>12, SettleFacts, EmitFacts, DataFacts, <2>1, <2>3
       DEF Derive, Emit, Page, ReplySet
  <2> QED BY <2>1, <2>2, <2>3, <2>4, <2>5 DEF Page, Phases
<1>13. CASE Fails
  <2>1. /\ roster' \in BOOLEAN /\ up' \in BOOLEAN /\ dirty' \in BOOLEAN
        /\ debounce' \in BOOLEAN /\ booting' \in BOOLEAN
        /\ lastError' \in BOOLEAN /\ sessionDead' \in BOOLEAN /\ undrawn' \in BOOLEAN
        /\ loggedIn' \in BOOLEAN /\ recycling' \in BOOLEAN
    BY <1>13, SettleFacts, EmitFacts, DataFacts
       DEF Fails, Reported, Answered, Emit, Page
  <2>2. /\ truth' \in News /\ session' \in {"good", "dead", "none"}
        /\ helper' \in {"good", "dead", "none"} /\ phase' \in Phases
    BY <1>13, SettleFacts, EmitFacts, DataFacts
       DEF Fails, Reported, Answered, Emit, Page, Phases
  <2>3. /\ poll' \in [epoch : 0..MaxSignIns, base : News, reply : ReplySet, before : CardSet]
        /\ errorEpoch' \in 0..MaxSignIns /\ cards' \in CardSet
    BY <1>13, SettleFacts, EmitFacts, DataFacts
       DEF Fails, Reported, Answered, Emit, Page
  <2>4. streaming' \in [Browsers -> BOOLEAN]
    BY <1>13, SettleFacts, EmitFacts, DataFacts
       DEF Fails, Reported, Answered, Emit, Page
  <2>5. frame' \in [Browsers -> Page]
    BY <1>13, SettleFacts, EmitFacts, DataFacts, <2>1, <2>3
       DEF Fails, Reported, Answered, Emit, Page
  <2> QED BY <2>1, <2>2, <2>3, <2>4, <2>5 DEF Page, Phases
<1>14. CASE FailsUnnoticed
  <2>1. /\ roster' \in BOOLEAN /\ up' \in BOOLEAN /\ dirty' \in BOOLEAN
        /\ debounce' \in BOOLEAN /\ booting' \in BOOLEAN
        /\ lastError' \in BOOLEAN /\ sessionDead' \in BOOLEAN /\ undrawn' \in BOOLEAN
        /\ loggedIn' \in BOOLEAN /\ recycling' \in BOOLEAN
    BY <1>14, SettleFacts, DataFacts
       DEF FailsUnnoticed, Answered
  <2>2. /\ truth' \in News /\ session' \in {"good", "dead", "none"}
        /\ helper' \in {"good", "dead", "none"} /\ phase' \in Phases
    BY <1>14, SettleFacts, DataFacts
       DEF FailsUnnoticed, Answered, Phases
  <2>3. /\ poll' \in [epoch : 0..MaxSignIns, base : News, reply : ReplySet, before : CardSet]
        /\ errorEpoch' \in 0..MaxSignIns /\ cards' \in CardSet
    BY <1>14, SettleFacts, DataFacts
       DEF FailsUnnoticed, Answered
  <2>4. streaming' \in [Browsers -> BOOLEAN]
    BY <1>14, SettleFacts, DataFacts
       DEF FailsUnnoticed, Answered
  <2>5. frame' \in [Browsers -> Page]
    BY <1>14, SettleFacts, DataFacts, <2>1, <2>3
       DEF FailsUnnoticed, Answered, Page
  <2> QED BY <2>1, <2>2, <2>3, <2>4, <2>5 DEF Page, Phases
<1>15. CASE BalanceEvent
  BY <1>15, EmitFacts, DataFacts, BoundsAssumption
     DEF BalanceEvent, HasNews, Applied, Rung, Idle, EmitUnlessUndrawn, Emit, Page, News, CardSet
<1>16. CASE OtherEvent
  BY <1>16, EmitFacts, DataFacts, BoundsAssumption
     DEF OtherEvent, HasNews, Rung, Idle, EmitUnlessUndrawn, Emit, Page, News, CardSet
<1>17. CASE RosterChanges
  BY <1>17, DataFacts
     DEF RosterChanges
<1>18. CASE SessionDies
  BY <1>18, DataFacts
     DEF SessionDies
<1>19. CASE SignIn
  <2>1. /\ roster' \in BOOLEAN /\ up' \in BOOLEAN /\ dirty' \in BOOLEAN
        /\ debounce' \in BOOLEAN /\ booting' \in BOOLEAN
        /\ lastError' \in BOOLEAN /\ sessionDead' \in BOOLEAN /\ undrawn' \in BOOLEAN
        /\ loggedIn' \in BOOLEAN /\ recycling' \in BOOLEAN
    BY <1>19, EmitFacts, DataFacts, BoundsAssumption
       DEF SignIn, ClearError, Emit, Page
  <2>2. /\ truth' \in News /\ session' \in {"good", "dead", "none"}
        /\ helper' \in {"good", "dead", "none"} /\ phase' \in Phases
    BY <1>19, EmitFacts, DataFacts, BoundsAssumption
       DEF SignIn, ClearError, Emit, Page, Phases
  <2>3. /\ poll' \in [epoch : 0..MaxSignIns, base : News, reply : ReplySet, before : CardSet]
        /\ errorEpoch' \in 0..MaxSignIns /\ cards' \in CardSet
    BY <1>19, EmitFacts, DataFacts, BoundsAssumption
       DEF SignIn, ClearError, Emit, Page
  <2>4. streaming' \in [Browsers -> BOOLEAN]
    BY <1>19, EmitFacts, DataFacts, BoundsAssumption
       DEF SignIn, ClearError, Emit, Page
  <2>5. frame' \in [Browsers -> Page]
    BY <1>19, EmitFacts, DataFacts, BoundsAssumption, <2>1, <2>3
       DEF SignIn, ClearError, Emit, Page
  <2> QED BY <2>1, <2>2, <2>3, <2>4, <2>5 DEF Page, Phases
<1>20. CASE SignOut
  BY <1>20, DataFacts
     DEF SignOut
<1>21. CASE Apply
  BY <1>21, DataFacts
     DEF Apply
<1>22. CASE Recycled
  BY <1>22, RefreshNowFacts, DataFacts
     DEF Recycled, Phases
<1>23. ASSUME NEW b \in Browsers, Connects(b) PROVE TypeOK'
  BY <1>23, RefreshNowFacts, DataFacts
     DEF Connects, Phases
<1>24. ASSUME NEW b \in Browsers, Loads(b) PROVE TypeOK'
  <2>1. /\ roster' \in BOOLEAN /\ up' \in BOOLEAN /\ dirty' \in BOOLEAN
        /\ debounce' \in BOOLEAN /\ booting' \in BOOLEAN
        /\ lastError' \in BOOLEAN /\ sessionDead' \in BOOLEAN /\ undrawn' \in BOOLEAN
        /\ loggedIn' \in BOOLEAN /\ recycling' \in BOOLEAN
    BY <1>24, RefreshNowFacts, EmitFacts, DataFacts, SnapshotFacts
       DEF Loads, Paint, Emit, Page, Phases
  <2>2. /\ truth' \in News /\ session' \in {"good", "dead", "none"}
        /\ helper' \in {"good", "dead", "none"} /\ phase' \in Phases
    BY <1>24, RefreshNowFacts, EmitFacts, DataFacts, SnapshotFacts
       DEF Loads, Paint, Emit, Page, Phases, Phases
  <2>3. /\ poll' \in [epoch : 0..MaxSignIns, base : News, reply : ReplySet, before : CardSet]
        /\ errorEpoch' \in 0..MaxSignIns /\ cards' \in CardSet
    BY <1>24, RefreshNowFacts, EmitFacts, DataFacts, SnapshotFacts
       DEF Loads, Paint, Emit, Page, Phases
  <2>4. streaming' \in [Browsers -> BOOLEAN]
    BY <1>24, RefreshNowFacts, EmitFacts, DataFacts, SnapshotFacts
       DEF Loads, Paint, Emit, Page, Phases
  <2>5. PICK pending \in {undrawn, TRUE}, drawn \in BOOLEAN :
               LET pages == [frame EXCEPT ![b] = Snapshot(cards', lastError')]
               IN  IF drawn THEN EmitTo(pages) ELSE frame' = pages
    BY <1>24 DEF Loads
  <2> DEFINE pages == [frame EXCEPT ![b] = Snapshot(cards', lastError')]
  <2>6. pages \in [Browsers -> Page]
    BY <1>24, <2>1, <2>3, SnapshotFacts DEF Page
  <2> HIDE DEF pages
  <2>7. EmitTo(pages) \/ frame' = pages
    BY <2>5 DEF pages
  <2>8. frame' \in [Browsers -> Page]
    BY <2>1, <2>3, <2>6, <2>7, EmitFacts
  <2> QED BY <2>1, <2>2, <2>3, <2>4, <2>8 DEF Page, Phases
<1>25. ASSUME NEW b \in Browsers, StreamBreaks(b) PROVE TypeOK'
  BY <1>25, DataFacts
     DEF StreamBreaks
<1>26. ASSUME NEW b \in Browsers, PageCloses(b) PROVE TypeOK'
  BY <1>26, DataFacts
     DEF PageCloses, NoPage
<1>27. CASE UNCHANGED vars
  BY <1>27 DEF vars
<1> QED BY <1>1, <1>2, <1>3, <1>4, <1>5, <1>6, <1>7, <1>8, <1>9, <1>10, <1>11, <1>12, <1>13, <1>14, <1>15, <1>16, <1>17, <1>18, <1>19, <1>20, <1>21, <1>22, <1>23, <1>24, <1>25, <1>26, <1>27 DEF Next

-----------------------------------------------------------------------------
\* A backend that is down holds nothing: only its death leads there.
LEMMA DownStep ==
    ASSUME TypeOK, DownInv, [Next]_vars
    PROVE  DownInv'
<1>1. CASE up' = FALSE /\ (Killed \/ RosterFails)
  BY <1>1 DEF Killed, RosterFails, Down, DownInv
<1>2. CASE up' = TRUE
  BY <1>2 DEF DownInv
<1>3. CASE SessionDies
  BY <1>3 DEF SessionDies, DownInv, controlVars, cardVars, loginVars, pageVars
<1>4. ASSUME NEW b \in Browsers, StreamBreaks(b) \/ PageCloses(b) PROVE DownInv'
  BY <1>4 DEF StreamBreaks, PageCloses, DownInv, TypeOK, controlVars, cardVars, loginVars
<1>5. CASE UNCHANGED vars
  BY <1>5 DEF DownInv, vars, controlVars, cardVars, loginVars, pageVars
<1>6. ASSUME ~(Killed \/ RosterFails), ~SessionDies, Next,
             \A b \in Browsers : ~StreamBreaks(b) /\ ~PageCloses(b)
      PROVE  up' = TRUE
  <2>1. CASE Boot
    BY <2>1 DEF Boot
  <2>2. ASSUME NEW b \in Browsers, Connects(b) \/ Loads(b) PROVE up' = TRUE
    BY <2>2 DEF Connects, Loads, TypeOK
  <2>3. CASE Tick \/ BalanceEvent \/ OtherEvent \/ RosterChanges \/ SignIn \/ SignOut \/ Apply
    BY <2>3 DEF Tick, BalanceEvent, OtherEvent, HasNews, RosterChanges, SignIn, SignOut, Apply, TypeOK
  <2>4. CASE DebounceFires \/ Recycled
    BY <2>4 DEF DebounceFires, Recycled, DownInv, TypeOK
  <2>5. CASE RosterLapses \/ EmptyRoster \/ Ask \/ HelperReplies
    BY <2>5 DEF RosterLapses, EmptyRoster, Ask, HelperReplies, RosterRead, DownInv, TypeOK
  <2>6. CASE IdleAnswer \/ Answer \/ Derive \/ Fails \/ FailsUnnoticed
    BY <2>6 DEF IdleAnswer, Answer, Derive, Fails, FailsUnnoticed, Reported, Answered, DownInv, TypeOK
  <2> QED BY <1>6, <2>1, <2>2, <2>3, <2>4, <2>5, <2>6 DEF Next
<1>7. Killed \/ RosterFails => up' = FALSE
  BY DEF Killed, RosterFails, Down
<1> QED BY <1>1, <1>2, <1>3, <1>4, <1>5, <1>6, <1>7

\* A poll older than a sign-in waits for a helper that is going to be killed, and
\* AUTH answers a poll of this epoch only if the session does not work.
LEMMA EpochStep ==
    ASSUME TypeOK, EpochInv, AuthInv, [Next]_vars
    PROVE  EpochInv' /\ AuthInv'
<1>1. CASE Killed \/ RosterFails
  BY <1>1 DEF Killed, RosterFails, Down, NoPoll, EpochInv, AuthInv
<1>2. CASE EmptyRoster \/ IdleAnswer \/ Derive \/ Fails \/ FailsUnnoticed
  <2>1. Settle /\ UNCHANGED errorEpoch
    BY <1>2 DEF EmptyRoster, IdleAnswer, Derive, Fails, FailsUnnoticed, Reported, loginVars
  <2> QED BY <2>1, SettleFacts DEF NoPoll, EpochInv, AuthInv, TypeOK
<1>3. CASE Ask
  BY <1>3 DEF Ask, NoPoll, NoReply, loginVars, EpochInv, AuthInv, TypeOK
<1>4. CASE HelperReplies
  BY <1>4 DEF HelperReplies, MayAnswer, loginVars, EpochInv, AuthInv, TypeOK
<1>5. CASE Answer
  BY <1>5 DEF Answer, loginVars, EpochInv, AuthInv, TypeOK
<1>6. CASE Tick \/ DebounceFires \/ \E b \in Browsers : Connects(b) \/ Loads(b)
  <2>1. /\ UNCHANGED <<poll, errorEpoch, recycling, session>>
        /\ phase' = "asked" => phase = "asked"
    BY <1>6, RefreshNowFacts
       DEF Tick, DebounceFires, Connects, Loads, twitchVars, loginVars, TypeOK, Phases
  <2> QED BY <2>1 DEF EpochInv, AuthInv
<1>7. CASE Recycled
  BY <1>7, RefreshNowFacts DEF Recycled, EpochInv, AuthInv, TypeOK, Phases
<1>8. CASE Boot \/ RosterLapses
  BY <1>8 DEF Boot, RosterLapses, loginVars, EpochInv, AuthInv
<1>9. CASE SignIn
  BY <1>9 DEF SignIn, ClearError, controlVars, EpochInv, AuthInv, TypeOK
<1>10. CASE BalanceEvent \/ OtherEvent
  BY <1>10 DEF BalanceEvent, OtherEvent, loginVars, EpochInv, AuthInv
<1>11. CASE RosterChanges \/ SessionDies \/ SignOut \/ Apply
  BY <1>11 DEF RosterChanges, SessionDies, SignOut, Apply, twitchVars, controlVars, loginVars,
               EpochInv, AuthInv
<1>12. ASSUME NEW b \in Browsers, StreamBreaks(b) \/ PageCloses(b)
       PROVE  EpochInv' /\ AuthInv'
  BY <1>12 DEF StreamBreaks, PageCloses, twitchVars, controlVars, loginVars, EpochInv, AuthInv
<1>13. CASE UNCHANGED vars
  BY <1>13 DEF vars, twitchVars, controlVars, loginVars, EpochInv, AuthInv
<1> QED BY <1>1, <1>2, <1>3, <1>4, <1>5, <1>6, <1>7, <1>8, <1>9, <1>10, <1>11, <1>12, <1>13
        DEF Next

\* A poll that an event has overtaken has a successor: dirty or the debounce.
LEMMA OvertakenStep ==
    ASSUME TypeOK, OvertakenInv, [Next]_vars
    PROVE  OvertakenInv'
<1>1. CASE Killed \/ RosterFails \/ Boot \/ RosterLapses
  BY <1>1 DEF Killed, RosterFails, Down, Boot, RosterLapses, OvertakenInv, Asked
<1>2. CASE EmptyRoster \/ IdleAnswer \/ Derive \/ Fails \/ FailsUnnoticed
  <2>1. Settle
    BY <1>2 DEF EmptyRoster, IdleAnswer, Derive, Fails, FailsUnnoticed, Reported
  <2> QED BY <2>1, SettleFacts DEF OvertakenInv, Asked, TypeOK
<1>3. CASE Ask
  BY <1>3 DEF Ask, NoPoll, NoReply, twitchVars, OvertakenInv, Asked, TypeOK, News
<1>4. CASE HelperReplies
  <2>1. PICK reply \in Replies :
            MayAnswer(reply) /\ poll' = [poll EXCEPT !.reply = reply]
    BY <1>4 DEF HelperReplies
  <2>2. reply.kind = "cards" => /\ reply.news.balance >= poll.base.balance
                                /\ reply.news.rest >= poll.base.rest
    BY <2>1 DEF MayAnswer, TypeOK, News
  <2> QED BY <1>4, <2>1, <2>2 DEF HelperReplies, OvertakenInv, Asked, TypeOK
<1>5. CASE Answer
  BY <1>5 DEF Answer, Answered, twitchVars, OvertakenInv, Asked, TypeOK
<1>6. CASE Tick \/ DebounceFires \/ Recycled \/ \E b \in Browsers : Connects(b) \/ Loads(b)
  <2>1. /\ UNCHANGED <<poll, truth>>
        /\ Asked' => phase' = phase
        /\ Asked' => dirty' \/ (UNCHANGED <<dirty, debounce>>)
    BY <1>6, RefreshNowFacts
       DEF Tick, DebounceFires, Recycled, Connects, Loads, twitchVars, TypeOK, Phases, Asked
  <2> QED BY <2>1 DEF OvertakenInv, Asked
<1>7. CASE BalanceEvent \/ OtherEvent
  <2>1. UNCHANGED <<phase, poll>> /\ (Asked' => debounce')
    BY <1>7 DEF BalanceEvent, OtherEvent, Rung, Idle, Asked
  <2> QED BY <2>1 DEF OvertakenInv, Asked
<1>8. CASE RosterChanges \/ SessionDies \/ SignIn \/ SignOut \/ Apply
  BY <1>8 DEF RosterChanges, SessionDies, SignIn, SignOut, Apply, twitchVars, controlVars,
              OvertakenInv, Asked
<1>9. ASSUME NEW b \in Browsers, StreamBreaks(b) \/ PageCloses(b) PROVE OvertakenInv'
  BY <1>9 DEF StreamBreaks, PageCloses, twitchVars, controlVars, OvertakenInv, Asked
<1>10. CASE UNCHANGED vars
  BY <1>10 DEF vars, twitchVars, controlVars, OvertakenInv, Asked
<1> QED BY <1>1, <1>2, <1>3, <1>4, <1>5, <1>6, <1>7, <1>8, <1>9, <1>10 DEF Next

\* Cards that lag behind an event are on their way to be replaced.
LEMMA FollowStep ==
    ASSUME TypeOK, DownInv, EpochInv, OvertakenInv, CardsFollowEvents, [Next]_vars
    PROVE  CardsFollowEvents'
<1> USE DEF CardsFollowEvents, Behind
<1>1. CASE Killed \/ RosterFails
  BY <1>1 DEF Killed, RosterFails, Down, NoCards, Cards
<1>2. CASE Boot \/ RosterLapses
  BY <1>2 DEF Boot, RosterLapses
<1>3. CASE EmptyRoster \/ IdleAnswer
  BY <1>3 DEF EmptyRoster, IdleAnswer, NoCards, Cards
<1>4. CASE Ask \/ HelperReplies \/ Answer
  BY <1>4 DEF Ask, HelperReplies, Answer
<1>5. CASE Derive
  <2>1. /\ cards'.balance = poll.reply.news.balance /\ cards'.rest = poll.reply.news.rest
        /\ UNCHANGED truth
    BY <1>5 DEF Derive, Cards, twitchVars
  <2>2. Behind' => dirty \/ debounce
    BY <1>5, <2>1 DEF Derive, OvertakenInv, Asked, TypeOK, News, ReplySet
  <2> QED BY <1>5, <2>2, SettleFacts DEF Derive, TypeOK
<1>6. CASE Fails
  BY <1>6 DEF Fails, Reported, NoCards, Cards
<1>7. CASE FailsUnnoticed
  BY <1>7 DEF FailsUnnoticed, Answered, EpochInv, loginVars
<1>8. CASE Tick \/ DebounceFires \/ Recycled
  BY <1>8, RefreshNowFacts DEF Tick, DebounceFires, Recycled, TypeOK, Phases
<1>9. CASE BalanceEvent
  <2>1. Behind' => cards.kind = "polled" /\ ~undrawn /\ cards.rest < truth.rest
    BY <1>9 DEF BalanceEvent, Applied, TypeOK, News, CardSet
  <2>2. debounce => debounce'
    BY <1>9 DEF BalanceEvent, Rung
  <2> QED BY <1>9, <2>1, <2>2 DEF BalanceEvent, loginVars
<1>10. CASE OtherEvent
  BY <1>10 DEF OtherEvent, Rung
<1>11. CASE RosterChanges \/ SessionDies
  BY <1>11 DEF RosterChanges, SessionDies, controlVars, cardVars, loginVars
<1>12. CASE SignIn \/ SignOut \/ Apply
  BY <1>12 DEF SignIn, SignOut, Apply
<1>13. ASSUME NEW b \in Browsers, Connects(b) PROVE CardsFollowEvents'
  BY <1>13, RefreshNowFacts DEF Connects, twitchVars, cardVars, loginVars, TypeOK, Phases
<1>14. ASSUME NEW b \in Browsers, Loads(b) PROVE CardsFollowEvents'
  <2>1. /\ UNCHANGED <<truth, debounce, lastError, undrawn, recycling>>
        /\ undrawn \/ cards' = cards
        /\ RefreshNow("guarded") \/ UNCHANGED phase
    BY <1>14 DEF Loads, twitchVars, loginVars, TypeOK
  <2> QED BY <2>1, RefreshNowFacts DEF TypeOK, Phases
<1>15. ASSUME NEW b \in Browsers, StreamBreaks(b) \/ PageCloses(b) PROVE CardsFollowEvents'
  BY <1>15 DEF StreamBreaks, PageCloses, twitchVars, controlVars, cardVars, loginVars
<1>16. CASE UNCHANGED vars
  BY <1>16 DEF vars, twitchVars, controlVars, cardVars, loginVars
<1> QED BY <1>1, <1>2, <1>3, <1>4, <1>5, <1>6, <1>7, <1>8, <1>9, <1>10, <1>11, <1>12, <1>13,
           <1>14, <1>15, <1>16 DEF Next

\* A connected browser's undrawn cards are being fetched.
LEMMA ServedStep ==
    ASSUME TypeOK, EpochInv, ClientsAreServed, [Next]_vars
    PROVE  ClientsAreServed'
<1> USE DEF ClientsAreServed
<1>1. CASE Killed \/ RosterFails
  BY <1>1 DEF Killed, RosterFails, Down
<1>2. CASE Boot \/ RosterLapses \/ Answer
  BY <1>2 DEF Boot, RosterLapses, Answer
<1>3. CASE EmptyRoster \/ Derive
  BY <1>3 DEF EmptyRoster, Derive
<1>4. CASE IdleAnswer
  BY <1>4 DEF IdleAnswer, Connected, pageVars
<1>5. CASE Ask \/ HelperReplies
  BY <1>5 DEF Ask, HelperReplies
<1>6. CASE Fails
  BY <1>6 DEF Fails, Reported
<1>7. CASE FailsUnnoticed
  BY <1>7 DEF FailsUnnoticed, Answered, EpochInv, loginVars
<1>8. CASE Tick \/ DebounceFires \/ Recycled
  BY <1>8, RefreshNowFacts DEF Tick, DebounceFires, Recycled, TypeOK, Phases
<1>9. CASE BalanceEvent \/ OtherEvent
  BY <1>9 DEF BalanceEvent, OtherEvent, cardVars, loginVars
<1>10. CASE RosterChanges \/ SessionDies
  BY <1>10 DEF RosterChanges, SessionDies, controlVars, cardVars, loginVars, pageVars
<1>11. CASE SignIn \/ SignOut \/ Apply
  BY <1>11 DEF SignIn, SignOut, Apply
<1>12. ASSUME NEW b \in Browsers, Connects(b) PROVE ClientsAreServed'
  <2>1. CASE \A c \in Browsers : ~streaming[c]
    BY <1>12, <2>1, RefreshNowFacts DEF Connects, TypeOK, Phases
  <2>2. CASE \E c \in Browsers : streaming[c]
    BY <1>12, <2>2 DEF Connects, cardVars, loginVars
  <2> QED BY <2>1, <2>2
<1>13. ASSUME NEW b \in Browsers, Loads(b) PROVE ClientsAreServed'
  <2>1. /\ UNCHANGED <<lastError, sessionDead, undrawn, recycling, streaming>>
        /\ RefreshNow("guarded") \/ UNCHANGED phase
    BY <1>13 DEF Loads, loginVars
  <2> QED BY <2>1, RefreshNowFacts DEF TypeOK, Phases
<1>14. ASSUME NEW b \in Browsers, StreamBreaks(b) \/ PageCloses(b) PROVE ClientsAreServed'
  <2>1. \A c \in Browsers : streaming'[c] => streaming[c]
    BY <1>14 DEF StreamBreaks, PageCloses, TypeOK
  <2> QED BY <1>14, <2>1 DEF StreamBreaks, PageCloses, controlVars, cardVars, loginVars
<1>15. CASE UNCHANGED vars
  BY <1>15 DEF vars, controlVars, cardVars, loginVars, pageVars
<1> QED BY <1>1, <1>2, <1>3, <1>4, <1>5, <1>6, <1>7, <1>8, <1>9, <1>10, <1>11, <1>12, <1>13,
           <1>14, <1>15 DEF Next

-----------------------------------------------------------------------------
LEMMA Initially == Init => IInv
<1> SUFFICES ASSUME Init PROVE IInv
  OBVIOUS
<1>1. /\ truth \in News /\ cards \in CardSet /\ errorEpoch \in 0..MaxSignIns
      /\ poll \in [epoch : 0..MaxSignIns, base : News, reply : ReplySet, before : CardSet]
  BY DataFacts, BoundsAssumption DEF Init
<1>2. /\ streaming \in [Browsers -> BOOLEAN]
      /\ frame \in [Browsers -> [shown : BOOLEAN, cards : CardSet, error : BOOLEAN]]
  BY DataFacts DEF Init, NoPage
<1>3. /\ session \in {"good", "dead", "none"} /\ helper \in {"good", "dead", "none"}
      /\ phase \in {"none", "lapsed", "roster", "guarded", "asked", "derive"}
  BY DEF Init
<1>4. /\ roster \in BOOLEAN /\ up \in BOOLEAN /\ dirty \in BOOLEAN /\ debounce \in BOOLEAN
      /\ booting \in BOOLEAN
  BY DEF Init
<1>5. /\ lastError \in BOOLEAN /\ sessionDead \in BOOLEAN /\ undrawn \in BOOLEAN
      /\ loggedIn \in BOOLEAN /\ recycling \in BOOLEAN
  BY DEF Init
<1>6. TypeOK
  BY <1>1, <1>2, <1>3, <1>4, <1>5 DEF TypeOK
<1>7. DownInv /\ CardsFollowEvents /\ ClientsAreServed
  BY DEF Init, DownInv, CardsFollowEvents, Behind, ClientsAreServed
<1>8. EpochInv /\ AuthInv /\ OvertakenInv
  BY DEF Init, EpochInv, AuthInv, OvertakenInv, Asked, NoPoll
<1> QED BY <1>6, <1>7, <1>8 DEF IInv

LEMMA Inductive == Spec => []IInv
<1>1. IInv /\ [Next]_vars => IInv'
  BY TypeStep, DownStep, EpochStep, OvertakenStep, FollowStep, ServedStep DEF IInv
<1> QED BY Initially, <1>1, PTL DEF Spec

\* The types of the state service, the login status and the hub's clients.
THEOREM TypeCorrect == Spec => []TypeOK
<1>1. IInv => TypeOK
  BY DEF IInv
<1> QED BY Inductive, <1>1, PTL

\* Cards that lag behind what an event has told are being refreshed, or due to
\* be, or the failure that kept them is showing; and while a browser is connected,
\* cards that cannot be drawn are being fetched, or the page is told why not.
THEOREM CardsComeAnew == Spec => []CardsAreRenewed
<1>1. IInv => CardsAreRenewed
  BY DEF IInv, CardsAreRenewed
<1> QED BY Inductive, <1>1, PTL

\* Nothing signs a session out that works: only a kill, the user's sign-out and a
\* poll turned away take loggedIn back, and the epoch disowns the poll.
THEOREM SignInHolds == Spec => WorkingSessionStays
<1> DEFINE Step == up /\ up' /\ loggedIn /\ session = "good" /\ session' = "good" => loggedIn'
<1>1. ASSUME IInv, [Next]_vars PROVE Step
  <2>1. CASE Killed \/ RosterFails \/ Boot
    BY <2>1 DEF Killed, RosterFails, Down, Boot
  <2>2. CASE Fails
    BY <1>1, <2>2 DEF Fails, Reported, Answered, IInv, AuthInv
  <2>3. CASE SignIn \/ SignOut
    BY <2>3 DEF SignIn, SignOut
  <2>4. CASE \/ Tick \/ DebounceFires \/ RosterLapses \/ EmptyRoster \/ Ask \/ HelperReplies
             \/ IdleAnswer \/ Answer \/ Derive \/ FailsUnnoticed
    BY <2>4 DEF Tick, DebounceFires, RosterLapses, EmptyRoster, Ask, HelperReplies, IdleAnswer,
                Answer, Derive, FailsUnnoticed, loginVars
  <2>5. CASE \/ BalanceEvent \/ OtherEvent \/ RosterChanges \/ SessionDies \/ Apply \/ Recycled
    BY <2>5 DEF BalanceEvent, OtherEvent, RosterChanges, SessionDies, Apply, Recycled, loginVars
  <2>6. CASE \E b \in Browsers : Connects(b) \/ Loads(b) \/ StreamBreaks(b) \/ PageCloses(b)
    BY <2>6 DEF Connects, Loads, StreamBreaks, PageCloses, loginVars
  <2>7. CASE UNCHANGED vars
    BY <2>7 DEF vars, loginVars
  <2> QED BY <1>1, <2>1, <2>2, <2>3, <2>4, <2>5, <2>6, <2>7 DEF Next
<1>2. IInv /\ [Next]_vars => [Step]_vars
  BY <1>1
<1> QED BY Inductive, <1>2, PTL DEF Spec, WorkingSessionStays

=============================================================================
