------------------------------ MODULE Refresh ------------------------------
(***************************************************************************)
(* The state service (apps/backend/src/state/service.ts): one poll at a    *)
(* time, asked for by a timer, by the miner's events, by the first browser *)
(* to connect and by whatever replaces the helper; the cards and the error *)
(* it holds; and the frames it sends to the browsers.  With it what a      *)
(* sign-in and a sign-out do to it (http/server.ts, helpers/loginStatus.ts)*)
(* and the event hub's clients (http/sse.ts).                              *)
(*                                                                         *)
(* A poll has four steps, each up to its next await: the roster, the       *)
(* question to the helper, the helper's reply, the derivation of cards.    *)
(* One channel stands for the roster.  What is known of it are two         *)
(* numbers, how often its balance and how often anything else about it has *)
(* changed; an event tells of each change, but carries only a balance.     *)
(* The history, which a poll also writes, is Sessions.tla.                 *)
(***************************************************************************)
EXTENDS Integers

CONSTANTS
    Browsers,
    MaxNews,      \* bound: changes of the channel
    MaxSignIns    \* bound: sign-ins of one run of the backend

ASSUME BoundsAssumption == MaxNews \in Nat /\ MaxSignIns \in Nat

VARIABLES
    truth,        \* the channel, as Twitch has it: [balance, rest]
    session,      \* the stored Twitch session: "good", "dead", "none"
    helper,       \* the session the state helper holds
    roster,       \* whether any channel is configured
    up,           \* the backend is running
    phase,        \* this.inFlight: "none", or what it waits for: "roster" or
                  \* "guarded" (the roster, for callers that swallow its
                  \* failure), "asked" (the helper), "derive" (profiles and
                  \* drops); "lapsed" is "none" after such a failure
    poll,         \* doRefresh()'s locals: the epoch and the channel when it
                  \* asked, the helper's reply, the cards held at the answer
    dirty,        \* this.dirty
    debounce,     \* this.debounceTimer is set
    errorEpoch,   \* this.errorEpoch
    lastError,    \* this.lastError is not null
    sessionDead,  \* this.sessionDead
    cards,        \* this.streamers
    undrawn,      \* this.undrawn
    booting,      \* index.ts: the first refresh has not settled
    loggedIn,     \* LoginStatus
    recycling,    \* helper.restart() has not returned
    streaming,    \* the hub's clients
    frame         \* what each page shows: the last snapshot it was sent

twitchVars  == <<truth, session, helper, roster>>
controlVars == <<phase, poll, dirty, debounce, booting>>
cardVars    == <<lastError, sessionDead, cards, undrawn>>
loginVars   == <<errorEpoch, loggedIn, recycling>>
pageVars    == <<streaming, frame>>
vars == <<twitchVars, up, controlVars, cardVars, loginVars, pageVars>>

News == [balance : 0..MaxNews, rest : 0..MaxNews]

\* No cards, cards drawn from the database, cards drawn from a poll.
Untold == [balance |-> 0, rest |-> 0]
Cards(kind, news) == [kind |-> kind, balance |-> news.balance, rest |-> news.rest]
NoCards   == Cards("none", Untold)
FromStore == Cards("store", Untold)

NoPage == [shown |-> FALSE, cards |-> NoCards, error |-> FALSE]
Snapshot(held, error) == [shown |-> TRUE, cards |-> held, error |-> error]

NoReply == [kind |-> "none", news |-> Untold]
NoPoll  == [epoch |-> 0, base |-> Untold, reply |-> NoReply, before |-> NoCards]

\* deps.clientsConnected()
Connected == booting \/ \E b \in Browsers : streaming[b]

\* emit("change"), which the hub broadcasts, in the state the step leads to.
EmitTo(pages) ==
    frame' = [b \in Browsers |-> IF streaming[b]
                                   THEN Snapshot(cards', lastError')
                                 ELSE pages[b]]
Emit == EmitTo(frame)

Idle == phase \in {"none", "lapsed"}

\* refresh(), and whether its caller would have it end the process.
RefreshNow(caller) ==
    /\ phase' = CASE Idle -> caller
                  [] phase = "guarded" /\ caller = "roster" -> "roster"
                  [] OTHER -> phase
    /\ dirty' = (~Idle \/ dirty)

\* The promise in flight settles: a dirty one is followed by the next.
Settle ==
    /\ phase' = IF dirty THEN "roster" ELSE "none"
    /\ dirty' = FALSE
    /\ booting' = FALSE
    /\ poll' = NoPoll
    /\ UNCHANGED debounce

-----------------------------------------------------------------------------
\* A kill, or a roster that cannot be read (below): memory and streams are lost.
Down ==
    /\ up' = FALSE
    /\ phase' = "none" /\ poll' = NoPoll /\ dirty' = FALSE
    /\ debounce' = FALSE /\ booting' = FALSE
    /\ lastError' = FALSE /\ sessionDead' = FALSE
    /\ cards' = NoCards /\ undrawn' = TRUE
    /\ errorEpoch' = 0 /\ loggedIn' = FALSE /\ recycling' = FALSE
    /\ streaming' = [b \in Browsers |-> FALSE]
    /\ UNCHANGED <<twitchVars, frame>>

Killed == up /\ Down

\* check_login may fail for another reason than the session.
Boot ==
    /\ ~up
    /\ up' = TRUE
    /\ \E answered \in BOOLEAN : loggedIn' = (answered /\ session = "good")
    /\ helper' = session
    /\ phase' = "roster" /\ booting' = TRUE
    /\ UNCHANGED <<truth, session, roster, poll, dirty, debounce, cardVars,
                   errorEpoch, recycling, pageVars>>

\* setInterval's tick, when a poll is due.
Tick ==
    /\ up
    /\ RefreshNow("roster")
    /\ UNCHANGED <<twitchVars, up, poll, debounce, booting, cardVars, loginVars,
                   pageVars>>

DebounceFires ==
    /\ debounce
    /\ debounce' = FALSE
    /\ RefreshNow("roster")
    /\ UNCHANGED <<twitchVars, up, poll, booting, cardVars, loginVars, pageVars>>

-----------------------------------------------------------------------------
(* doRefresh().                                                            *)

RosterRead == phase \in {"roster", "guarded"}

\* getStreamers() rejects when config.json cannot be read, outside the try.
\* The timers and the boot leave that rejection to Node, which ends the process;
\* the server's callers swallow it.
RosterFails == phase = "roster" /\ Down

RosterLapses ==
    /\ phase = "guarded"
    /\ phase' = IF dirty THEN "roster" ELSE "lapsed"
    /\ dirty' = FALSE
    /\ UNCHANGED <<twitchVars, up, poll, debounce, booting, cardVars, loginVars,
                   pageVars>>

EmptyRoster ==
    /\ RosterRead /\ ~roster
    /\ cards' = NoCards /\ undrawn' = FALSE
    /\ lastError' = FALSE /\ sessionDead' = FALSE
    /\ IF cards # NoCards THEN Emit ELSE UNCHANGED frame
    /\ Settle
    /\ UNCHANGED <<twitchVars, up, loginVars, streaming>>

\* paintFrom(): nothing drawable is held, so the database is drawn meanwhile.
Paint ==
    IF undrawn THEN cards' = FromStore ELSE cards' = cards

Ask ==
    /\ RosterRead /\ roster
    /\ phase' = "asked"
    /\ poll' = [NoPoll EXCEPT !.epoch = errorEpoch, !.base = truth]
    /\ UNCHANGED <<lastError, sessionDead, undrawn>>
    /\ IF Connected /\ undrawn THEN Paint /\ Emit ELSE UNCHANGED <<cards, frame>>
    /\ UNCHANGED <<twitchVars, up, dirty, debounce, booting, loginVars, streaming>>

\* python/helpers/state.py: a helper without a token loads the stored session
\* first, and one that Twitch turns away loads it then; AUTH says that this
\* did not help.
Loaded == IF helper = "none" THEN session ELSE helper

MayAnswer(reply) ==
    \/ reply.kind = "failed"
    \/ /\ reply.kind = "cards" /\ Loaded = "good"
       /\ reply.news.balance \in poll.base.balance..truth.balance
       /\ reply.news.rest \in poll.base.rest..truth.rest
    \/ reply.kind = "auth" /\ Loaded # "good" /\ session # "good"

Replies == {[kind |-> "failed", news |-> Untold], [kind |-> "auth", news |-> Untold]}
           \cup [kind : {"cards"}, news : News]

\* A helper that is being replaced is killed and answers no more.
HelperReplies ==
    /\ phase = "asked" /\ poll.reply = NoReply
    /\ \E reply \in Replies :
          /\ MayAnswer(reply)
          /\ recycling => reply.kind = "failed"
          /\ poll' = [poll EXCEPT !.reply = reply]
    /\ helper' = IF Loaded = "good" THEN "good" ELSE session
    /\ UNCHANGED <<truth, session, roster, up, phase, dirty, debounce, booting,
                   cardVars, loginVars, pageVars>>

Answered(kind) == phase = "asked" /\ poll.reply.kind = kind

\* Nobody is watching: the history is written and nothing is drawn.
IdleAnswer ==
    /\ Answered("cards") /\ ~Connected
    /\ lastError' = FALSE /\ sessionDead' = FALSE
    /\ undrawn' = TRUE
    /\ Settle
    /\ UNCHANGED <<twitchVars, up, cards, loginVars, pageVars>>

Answer ==
    /\ Answered("cards") /\ Connected
    /\ lastError' = FALSE /\ sessionDead' = FALSE
    /\ phase' = "derive"
    /\ poll' = [poll EXCEPT !.before = cards]
    /\ UNCHANGED <<twitchVars, up, dirty, debounce, booting, cards, undrawn,
                   loginVars, pageVars>>

Derive ==
    /\ phase = "derive"
    /\ cards' = Cards("polled", poll.reply.news)
    /\ undrawn' = FALSE
    /\ UNCHANGED <<lastError, sessionDead>>
    /\ IF cards' # poll.before THEN Emit ELSE UNCHANGED frame
    /\ Settle
    /\ UNCHANGED <<twitchVars, up, loginVars, streaming>>

\* handleRefreshError(), and the server's handler of auth-error.
Reported ==
    /\ \/ /\ Answered("auth")
          /\ loggedIn' = FALSE /\ sessionDead' = TRUE
          /\ lastError' = FALSE /\ cards' = NoCards
       \/ /\ Answered("failed")
          /\ lastError' = TRUE /\ sessionDead' = FALSE
          /\ UNCHANGED <<loggedIn, cards>>
    /\ Emit
    /\ Settle
    /\ UNCHANGED <<twitchVars, up, undrawn, errorEpoch, recycling, streaming>>

\* Mutant: no failure is disowned.
FailsLate == Reported

\* A failure is disowned when a sign-in has come between.
Fails == poll.epoch = errorEpoch /\ Reported

FailsUnnoticed ==
    /\ poll.epoch # errorEpoch
    /\ Answered("auth") \/ Answered("failed")
    /\ Settle
    /\ UNCHANGED <<twitchVars, up, cardVars, loginVars, pageVars>>

-----------------------------------------------------------------------------
(* ring(), and the rest of the world.                                      *)

\* The held card takes the balance the event carries.
Applied(balance) ==
    cards' = IF ~undrawn /\ cards.kind = "polled"
               THEN [cards EXCEPT !.balance = balance]
             ELSE cards

\* Mutant: a poll that is out is taken to know of the event.
RungIgnoringThePoll(settled) == debounce' = (debounce \/ ~settled)

\* Nothing more to ask for, if the event has said it all and no poll is out
\* that was built before it.
Rung(settled) ==
    debounce' = (debounce \/ ~(settled /\ Idle))

EmitUnlessUndrawn == IF undrawn THEN UNCHANGED frame ELSE Emit

HasNews == up /\ truth.balance + truth.rest < MaxNews

BalanceEvent ==
    /\ HasNews
    /\ truth' = [truth EXCEPT !.balance = @ + 1]
    /\ Applied(truth'.balance)
    /\ Rung(TRUE)
    /\ UNCHANGED <<lastError, sessionDead, undrawn>>
    /\ EmitUnlessUndrawn
    /\ UNCHANGED <<session, helper, roster, up, phase, poll, dirty, booting,
                   loginVars, streaming>>

OtherEvent ==
    /\ HasNews
    /\ truth' = [truth EXCEPT !.rest = @ + 1]
    /\ Rung(FALSE)
    /\ UNCHANGED cardVars
    /\ EmitUnlessUndrawn
    /\ UNCHANGED <<session, helper, roster, up, phase, poll, dirty, booting,
                   loginVars, streaming>>

RosterChanges ==
    /\ up
    /\ roster' = ~roster
    /\ UNCHANGED <<truth, session, helper, up, controlVars, cardVars, loginVars,
                   pageVars>>

\* Twitch revokes the session.
SessionDies ==
    /\ session = "good"
    /\ session' = "dead"
    /\ helper' = IF helper = "good" THEN "dead" ELSE helper
    /\ UNCHANGED <<truth, roster, up, controlVars, cardVars, loginVars, pageVars>>

-----------------------------------------------------------------------------
(* Sign-in, sign-out and apply: each recycles the helper.                  *)
(* What they do to the miner changes nothing here but which events come.   *)

\* clearError()
ClearError ==
    /\ errorEpoch' = errorEpoch + 1
    /\ lastError' = FALSE /\ sessionDead' = FALSE
    /\ UNCHANGED <<cards, undrawn>>
    /\ IF lastError \/ sessionDead THEN Emit ELSE UNCHANGED frame

\* The login helper's "ok": it has stored a session.
SignIn ==
    /\ up /\ errorEpoch < MaxSignIns
    /\ session' = "good"
    /\ loggedIn' = TRUE
    /\ ClearError
    /\ recycling' = TRUE
    /\ UNCHANGED <<truth, helper, roster, up, controlVars, streaming>>

SignOut ==
    /\ up
    /\ session' = "none"
    /\ loggedIn' = FALSE
    /\ recycling' = TRUE
    /\ UNCHANGED <<truth, helper, roster, up, controlVars, cardVars, errorEpoch,
                   pageVars>>

Apply ==
    /\ up
    /\ recycling' = TRUE
    /\ UNCHANGED <<twitchVars, up, controlVars, cardVars, errorEpoch, loggedIn,
                   pageVars>>

\* recycleHelper() goes on: the exit of the old helper has failed whatever it
\* was asked (HelperClient.tla), and a new one will load the stored session.
Recycled ==
    /\ recycling /\ phase # "asked"
    /\ recycling' = FALSE
    /\ helper' = session
    /\ RefreshNow("guarded")
    /\ UNCHANGED <<truth, session, roster, up, poll, debounce, booting, cardVars,
                   errorEpoch, loggedIn, pageVars>>

-----------------------------------------------------------------------------
(* Browsers.                                                               *)

\* GET /api/stream: the first client has the cards derived.
Connects(b) ==
    /\ up /\ ~streaming[b]
    /\ streaming' = [streaming EXCEPT ![b] = TRUE]
    /\ IF \A c \in Browsers : ~streaming[c] THEN RefreshNow("guarded")
       ELSE UNCHANGED <<phase, dirty>>
    /\ UNCHANGED <<twitchVars, up, poll, debounce, booting, cardVars, loginVars,
                   frame>>

\* GET /api/streamers, once per page: undrawn cards are drawn from the database
\* first, if there was a roster at the last refresh or there is one now.  Reading
\* that one takes a while, in which a poll may draw them.
Loads(b) ==
    /\ up /\ ~frame[b].shown
    /\ UNCHANGED <<lastError, sessionDead, undrawn>>
    /\ \E pending \in {undrawn, TRUE}, drawn \in BOOLEAN :
          /\ drawn => undrawn
          /\ IF drawn THEN Paint ELSE UNCHANGED cards
          /\ IF pending THEN RefreshNow("guarded") ELSE UNCHANGED <<phase, dirty>>
          /\ LET pages == [frame EXCEPT ![b] = Snapshot(cards', lastError')]
             IN  IF drawn THEN EmitTo(pages) ELSE frame' = pages
    /\ UNCHANGED <<twitchVars, up, poll, debounce, booting, loginVars, streaming>>

\* The stream breaks; the page stays and its EventSource connects again.
StreamBreaks(b) ==
    /\ streaming[b]
    /\ streaming' = [streaming EXCEPT ![b] = FALSE]
    /\ UNCHANGED <<twitchVars, up, controlVars, cardVars, loginVars, frame>>

PageCloses(b) ==
    /\ frame[b].shown
    /\ streaming' = [streaming EXCEPT ![b] = FALSE]
    /\ frame' = [frame EXCEPT ![b] = NoPage]
    /\ UNCHANGED <<twitchVars, up, controlVars, cardVars, loginVars>>

-----------------------------------------------------------------------------
Init ==
    /\ truth = Untold
    /\ session \in {"good", "dead", "none"} /\ helper = session
    /\ roster \in BOOLEAN
    /\ up = FALSE
    /\ phase = "none" /\ poll = NoPoll /\ dirty = FALSE
    /\ debounce = FALSE /\ booting = FALSE
    /\ lastError = FALSE /\ sessionDead = FALSE
    /\ cards = NoCards /\ undrawn = TRUE
    /\ errorEpoch = 0 /\ loggedIn = FALSE /\ recycling = FALSE
    /\ streaming = [b \in Browsers |-> FALSE]
    /\ frame = [b \in Browsers |-> NoPage]

Next ==
    \/ Killed \/ Boot
    \/ Tick \/ DebounceFires
    \/ RosterFails \/ RosterLapses \/ EmptyRoster \/ Ask
    \/ HelperReplies \/ IdleAnswer \/ Answer \/ Derive
    \/ Fails \/ FailsUnnoticed
    \/ BalanceEvent \/ OtherEvent \/ RosterChanges \/ SessionDies
    \/ SignIn \/ SignOut \/ Apply \/ Recycled
    \/ \E b \in Browsers :
          Connects(b) \/ Loads(b) \/ StreamBreaks(b) \/ PageCloses(b)

Spec == Init /\ [][Next]_vars

-----------------------------------------------------------------------------
(* Properties.                                                             *)

CardSet  == [kind : {"none", "store", "polled"}, balance : 0..MaxNews, rest : 0..MaxNews]
ReplySet == [kind : {"none", "failed", "auth", "cards"}, news : News]

TypeOK ==
    /\ truth \in News
    /\ session \in {"good", "dead", "none"} /\ helper \in {"good", "dead", "none"}
    /\ roster \in BOOLEAN /\ up \in BOOLEAN
    /\ phase \in {"none", "lapsed", "roster", "guarded", "asked", "derive"}
    /\ poll \in [epoch : 0..MaxSignIns, base : News, reply : ReplySet, before : CardSet]
    /\ dirty \in BOOLEAN /\ debounce \in BOOLEAN /\ booting \in BOOLEAN
    /\ errorEpoch \in 0..MaxSignIns
    /\ lastError \in BOOLEAN /\ sessionDead \in BOOLEAN
    /\ cards \in CardSet /\ undrawn \in BOOLEAN
    /\ loggedIn \in BOOLEAN /\ recycling \in BOOLEAN
    /\ streaming \in [Browsers -> BOOLEAN]
    /\ frame \in [Browsers -> [shown : BOOLEAN, cards : CardSet, error : BOOLEAN]]

\* A session that works stays signed in: no poll that was asked before the
\* sign-in, whenever and however it fails, signs it out again (the error epoch).
WorkingSessionStays ==
    [][up /\ up' /\ loggedIn /\ session = "good" /\ session' = "good"
         => loggedIn']_vars

\* Cards that are older than what an event has told are on their way to be
\* replaced, or the error that kept them is showing: the poll an event has
\* overtaken is always followed by another.  Only a roster that could not be
\* read, for a caller that swallowed it, leaves them as they are until the next
\* tick (phase "lapsed").
Behind ==
    /\ cards.kind = "polled" /\ ~undrawn
    /\ cards.balance < truth.balance \/ cards.rest < truth.rest

CardsFollowEvents ==
    Behind => phase # "none" \/ debounce \/ recycling \/ lastError

\* While a browser is connected, cards that cannot be drawn are being fetched:
\* whoever connects to an idle backend, also while an idle poll is on its way.
\* The exception is the same.
ClientsAreServed ==
    (\E b \in Browsers : streaming[b]) /\ undrawn
        => phase # "none" \/ recycling \/ lastError \/ sessionDead

\* Nobody is left with cards that no poll will replace: not those an event has
\* overtaken, nor those of a backend that was idle (service.ts:562-577, 691-706,
\* 1052-1061).
CardsAreRenewed == CardsFollowEvents /\ ClientsAreServed
=============================================================================
