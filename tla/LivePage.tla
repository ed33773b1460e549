------------------------------ MODULE LivePage ------------------------------
(***************************************************************************)
(* One tab of the app: the gate in front of it (components/PasswordGate),  *)
(* its one connection to /api/stream (api/useLiveState.ts, http/sse.ts)    *)
(* and what it shows of the server's news: the cards, and the miner's      *)
(* status in the shell (app.tsx).                                          *)
(*                                                                         *)
(* The browser's cookie is a session of the backend that runs, or it is    *)
(* not; other tabs share it, and a restart forgets it (http/auth.ts).      *)
(* An EventSource retries a transport failure by itself and gives up on an *)
(* HTTP error.  News is a number; a frame carries the number it was sent   *)
(* with, and stands for a "state" and a "status" frame of that moment.     *)
(***************************************************************************)
EXTENDS Naturals, Sequences

CONSTANTS
    Streams,     \* EventSource objects; one that was closed can be made again
    NoStream,    \* none of them
    MaxNews,     \* bound: changes of what the server has to show
    MaxFaults,   \* bound: cut connections, outages and lost sessions
    MaxProbes    \* bound: questions about the session in flight

ASSUME NoStreamAssumption == NoStream \notin Streams

VARIABLES
    cookie,     \* the browser's cookie is a session the backend knows
    reachable,  \* the backend answers
    news,       \* what the server has to show
    gate,       \* "checking", "locked" or "open"
    source,     \* each EventSource: "closed", "connecting", "open", "failed"
    wire,       \* the frames on their way through each
    current,    \* current.current?.source, or NoStream
    timers,     \* graceTimer and reconnectTimer are set
    probes,     \* probeAuth() calls: not answered yet, and their answers
    connected,  \* what the badge says
    load,       \* the loads of this mount: the cards and the status
    shown,      \* what the page shows of each
    pushed,     \* a status frame has arrived
    missed,     \* history: no frame sent to this mount, and no load it took,
                \* is as new as what the server has
    faults      \* bound

serverVars == <<cookie, reachable, news>>
linkVars   == <<source, wire, current, timers, probes, connected>>
viewVars   == <<load, shown, pushed, missed>>
pageVars   == <<serverVars, gate, linkVars, viewVars, faults>>

NoProbes == [asked |-> 0, authed |-> 0, refused |-> 0]
NoTimers == [grace |-> FALSE, reconnect |-> FALSE]
Nothing  == [cards |-> 0, status |-> 0]
NotAsked == [is |-> "none", news |-> 0]
Views    == {"cards", "status"}

Live == {s \in Streams : source[s] \in {"connecting", "open"}}
Fault == faults < MaxFaults /\ faults' = faults + 1

-----------------------------------------------------------------------------
(* The connection.                                                         *)

\* connect(): the source held is replaced by one of the others; close() is the
\* caller's.
Connects(open, s) ==
    /\ open[s] = "closed"
    /\ source' = [open EXCEPT ![s] = "connecting"]
    /\ current' = s

ClosedSource(s) == [source EXCEPT ![s] = "closed"]
Emptied(s) == wire' = [wire EXCEPT ![s] = <<>>]

Mounts ==
    /\ gate' = "open"
    /\ \E s \in Streams : Connects(source, s)
    /\ load' = [v \in Views |-> [is |-> "asked", news |-> 0]]
    /\ missed' = TRUE
    /\ UNCHANGED wire

\* The cleanup of the effect, and of all the state below the gate.
Unmounts ==
    /\ gate' = "locked"
    /\ source' = ClosedSource(current)
    /\ Emptied(current)
    /\ current' = NoStream
    /\ timers' = NoTimers
    /\ probes' = NoProbes
    /\ connected' = FALSE
    /\ load' = [v \in Views |-> NotAsked]
    /\ shown' = Nothing
    /\ pushed' = FALSE
    /\ missed' = TRUE

\* The "open" event; the hub has added the client.
Opens(s) ==
    /\ source[s] = "connecting" /\ reachable /\ cookie
    /\ source' = [source EXCEPT ![s] = "open"]
    /\ timers' = [timers EXCEPT !.grace = FALSE]
    /\ connected' = TRUE
    /\ UNCHANGED <<serverVars, gate, wire, current, probes, viewVars, faults>>

\* Mutant: the EventSource is left to recover by itself.
ErrorEventGraceOnly == timers' = [timers EXCEPT !.grace = TRUE]

\* The "error" event arms both timers, unless they are armed.
ErrorEvent == timers' = [grace |-> TRUE, reconnect |-> TRUE]

UnlessStream == UNCHANGED <<news, gate, current, probes, connected, viewVars>>

\* A transport failure: the EventSource goes on trying.
Retries(s) ==
    /\ source[s] = "connecting" /\ ~reachable
    /\ timers # [grace |-> TRUE, reconnect |-> TRUE]
    /\ ErrorEvent
    /\ UNCHANGED <<cookie, reachable, source, wire, faults>> /\ UnlessStream

\* A 401: it does not.
Refused(s) ==
    /\ source[s] = "connecting" /\ reachable /\ ~cookie
    /\ source' = [source EXCEPT ![s] = "failed"]
    /\ ErrorEvent
    /\ UNCHANGED <<cookie, reachable, wire, faults>> /\ UnlessStream

\* A connection is cut, with what was on the wire.
Cut(s) ==
    /\ source[s] = "open"
    /\ Fault
    /\ source' = [source EXCEPT ![s] = "connecting"]
    /\ Emptied(s)
    /\ missed' = (missed \/ wire[s] # <<>>)
    /\ ErrorEvent
    /\ UNCHANGED <<cookie, reachable, news, gate, current, probes, connected,
                   load, shown, pushed>>

GraceFires ==
    /\ timers.grace
    /\ timers' = [timers EXCEPT !.grace = FALSE]
    /\ connected' = FALSE
    /\ UNCHANGED <<serverVars, gate, source, wire, current, probes, viewVars, faults>>

\* RECONNECT_DELAY_MS after the error, whether or not the stream is back.
ReconnectFires ==
    /\ timers.reconnect /\ probes.asked + probes.authed + probes.refused < MaxProbes
    /\ timers' = [timers EXCEPT !.reconnect = FALSE]
    /\ probes' = [probes EXCEPT !.asked = @ + 1]
    /\ UNCHANGED <<serverVars, gate, source, wire, current, connected, viewVars, faults>>

\* probeAuth(): any failure but a 401 counts as a session.
ProbeAnswered ==
    /\ probes.asked > 0
    /\ probes' = IF reachable /\ ~cookie
                   THEN [probes EXCEPT !.asked = @ - 1, !.refused = @ + 1]
                 ELSE [probes EXCEPT !.asked = @ - 1, !.authed = @ + 1]
    /\ UNCHANGED <<serverVars, gate, source, wire, current, timers, connected,
                   viewVars, faults>>

Rebuilds ==
    /\ probes.authed > 0
    /\ probes' = [probes EXCEPT !.authed = @ - 1]
    /\ \E s \in Streams \ {current} : Connects(ClosedSource(current), s)
    /\ Emptied(current)
    /\ missed' = (missed \/ wire[current] # <<>>)
    /\ UNCHANGED <<serverVars, gate, timers, connected, load, shown, pushed, faults>>

\* authExpired, which the shell answers by locking the gate.
Expired ==
    /\ probes.refused > 0
    /\ Unmounts
    /\ UNCHANGED <<serverVars, faults>>

-----------------------------------------------------------------------------
(* The gate.                                                               *)

UnlessMount == UNCHANGED <<timers, probes, connected, shown, pushed>>

CheckAnswers ==
    /\ gate = "checking"
    /\ IF reachable /\ cookie
         THEN Mounts
       ELSE gate' = "locked" /\ UNCHANGED <<source, wire, current, load, missed>>
    /\ UNCHANGED <<serverVars, faults>> /\ UnlessMount

\* The right password; a wrong one, and a backend that is down, leave all as it is.
Unlock ==
    /\ gate = "locked" /\ reachable
    /\ cookie' = TRUE
    /\ Mounts
    /\ UNCHANGED <<reachable, news, faults>> /\ UnlessMount

\* The log-out control of this tab.
LogOut ==
    /\ gate = "open" /\ reachable /\ cookie
    /\ Fault
    /\ cookie' = FALSE
    /\ Unmounts
    /\ UNCHANGED <<reachable, news>>

-----------------------------------------------------------------------------
(* What the page shows.                                                    *)

\* A broadcast, to the clients of the hub.
Publish ==
    /\ reachable /\ news < MaxNews
    /\ news' = news + 1
    /\ wire' = [s \in Streams |-> IF source[s] = "open" THEN Append(wire[s], news')
                                  ELSE wire[s]]
    /\ missed' = (\A s \in Streams : source[s] # "open")
    /\ UNCHANGED <<cookie, reachable, gate, source, current, timers, probes, connected,
                   load, shown, pushed, faults>>

Frame(s) ==
    /\ wire[s] # <<>>
    /\ shown' = [v \in Views |-> Head(wire[s])]
    /\ pushed' = TRUE
    /\ wire' = [wire EXCEPT ![s] = Tail(@)]
    /\ UNCHANGED <<serverVars, gate, source, current, timers, probes, connected,
                   load, missed, faults>>

LoadAnswered(v) ==
    /\ load[v].is = "asked"
    /\ load' = [load EXCEPT ![v] = IF reachable /\ cookie
                                     THEN [is |-> "answered", news |-> news]
                                   ELSE NotAsked]
    /\ UNCHANGED <<serverVars, gate, linkVars, shown, pushed, missed, faults>>

\* Mutant: the status is taken as it comes, too.
AdoptsAll(v) == v \in Views

\* The cards are taken as they come, the status unless a frame was first.
Adopts(v) == v = "status" => ~pushed

LoadReturns(v) ==
    /\ load[v].is = "answered"
    /\ shown' = IF Adopts(v) THEN [shown EXCEPT ![v] = load[v].news] ELSE shown
    /\ load' = [load EXCEPT ![v] = NotAsked]
    /\ missed' = (missed /\ ~(Adopts(v) /\ v = "status" /\ load[v].news = news))
    /\ UNCHANGED <<serverVars, gate, linkVars, pushed, faults>>

-----------------------------------------------------------------------------
(* The backend and the other tabs.                                         *)

UnlessServer == UNCHANGED <<news, gate, current, probes, connected, viewVars>>

\* A session ends: its day is over, or another tab logged out.
SessionEnds ==
    /\ cookie /\ Fault
    /\ cookie' = FALSE
    /\ UNCHANGED <<reachable, source, wire, timers>> /\ UnlessServer

\* The backend goes down, or the network does: every open stream breaks.
GoesDown ==
    /\ reachable /\ Fault
    /\ reachable' = FALSE
    /\ source' = [s \in Streams |-> IF source[s] = "open" THEN "connecting" ELSE source[s]]
    /\ wire' = [s \in Streams |-> <<>>]
    /\ IF \E s \in Streams : source[s] = "open" THEN ErrorEvent ELSE UNCHANGED timers
    /\ missed' = (missed \/ \E s \in Streams : wire[s] # <<>>)
    /\ UNCHANGED <<cookie, news, gate, current, probes, connected, load, shown, pushed>>

\* Back, as the same process or as one that never heard of the cookie.
ComesUp ==
    /\ ~reachable
    /\ reachable' = TRUE
    /\ cookie' \in {cookie, FALSE}
    /\ UNCHANGED <<source, wire, timers, faults>> /\ UnlessServer

OtherTabSignsIn ==
    /\ reachable /\ ~cookie /\ Fault
    /\ cookie' = TRUE
    /\ UNCHANGED <<reachable, source, wire, timers>> /\ UnlessServer

-----------------------------------------------------------------------------

PageInit ==
    /\ cookie \in BOOLEAN /\ reachable = TRUE /\ news = 1
    /\ gate = "checking"
    /\ source = [s \in Streams |-> "closed"] /\ wire = [s \in Streams |-> <<>>]
    /\ current = NoStream
    /\ timers = NoTimers /\ probes = NoProbes
    /\ connected = FALSE
    /\ load = [v \in Views |-> NotAsked] /\ shown = Nothing /\ pushed = FALSE
    /\ missed = TRUE
    /\ faults = 0

StreamStep == \E s \in Streams : Opens(s) \/ Retries(s) \/ Refused(s)
ProbeStep  == ProbeAnswered \/ Rebuilds \/ Expired
Arrives    == \/ \E s \in Streams : Frame(s)
              \/ \E v \in Views : LoadAnswered(v) \/ LoadReturns(v)

PageNext ==
    \/ StreamStep \/ \E s \in Streams : Cut(s)
    \/ GraceFires \/ ReconnectFires \/ ProbeStep
    \/ CheckAnswers \/ Unlock \/ LogOut
    \/ Publish \/ Arrives
    \/ SessionEnds \/ GoesDown \/ ComesUp \/ OtherTabSignsIn

\* Timers fire, requests and connections are answered, an outage ends.
PageFairness ==
    /\ WF_pageVars(StreamStep)
    /\ WF_pageVars(GraceFires \/ ReconnectFires)
    /\ WF_pageVars(ProbeStep)
    /\ WF_pageVars(ComesUp)

PageSpec == PageInit /\ [][PageNext]_pageVars /\ PageFairness

-----------------------------------------------------------------------------
(* What it is for.                                                         *)

\* Whatever timers, probes and reconnects overlap, a page has one connection,
\* the one its handlers belong to, and a locked gate has none.
OneStream == Live \subseteq {current} /\ (gate # "open" => Live = {})

\* When nothing is under way any more, the page shows the status there is,
\* unless that was told while no stream of this page was open: an answer that
\* left before a frame must not undo it.
StatusIsCurrent ==
    gate = "open" /\ ~missed /\ wire[current] = <<>> /\ load["status"].is = "none"
        => shown.status = news

PageIsCurrent == OneStream /\ StatusIsCurrent

\* A page that lost its connection, to an outage, a cut or an ended session,
\* is connected again or locks its gate, without a click or a reload.
Stranded  == gate = "open" /\ \A s \in Streams : source[s] # "open"
Recovered == gate = "locked" \/ (connected /\ \E s \in Streams : source[s] = "open")
PageRecovers == Stranded ~> Recovered

=============================================================================
