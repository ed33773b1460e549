--------------------------- MODULE SessionsProofs ---------------------------
(***************************************************************************)
(* Proofs about Sessions.tla, for every clock, number of streams, balance, *)
(* crash and failure.  The inductive invariant joins the types, the two    *)
(* invariants of the sessions and BalanceInv, which orders the balances on *)
(* their way: what a poll read is no older than any event that can still   *)
(* reach the store without overtaking it.                                  *)
(* And about StateHelper, for any channels, batches, tokens and failures.  *)
(***************************************************************************)
EXTENDS Sessions, StateHelper, SequenceTheorems, TLAPS

Table == [Ids -> [start : Times \cup {None}, end : Times \cup {None},
                  anchor : Balances \cup {None}]]

Event == [at : Times, balance : Balances]

(* A stream that is live has a start, and so has one a poll reports.       *)
StreamInv ==
  /\ stream # Offline => streamStart \in Times
  /\ poll.live \in Ids => poll.start \in Times

(* Nothing on its way is newer than Twitch, and a poll that would not be   *)
(* overtaken read a balance no older than the store's and no older than    *)
(* that of an event sent before it was asked.                              *)
BalanceInv ==
  /\ latest.balance <= balance
  /\ \A i \in DOMAIN bells : bells[i].balance <= balance
  /\ eventAt <= clock /\ poll.askedAt <= clock
  /\ poll.points # None =>
       /\ poll.points <= balance
       /\ eventAt <= poll.askedAt => latest.balance <= poll.points
       /\ \A i \in DOMAIN bells :
            bells[i].at < poll.askedAt => bells[i].balance <= poll.points

IInv == TypeOK /\ StreamInv /\ BalanceInv /\ StartedOnce /\ OneOpenSession

-----------------------------------------------------------------------------
(* What the database's operations do to the table of sessions.             *)

(* Opening adds a row for the stream and touches no other.                 *)
LEMMA OpenedKeeps ==
  ASSUME NEW table \in Table, NEW s \in Ids, NEW start \in Times,
         NEW anchor \in Balances \cup {None}
  PROVE  /\ Opened(table, s, start, anchor) \in Table
         /\ Opened(table, s, start, anchor)[s].start # None
         /\ \A t \in Ids : t # s \/ table[t].start # None =>
              Opened(table, s, start, anchor)[t] = table[t]
         /\ table[s].start = None =>
              Opened(table, s, start, anchor)[s].end = None
  BY DEF Opened, IsNew, Table, Times, Balances, None

(* Closing leaves open at most the row it was told to keep; it changes no  *)
(* row but for its end, and that only where the row was open.              *)
LEMMA ClosedKeeps ==
  ASSUME NEW table \in Table, NEW keep, NEW at \in Times,
         NEW last \in [ts : Times \cup {None}, balance : Balances \cup {None}]
  PROVE  /\ Closed(table, keep, last, at) \in Table
         /\ \A t \in Ids :
              LET new == Closed(table, keep, last, at)[t]
              IN  /\ new.start = table[t].start
                  /\ new.anchor = table[t].anchor
                  /\ table[t].end # None => new.end = table[t].end
                  /\ new.start # None /\ new.end = None => t = keep
                  /\ table[t].end = None /\ new.end # None
                       => new.start <= new.end
  <1> DEFINE new(t) == Closed(table, keep, last, at)[t]
  <1>1. ASSUME NEW t \in Ids
        PROVE  /\ new(t) \in [start : Times \cup {None}, end : Times \cup {None},
                              anchor : Balances \cup {None}]
               /\ new(t).start = table[t].start
               /\ new(t).anchor = table[t].anchor
               /\ table[t].end # None => new(t).end = table[t].end
               /\ new(t).start # None /\ new(t).end = None => t = keep
               /\ table[t].end = None /\ new(t).end # None
                    => new(t).start <= new(t).end
    BY <1>1, BoundsAssumption DEF Closed, Evidence, Table, Times, Balances, None
  <1>2. Closed(table, keep, last, at) \in Table
    BY <1>1 DEF Closed, Table
  <1> QED
    BY <1>1, <1>2

-----------------------------------------------------------------------------
(* The first state.                                                        *)
LEMMA InitInvariant == Init => IInv
  <1> SUFFICES ASSUME Init PROVE IInv
    OBVIOUS
  <1> USE BoundsAssumption DEF Init, Times, Balances, None, Offline, Ids
  <1>1. TypeOK
    BY EmptySeq DEF TypeOK, NoPoll, NoRow
  <1>2. StreamInv /\ BalanceInv
    BY DEF StreamInv, BalanceInv, NoPoll
  <1>3. StartedOnce /\ OneOpenSession
    BY DEF StartedOnce, OneOpenSession, Open, NoRow
  <1> QED
    BY <1>1, <1>2, <1>3 DEF IInv

-----------------------------------------------------------------------------
(* A poll in its parts.                                                    *)
LEMMA PollTypes ==
  ASSUME TypeOK
  PROVE  /\ NoPoll \in [phase : {"idle", "asked", "answered"},
                        askedAt : Times \cup {None},
                        points : Balances \cup {None},
                        live : 0..MaxStreams \cup {None},
                        start : Times \cup {None}]
         /\ poll.points \in Balances \cup {None}
         /\ poll.live \in 0..MaxStreams \cup {None}
         /\ poll.start \in Times \cup {None}
         /\ poll.askedAt \in Times \cup {None}
  BY DEF TypeOK, NoPoll

(* A queue that is not empty has an event at its head.                     *)
LEMMA BellsQueue ==
  ASSUME TypeOK, bells # << >>
  PROVE  /\ Head(bells) \in Event /\ Head(bells) = bells[1]
         /\ 1 \in DOMAIN bells
         /\ Tail(bells) \in Seq(Event) /\ Len(Tail(bells)) <= BellRoom
         /\ Tail(bells) # bells
         /\ \A i \in DOMAIN Tail(bells) :
              i + 1 \in DOMAIN bells /\ Tail(bells)[i] = bells[i + 1]
  <1>1. bells \in Seq(Event) /\ Len(bells) <= BellRoom
    BY DEF TypeOK, Event
  <1>2. /\ Head(bells) \in Event
        /\ Tail(bells) \in Seq(Event) /\ Len(Tail(bells)) = Len(bells) - 1
        /\ \A i \in 1..Len(Tail(bells)) : Tail(bells)[i] = bells[i + 1]
    BY <1>1, HeadTailProperties
  <1>3. /\ Len(bells) \in Nat /\ DOMAIN bells = 1..Len(bells)
        /\ Len(bells) # 0
        /\ DOMAIN Tail(bells) = 1..Len(Tail(bells))
    BY <1>1, <1>2, LenProperties, EmptySeq
  <1>4. Head(bells) = bells[1]
    BY <1>1 DEF Head
  <1>5. 1 \in DOMAIN bells
    BY <1>3
  <1>6. Tail(bells) # bells /\ Len(Tail(bells)) <= BellRoom
    <2> DEFINE n == Len(bells)
               m == Len(Tail(bells))
    <2>1. m = n - 1 /\ n \in Nat /\ n <= BellRoom
      BY <1>1, <1>2, <1>3
    <2>2. Tail(bells) = bells => m = n
      OBVIOUS
    <2> HIDE DEF n, m
    <2>3. m # n /\ m <= BellRoom
      BY <2>1, BoundsAssumption
    <2> QED
      BY <2>2, <2>3 DEF m
  <1>7. \A i \in DOMAIN Tail(bells) :
           i + 1 \in DOMAIN bells /\ Tail(bells)[i] = bells[i + 1]
    BY <1>2, <1>3
  <1> QED
    BY <1>2, <1>4, <1>5, <1>6, <1>7

(* What an applied answer does to the sessions, part by part: opened is    *)
(* the table after openStreamerSession.                                    *)
LEMMA AppliedTables ==
  ASSUME TypeOK, StreamInv, Apply,
         NEW opened,
         opened = IF IsLive THEN Opened(rows, poll.live, poll.start, poll.points)
                  ELSE rows
  PROVE  /\ opened \in Table
         /\ \A t \in Ids : t # poll.live \/ rows[t].start # None
                             => opened[t] = rows[t]
         /\ IsLive => /\ poll.live \in Ids
                      /\ opened[poll.live].start # None
                      /\ rows[poll.live].start = None
                           => opened[poll.live].end = None
         /\ latest' \in [ts : Times \cup {None}, balance : Balances \cup {None}]
         /\ rows' = Closed(opened, poll.live, latest', clock)
  <1>1. /\ rows \in Table /\ clock \in Times
        /\ poll.points \in Balances \cup {None}
    BY PollTypes DEF TypeOK, Table
  <1>2. CASE IsLive
    <2>1. poll.live \in Ids /\ poll.start \in Times
      BY <1>2, PollTypes, BoundsAssumption DEF IsLive, StreamInv, Ids, Offline, None
    <2> QED
      <3>1. latest' \in [ts : Times \cup {None}, balance : Balances \cup {None}]
        BY <1>1 DEF Apply, Recorded, TypeOK
      <3>2. opened = Opened(rows, poll.live, poll.start, poll.points)
        BY <1>2
      <3>3. rows' = Closed(opened, poll.live, latest', clock)
        BY DEF Apply
      <3> HIDE DEF Apply
      <3> QED
        BY <1>1, <2>1, <3>1, <3>2, <3>3, OpenedKeeps
  <1>3. CASE ~IsLive
    BY <1>1, <1>3 DEF Apply, Recorded, TypeOK
  <1> QED
    BY <1>2, <1>3

-----------------------------------------------------------------------------
(* Every step keeps the types.                                             *)
LEMMA TypeStep ==
  ASSUME IInv, Next
  PROVE  TypeOK'
  <1> USE BoundsAssumption DEF IInv
  <1>1. CASE Tick
    BY <1>1 DEF Tick, TypeOK, Times, twitch, memory, store, counts
  <1>2. CASE GoLive
    BY <1>2 DEF GoLive, TypeOK, Times, memory, store, counts
  <1>3. CASE GoOffline
    BY <1>3 DEF GoOffline, TypeOK, Offline, memory, store, counts
  <1>4. ASSUME NEW heard \in BOOLEAN, BalanceChanges(heard) PROVE TypeOK'
    <2>1. [at |-> clock, balance |-> balance + 1] \in Event /\ balance' \in Balances
      BY <1>4 DEF BalanceChanges, TypeOK, Event, Balances
    <2>2. bells \in Seq(Event) /\ Len(bells) \in Nat /\ Len(bells) <= BellRoom
      BY LenProperties DEF TypeOK, Event
    <2>3. ASSUME NEW event \in Event
          PROVE  Enqueued(event) \in Seq(Event) /\ Len(Enqueued(event)) <= BellRoom
      BY <2>2, <2>3, AppendProperties DEF Enqueued
    <2>4. bells' \in Seq(Event) /\ Len(bells') <= BellRoom
      BY <1>4, <2>1, <2>2, <2>3 DEF BalanceChanges
    <2> QED
      BY <1>4, <2>1, <2>4 DEF BalanceChanges, TypeOK, Event, memory, store, counts
  <1>5. CASE Ring
    <2>1. /\ Head(bells) \in Event
          /\ Tail(bells) \in Seq(Event) /\ Len(Tail(bells)) <= BellRoom
      BY <1>5, BellsQueue DEF Ring
    <2>2. latest' \in [ts : Times \cup {None}, balance : Balances \cup {None}]
      BY <1>5, <2>1 DEF Ring, Recorded, TypeOK, Event
    <2> QED
      BY <1>5, <2>1, <2>2 DEF Ring, TypeOK, Event, twitch, counts
  <1>6. CASE PostFails
    <2>1. Tail(bells) \in Seq(Event) /\ Len(Tail(bells)) <= BellRoom
      BY <1>6, BellsQueue DEF PostFails
    <2> QED
      BY <1>6, <2>1 DEF PostFails, TypeOK, Event, twitch, memory, store
  <1>7. CASE Ask
    BY <1>7, PollTypes DEF Ask, TypeOK, NoPoll, twitch, store, counts
  <1>8. CASE LookUp
    BY <1>8 DEF LookUp, TypeOK, twitch, store, counts
  <1>9. CASE LookUpFails
    <2>1. fails' \in 0..MaxFails
      BY <1>9 DEF LookUpFails, TypeOK
    <2>2. poll' \in [phase : {"idle", "asked", "answered"},
                     askedAt : Times \cup {None}, points : Balances \cup {None},
                     live : 0..MaxStreams \cup {None}, start : Times \cup {None}]
      BY <1>9 DEF LookUpFails, TypeOK
    <2> QED
      BY <1>9, <2>1, <2>2 DEF LookUpFails, TypeOK, twitch, store
  <1>10. CASE PollFails
    BY <1>10, PollTypes DEF PollFails, TypeOK, twitch, store
  <1>11. CASE Apply
    <2> DEFINE opened == IF IsLive
                         THEN Opened(rows, poll.live, poll.start, poll.points)
                         ELSE rows
    <2>1. /\ opened \in Table
          /\ latest' \in [ts : Times \cup {None}, balance : Balances \cup {None}]
          /\ rows' = Closed(opened, poll.live, latest', clock)
      BY <1>11, AppliedTables
    <2>2. rows' \in Table
      BY <2>1, ClosedKeeps DEF TypeOK
    <2>3. announced' \in [Ids -> Nat]
      <3>1. Reported => poll.live \in Ids
        BY <1>11, AppliedTables DEF Reported
      <3> QED
        BY <1>11, <3>1 DEF Apply, TypeOK
    <2> QED
      BY <1>11, <2>1, <2>2, <2>3, PollTypes DEF Apply, TypeOK, Table, twitch, counts
  <1>12. CASE Killed
    <2>1. << >> \in Seq(Event) /\ Len(<< >>) = 0
      BY EmptySeq
    <2>2. crashes' \in 0..MaxCrashes
      BY <1>12 DEF Killed, TypeOK
    <2>3. bells' \in Seq(Event) /\ Len(bells') <= BellRoom
      BY <1>12, <2>1 DEF Killed
    <2>4. /\ poll' = NoPoll /\ eventAt' = None /\ live' = None /\ up' = FALSE
          /\ UNCHANGED <<clock, stream, streamStart, streams, balance, latest,
                         rows, announced, fails>>
      BY <1>12 DEF Killed, twitch, store
    <2> QED
      BY <2>2, <2>3, <2>4, PollTypes DEF TypeOK, Event
  <1>13. CASE Boot
    BY <1>13 DEF Boot, TypeOK, twitch, memory, store, counts
  <1> QED
    BY <1>1, <1>2, <1>3, <1>4, <1>5, <1>6, <1>7, <1>8, <1>9, <1>10, <1>11,
       <1>12, <1>13 DEF Next

-----------------------------------------------------------------------------
(* Every step keeps the balances in order.  Time, the channel's streams    *)
(* and failures leave them alone; the rest is one step per action.         *)
LEMMA BalanceStep ==
  ASSUME IInv, Next
  PROVE  StreamInv' /\ BalanceInv'
  <1> USE DEF IInv, None
  <1>0. /\ clock \in Nat /\ balance \in Nat /\ BellRoom \in Nat
        /\ latest.balance \in Int /\ eventAt \in Int
        /\ poll.askedAt \in Int /\ poll.points \in Int
    BY PollTypes, BoundsAssumption DEF TypeOK, Times, Balances
  <1>n. /\ NoPoll.askedAt = None /\ NoPoll.points = None /\ NoPoll.live = None
    BY DEF NoPoll
  <1>i. None \notin Ids
    BY DEF Ids
  <1>1. CASE Tick
    BY <1>0, <1>1 DEF Tick, StreamInv, BalanceInv, twitch, memory, store
  <1>2. CASE GoLive
    BY <1>0, <1>2 DEF GoLive, StreamInv, BalanceInv, TypeOK, memory, store
  <1>3. CASE GoOffline
    BY <1>0, <1>3 DEF GoOffline, StreamInv, BalanceInv, memory, store
  <1>4. ASSUME NEW heard \in BOOLEAN, BalanceChanges(heard)
        PROVE  StreamInv' /\ BalanceInv'
    <2> DEFINE event == [at |-> clock, balance |-> balance + 1]
    <2>1. /\ UNCHANGED <<clock, stream, streamStart, poll, eventAt, latest>>
          /\ balance' = balance + 1
          /\ bells' = bells \/ bells' = Append(bells, event)
      BY <1>4 DEF BalanceChanges, Enqueued, memory, store
    <2>2. ASSUME NEW i \in DOMAIN bells'
          PROVE  (i \in DOMAIN bells /\ bells'[i] = bells[i]) \/ bells'[i] = event
      <3>1. bells \in Seq(Event) /\ event \in Event
        <4>1. balance + 1 \in Balances
          BY <1>4, BoundsAssumption DEF BalanceChanges, TypeOK, Balances
        <4> QED
          BY <4>1 DEF TypeOK, Event
      <3>2. CASE bells' = Append(bells, event)
        BY <2>2, <3>1, <3>2, AppendProperties, LenProperties
      <3> QED
        BY <2>1, <2>2, <3>2
    <2>3. event.at = clock /\ event.balance = balance + 1
      OBVIOUS
    <2>4. \A i \in DOMAIN bells : bells[i].balance \in Nat
      <3>1. \A i \in DOMAIN bells : bells[i] \in Event
        <4>1. bells \in Seq(Event)
          BY DEF TypeOK, Event
        <4>2. DOMAIN bells = 1..Len(bells)
          BY <4>1, LenProperties
        <4> QED
          BY <4>1, <4>2, ElementOfSeq
      <3> QED
        BY <3>1, BoundsAssumption DEF Event, Balances
    <2> HIDE DEF event
    <2>5. \A i \in DOMAIN bells' : bells'[i].balance <= balance'
      BY <1>0, <2>1, <2>2, <2>3, <2>4 DEF BalanceInv
    <2>6. poll.points # None =>
            \A i \in DOMAIN bells' :
              bells'[i].at < poll.askedAt => bells'[i].balance <= poll.points
      BY <1>0, <2>2, <2>3 DEF BalanceInv
    <2> QED
      BY <1>0, <2>1, <2>5, <2>6 DEF StreamInv, BalanceInv
  <1>5. CASE Ring
    <2>1. /\ UNCHANGED <<clock, stream, streamStart, balance, poll>>
          /\ bells # << >> /\ Head(bells).at < clock
          /\ bells' = Tail(bells) /\ eventAt' = clock
          /\ latest'.balance = Head(bells).balance
      BY <1>5 DEF Ring, Recorded, twitch
    <2>2. Head(bells).at \in Nat /\ Head(bells).balance \in Nat
      BY <2>1, BellsQueue DEF Event, Times, Balances
    <2>3. Head(bells).balance <= balance
      BY <2>1, BellsQueue DEF BalanceInv
    <2>4. poll.points # None /\ clock <= poll.askedAt => Head(bells).balance <= poll.points
      BY <1>0, <2>1, <2>2, BellsQueue DEF BalanceInv
    <2>5. \A i \in DOMAIN bells' : i + 1 \in DOMAIN bells /\ bells'[i] = bells[i + 1]
      BY <2>1, BellsQueue
    <2> QED
      BY <1>0, <2>1, <2>3, <2>4, <2>5 DEF StreamInv, BalanceInv
  <1>6. CASE PostFails
    <2>1. /\ UNCHANGED <<clock, stream, streamStart, balance, poll, latest, eventAt>>
          /\ \A i \in DOMAIN bells' : i + 1 \in DOMAIN bells /\ bells'[i] = bells[i + 1]
      BY <1>6, BellsQueue DEF PostFails, twitch, memory, store
    <2> QED
      BY <2>1 DEF StreamInv, BalanceInv
  <1>7. CASE Ask
    <2>1. poll'.askedAt = clock /\ poll'.points = None /\ poll'.live = None
      BY <1>7 DEF Ask, NoPoll
    <2> QED
      BY <1>0, <1>7, <1>i, <2>1 DEF Ask, StreamInv, BalanceInv, twitch, store
  <1>8. CASE LookUp
    <2>1. /\ poll'.askedAt = poll.askedAt /\ poll'.points = balance
          /\ poll'.live = stream /\ poll'.start = streamStart
      BY <1>8 DEF LookUp, TypeOK
    <2>2. stream \in Ids => streamStart \in Times
      BY DEF StreamInv, Ids, Offline
    <2> QED
      BY <1>0, <1>8, <2>1, <2>2 DEF LookUp, StreamInv, BalanceInv, twitch, store
  <1>9. CASE LookUpFails
    <2>1. /\ poll'.askedAt = poll.askedAt /\ poll'.points = poll.points
          /\ poll'.live = poll.live /\ poll'.start = poll.start
      BY <1>9 DEF LookUpFails, TypeOK
    <2> QED
      BY <1>9, <2>1 DEF LookUpFails, StreamInv, BalanceInv, twitch, store
  <1>10. CASE PollFails
    BY <1>0, <1>10, <1>n, <1>i DEF PollFails, StreamInv, BalanceInv, twitch, store
  <1>11. CASE Apply
    <2>1. \/ latest'.balance = latest.balance
          \/ latest'.balance = poll.points /\ poll.points # None
      <3>1. \/ latest' = latest
            \/ poll.points # None /\ latest' = Recorded(latest, poll.points, clock)
        BY <1>11 DEF Apply
      <3>2. Recorded(latest, poll.points, clock).balance = poll.points
        BY DEF Recorded
      <3> QED
        BY <3>1, <3>2
    <2>2. poll' = NoPoll /\ UNCHANGED <<clock, stream, streamStart, balance, bells, eventAt>>
      BY <1>11 DEF Apply, twitch
    <2> QED
      BY <1>0, <1>n, <1>i, <2>1, <2>2 DEF StreamInv, BalanceInv
  <1>12. CASE Killed
    <2>1. DOMAIN bells' = {}
      BY <1>12 DEF Killed
    <2>2. /\ poll' = NoPoll /\ eventAt' = None
          /\ UNCHANGED <<clock, stream, streamStart, balance, latest>>
      BY <1>12 DEF Killed, twitch, store
    <2> QED
      BY <1>0, <1>n, <1>i, <2>1, <2>2 DEF StreamInv, BalanceInv
  <1>13. CASE Boot
    BY <1>13 DEF Boot, StreamInv, BalanceInv, twitch, memory, store
  <1> QED
    BY <1>1, <1>2, <1>3, <1>4, <1>5, <1>6, <1>7, <1>8, <1>9, <1>10, <1>11,
       <1>12, <1>13 DEF Next

-----------------------------------------------------------------------------
(* Every step but Apply leaves the sessions alone.                         *)
LEMMA OnlyApplyWrites ==
  ASSUME Next, ~Apply
  PROVE  UNCHANGED <<rows, announced>>
  BY DEF Next, Tick, GoLive, GoOffline, BalanceChanges, Ring, PostFails, Ask,
         LookUp, LookUpFails, PollFails, Killed, Boot, store

(* Applying an answer keeps every row that exists, but for its end.        *)
LEMMA ApplyKeepsRows ==
  ASSUME IInv, Apply, NEW s \in Ids, rows[s].start # None
  PROVE  /\ rows'[s].start = rows[s].start
         /\ rows'[s].anchor = rows[s].anchor
         /\ rows[s].end # None => rows'[s].end = rows[s].end
  <1> DEFINE opened == IF IsLive
                       THEN Opened(rows, poll.live, poll.start, poll.points)
                       ELSE rows
  <1>1. /\ opened \in Table /\ opened[s] = rows[s]
        /\ latest' \in [ts : Times \cup {None}, balance : Balances \cup {None}]
        /\ rows' = Closed(opened, poll.live, latest', clock)
    BY AppliedTables DEF IInv
  <1>2. clock \in Times
    BY DEF IInv, TypeOK
  <1> HIDE DEF opened
  <1> QED
    BY <1>1, <1>2, ClosedKeeps

(* Every step keeps the sessions' invariants.                              *)
LEMMA SessionsStep ==
  ASSUME IInv, Next
  PROVE  StartedOnce' /\ OneOpenSession'
  <1>1. CASE Apply
    <2> DEFINE opened == IF IsLive
                         THEN Opened(rows, poll.live, poll.start, poll.points)
                         ELSE rows
    <2>1. /\ opened \in Table
          /\ \A t \in Ids : t # poll.live \/ rows[t].start # None
                              => opened[t] = rows[t]
          /\ IsLive => /\ poll.live \in Ids
                       /\ opened[poll.live].start # None
                       /\ rows[poll.live].start = None
                            => opened[poll.live].end = None
          /\ rows' = Closed(opened, poll.live, latest', clock)
          /\ latest' \in [ts : Times \cup {None}, balance : Balances \cup {None}]
      BY <1>1, AppliedTables DEF IInv
    <2>2. clock \in Times
      BY DEF IInv, TypeOK
    <2>3. ~IsLive => opened = rows
      OBVIOUS
    <2> HIDE DEF opened
    <2>4. ASSUME NEW t \in Ids
          PROVE  /\ rows'[t].start = opened[t].start
                 /\ opened[t].end # None => rows'[t].end = opened[t].end
                 /\ rows'[t].start # None /\ rows'[t].end = None => t = poll.live
                 /\ opened[t].end = None /\ rows'[t].end # None
                      => rows'[t].start <= rows'[t].end
      BY <2>1, <2>2, ClosedKeeps
    <2>5. OneOpenSession'
      <3>1. \A s, t \in Ids : Open(s)' /\ Open(t)' => s = t
        BY <2>4 DEF Open
      <3>2. ASSUME NEW s \in Ids, rows'[s].end # None
            PROVE  rows'[s].start <= rows'[s].end
        <4>1. CASE opened[s].end = None
          BY <2>4, <3>2, <4>1
        <4>2. CASE opened[s].end # None
          <5>1. opened[s] = rows[s]
            BY <2>1, <2>3, <4>2
          <5> QED
            BY <2>4, <4>2, <5>1 DEF IInv, OneOpenSession
        <4> QED
          BY <4>1, <4>2
      <3> QED
        BY <3>1, <3>2 DEF OneOpenSession
    <2>6. StartedOnce'
      <3>1. ASSUME NEW s \in Ids
            PROVE  announced'[s] = IF rows'[s].start = None THEN 0 ELSE 1
        <4>1. announced[s] = IF rows[s].start = None THEN 0 ELSE 1
          BY DEF IInv, StartedOnce
        <4>2. announced \in [Ids -> Nat]
          BY DEF IInv, TypeOK
        <4>3. CASE Reported /\ s = poll.live
          <5>1. rows[s].start = None /\ opened[s].start # None
            BY <2>1, <4>3 DEF Reported, IsNew
          <5>2. announced'[s] = announced[s] + 1
            BY <1>1, <4>2, <4>3 DEF Apply
          <5> QED
            BY <2>4, <4>1, <5>1, <5>2
        <4>4. CASE ~(Reported /\ s = poll.live)
          <5>1. announced'[s] = announced[s]
            BY <1>1, <4>2, <4>4 DEF Apply
          <5>2. opened[s].start = rows[s].start
            BY <2>1, <2>3, <4>4 DEF Reported, IsNew
          <5> QED
            BY <2>4, <4>1, <5>1, <5>2
        <4> QED
          BY <4>3, <4>4
      <3> QED
        BY <3>1 DEF StartedOnce
    <2> QED
      BY <2>5, <2>6
  <1>2. CASE ~Apply
    <2>1. UNCHANGED <<rows, announced>>
      BY <1>2, OnlyApplyWrites
    <2> QED
      BY <2>1 DEF IInv, StartedOnce, OneOpenSession, Open
  <1> QED
    BY <1>1, <1>2

-----------------------------------------------------------------------------
(* The invariant holds in every reachable state.                           *)
THEOREM Invariance == Spec => []IInv
  <1>1. IInv /\ [Next]_vars => IInv'
    <2>1. CASE Next
      BY <2>1, TypeStep, BalanceStep, SessionsStep DEF IInv
    <2>2. CASE UNCHANGED vars
      BY <2>2 DEF vars, twitch, memory, store, counts, IInv, TypeOK, StreamInv,
                  BalanceInv, StartedOnce, OneOpenSession, Open
    <2> QED
      BY <2>1, <2>2
  <1> QED
    BY InitInvariant, <1>1, PTL DEF Spec

(* The variables keep their types, and the doorbell's queue its bound.     *)
THEOREM TypeCorrect == Spec => []TypeOK
  BY Invariance, PTL DEF IInv

(* A stream is reported as started exactly when its row is inserted: once, *)
(* whatever the polls, the failures and the kills in between.              *)
THEOREM StreamsAreReportedOnce == Spec => []StartedOnce
  BY Invariance, PTL DEF IInv

(* No channel ever has two sessions open, and none ends before it began.   *)
THEOREM AtMostOneSessionIsOpen == Spec => []OneOpenSession
  BY Invariance, PTL DEF IInv

(* Whatever the order of polls and events, no poll takes the recorded      *)
(* balance back.                                                           *)
THEOREM PollsKeepTheNewestBalance == Spec => PollsNeverGoBack
  <1>1. IInv /\ [Next]_vars => [bells' = bells => latest'.balance >= latest.balance]_vars
    <2> SUFFICES ASSUME IInv, Next, bells' = bells
                 PROVE  latest'.balance >= latest.balance
      OBVIOUS
    <2>0. /\ latest.balance \in Int /\ poll.points \in Int
          /\ eventAt \in Int /\ poll.askedAt \in Int
      BY PollTypes DEF IInv, TypeOK, Balances, Times, None
    <2>1. CASE Apply
      <3>1. \/ latest'.balance = latest.balance
            \/ /\ latest'.balance = poll.points /\ poll.points # None
               /\ ~Overtaken
        BY <2>1 DEF Apply, Recorded
      <3> QED
        BY <2>0, <3>1 DEF IInv, BalanceInv, Overtaken
    <2>2. CASE Ring
      BY <2>2, BellsQueue DEF Ring, IInv
    <2>3. CASE ~Apply /\ ~Ring
      <3>1. latest' = latest
        BY <2>3 DEF Next, Tick, GoLive, GoOffline, BalanceChanges, PostFails, Ask,
                    LookUp, LookUpFails, PollFails, Killed, Boot, store
      <3> QED
        BY <2>0, <3>1
    <2> QED
      BY <2>1, <2>2, <2>3
  <1> QED
    BY <1>1, Invariance, PTL DEF Spec, PollsNeverGoBack

(* A session once recorded keeps its start, the anchor its gain is         *)
(* measured from and, when it is closed, its end.                          *)
THEOREM RecordedSessionsStay == Spec => SessionsAreKept
  <1>1. IInv /\ [Next]_vars => [KeepsSessions]_vars
    <2> SUFFICES ASSUME IInv, Next, NEW s \in Ids, rows[s].start # None
                 PROVE  /\ rows'[s].start = rows[s].start
                        /\ rows'[s].anchor = rows[s].anchor
                        /\ rows[s].end # None => rows'[s].end = rows[s].end
      BY DEF KeepsSessions
    <2> QED
      BY ApplyKeepsRows, OnlyApplyWrites
  <1> QED
    BY <1>1, Invariance, PTL DEF Spec, SessionsAreKept

(* A stream has one session, opened and reported once, closed once.        *)
THEOREM SessionsAreOfStreams == Spec => []SessionsMatchStreams
  BY StreamsAreReportedOnce, AtMostOneSessionIsOpen, PTL DEF SessionsMatchStreams

(* What has been recorded is not taken back.                               *)
THEOREM RecordIsFinal == Spec => RecordStays
  BY PollsKeepTheNewestBalance, RecordedSessionsStay DEF RecordStays

-----------------------------------------------------------------------------
\* What a request is: its fields, and a stage of its operation or none.
IsRequest(r) ==
    /\ r = [op |-> r.op, at |-> r.at, todo |-> r.todo, singly |-> r.singly, ok |-> r.ok,
            earned |-> r.earned]
    /\ r.op \in Ops \cup {"none"}
    /\ r.at \in 0..(Len(Stages(r.op)) + 1)
    /\ r.op = "none" => r.at = 0

\* While an operation on channels runs, each of the good ones is still to be asked
\* about or has been answered; when it is over, they all have.
Batched == {"state", "profiles", "inventory"}
NoneIsLost(r, good) ==
    r.op \in Batched /\ r.at > 0 =>
        /\ good \subseteq r.todo \cup r.singly \cup r.ok
        /\ r.at > Len(Stages(r.op)) => r.todo = {} /\ r.singly = {}
Good == Streamers \ (odd \cup faulted)

\* A good token in the file since the request came is there now.
SteadyIsGood == steady => GoodPickle

\* A request that was refused under one good token left the helper with that token,
\* which Twitch honours: the next cannot be refused.
RefusedHasToken == spoilt > 0 => GoodPickle /\ token = pickle /\ ~Classifying

HelperInv ==
    /\ IsRequest(request) /\ spoilt \in Nat
    /\ SteadyIsGood /\ RefusedHasToken /\ NoneIsLost(request, Good)
    /\ RepliesAreFair

\* The stages of each operation.
LEMMA StagesAre ==
    /\ Stages("state") = <<"contexts", "streams">> /\ Len(Stages("state")) = 2
    /\ Stages("profiles") = <<"profiles">> /\ Len(Stages("profiles")) = 1
    /\ Stages("inventory") = <<"inventory", "earned", "links">>
    /\ Len(Stages("inventory")) = 3
    /\ Stages("followers") = <<"follows">> /\ Len(Stages("followers")) = 1
    /\ Stages("none") = <<>> /\ Len(Stages("none")) = 0
<1>1. /\ Stages("state") = <<"contexts", "streams">>
      /\ Stages("profiles") = <<"profiles">>
      /\ Stages("inventory") = <<"inventory", "earned", "links">>
      /\ Stages("followers") = <<"follows">> /\ Stages("none") = <<>>
  BY DEF Stages
<1> QED
  BY <1>1

\* A stage that is over loses no channel, when one of many has had its answers.
LEMMA OverKeeps ==
    ASSUME NEW r, NEW good \in SUBSET Streamers, IsRequest(r),
           r.at \in 1..Len(Stages(r.op)),
           Stages(r.op)[r.at] \in Many =>
               /\ r.todo = {} /\ r.singly = {}
               /\ r.op \in Batched => good \subseteq r.ok
    PROVE  /\ IsRequest(StageOver(r)) /\ NoneIsLost(StageOver(r), good)
           /\ StageOver(r).op = r.op /\ StageOver(r).at > 0
<1>1. /\ StageOver(r).op = r.op /\ StageOver(r).at = r.at + 1
      /\ StageOver(r).singly = r.singly /\ StageOver(r).ok = r.ok
      /\ StageOver(r).earned = r.earned
      /\ StageOver(r) = [op |-> r.op, at |-> r.at + 1, todo |-> StageOver(r).todo,
                    singly |-> r.singly, ok |-> r.ok, earned |-> r.earned]
      /\ r.at = Len(Stages(r.op)) => StageOver(r).todo = r.todo
      /\ r.at # Len(Stages(r.op)) =>
            StageOver(r).todo = IF Stages(r.op)[r.at + 1] = "streams" THEN r.ok
                                ELSE Streamers
  BY DEF StageOver, IsRequest
<1>2. r.at \in Nat /\ Len(Stages(r.op)) \in Nat
  BY StagesAre DEF IsRequest, Ops
<1>3. IsRequest(StageOver(r))
  BY <1>1, <1>2 DEF IsRequest
<1>4. CASE r.op = "state"
  BY <1>1, <1>3, <1>4, StagesAre DEF NoneIsLost, Many, Batched
<1>5. CASE r.op = "profiles"
  BY <1>1, <1>3, <1>5, StagesAre DEF NoneIsLost, Many, Batched
<1>6. CASE r.op = "inventory"
  <2>1. r.at \in {1, 2, 3} /\ Len(Stages(r.op)) = 3
    BY <1>6, StagesAre
  <2>2. CASE r.at \in {1, 2}
    <3>1. Stages(r.op)[r.at + 1] # "streams"
      BY <2>2, <1>6, StagesAre
    <3> QED
      BY <1>1, <1>3, <2>1, <2>2, <3>1 DEF NoneIsLost
  <2>3. CASE r.at = 3
    <3>1. Stages(r.op)[r.at] = "links"
      BY <2>3, <1>6, StagesAre
    <3> QED
      BY <1>1, <1>3, <1>6, <2>1, <2>3, <3>1 DEF NoneIsLost, Many, Batched
  <2> QED
    BY <2>1, <2>2, <2>3
<1>7. CASE r.op \notin Batched
  BY <1>1, <1>2, <1>3, <1>7 DEF NoneIsLost
<1> QED
  BY <1>1, <1>2, <1>3, <1>4, <1>5, <1>6, <1>7 DEF Batched

\* A stage of many that goes on, or is over.
LEMMA SteppedKeeps ==
    ASSUME NEW r, NEW good \in SUBSET Streamers, IsRequest(r),
           r.at \in 1..Len(Stages(r.op)), Stages(r.op)[r.at] \in Many,
           r.op \in Batched => good \subseteq r.todo \cup r.singly \cup r.ok
    PROVE  /\ IsRequest(Stepped(r)) /\ NoneIsLost(Stepped(r), good)
           /\ Stepped(r).op = r.op /\ Stepped(r).at > 0
<1>1. CASE r.todo = {} /\ r.singly = {}
  <2>1. r.op \in Batched => good \subseteq r.ok
    BY <1>1
  <2> QED
    BY <1>1, <2>1, OverKeeps DEF Stepped
<1>2. CASE ~(r.todo = {} /\ r.singly = {})
  <2>1. r.at \in Nat /\ Len(Stages(r.op)) \in Nat /\ r.at > 0 /\ ~(r.at > Len(Stages(r.op)))
    BY StagesAre DEF IsRequest, Ops
  <2> QED
    BY <1>2, <2>1 DEF Stepped, NoneIsLost
<1> QED
  BY <1>1, <1>2

LEMMA HelperBegins == HelperInit => HelperInv
<1> SUFFICES ASSUME HelperInit PROVE HelperInv
  OBVIOUS
<1>1. IsRequest(request) /\ NoneIsLost(request, Good) /\ ~Classifying
  BY StagesAre DEF HelperInit, IsRequest, Idle, NoneIsLost, Classifying
<1> QED
  BY <1>1 DEF HelperInit, HelperInv, SteadyIsGood, RefusedHasToken, RepliesAreFair,
        AuthMeansSo, OneBadChannelCostsItself, RefusedAtMostOnce, NoReply

\* A call that is answered, in which channels may meet a fault, and that leaves the rest.
LEMMA CallKeeps ==
    ASSUME HelperInv, request.op \in Ops, UnlessCall, faulted \subseteq faulted',
           IsRequest(request'), NoneIsLost(request', Good'), request'.op = request.op,
           request'.at > 0
    PROVE  HelperInv'
<1>1. Good' \subseteq Good
  BY DEF Good, UnlessCall, worldVars
<1>2. ~Classifying' /\ (GoodPickle' <=> GoodPickle)
  BY DEF Classifying, GoodPickle, UnlessCall, worldVars
<1>3. IsRequest(request)' /\ NoneIsLost(request, Good)'
  BY DEF IsRequest, NoneIsLost
<1>4. RepliesAreFair'
  BY <1>1 DEF HelperInv, RepliesAreFair, AuthMeansSo, OneBadChannelCostsItself,
        RefusedAtMostOnce, UnlessCall, Good
<1> QED
  BY <1>2, <1>3, <1>4 DEF HelperInv, SteadyIsGood, RefusedHasToken, UnlessCall, worldVars

\* Nothing of a request is said while none is in hand.
LEMMA IdleIsFair ==
    ASSUME NEW op \in Ops \cup {"none"}, NEW good
    PROVE  /\ IsRequest([Idle EXCEPT !.op = op]) /\ NoneIsLost([Idle EXCEPT !.op = op], good)
           /\ IsRequest(Idle) /\ NoneIsLost(Idle, good)
<1>1. Len(Stages(op)) \in Nat
  BY StagesAre DEF Ops
<1>2. Idle = [op |-> "none", at |-> 0, todo |-> {}, singly |-> {}, ok |-> {}, earned |-> FALSE]
  BY DEF Idle
<1>3. PICK r : r = [Idle EXCEPT !.op = op]
  OBVIOUS
<1>4. r = [op |-> op, at |-> 0, todo |-> {}, singly |-> {}, ok |-> {}, earned |-> FALSE]
  BY <1>2, <1>3
<1>5. IsRequest(r) /\ IsRequest(Idle)
  BY <1>1, <1>2, <1>4, StagesAre DEF IsRequest
<1>6. NoneIsLost(r, good) /\ NoneIsLost(Idle, good)
  BY <1>2, <1>4 DEF NoneIsLost
<1> QED
  BY <1>3, <1>5, <1>6

LEMMA WorldKeeps ==
    ASSUME HelperInv, Disturbed, UnlessWorld
    PROVE  HelperInv'
<1>1. RepliesAreFair'
  BY DEF HelperInv, RepliesAreFair, AuthMeansSo, OneBadChannelCostsItself, RefusedAtMostOnce,
     UnlessWorld, Disturbed
<1>2. IsRequest(request)' /\ NoneIsLost(request, Good)'
  BY DEF HelperInv, UnlessWorld, IsRequest, NoneIsLost, Good
<1> QED
  BY <1>1, <1>2 DEF HelperInv, SteadyIsGood, RefusedHasToken, Disturbed

LEMMA HelperStep == HelperInv /\ [HelperNext]_helperVars => HelperInv'
<1> SUFFICES ASSUME HelperInv, [HelperNext]_helperVars PROVE HelperInv'
  OBVIOUS
<1> USE DEF HelperInv
<1>r. /\ request = [op |-> request.op, at |-> request.at, todo |-> request.todo,
                    singly |-> request.singly, ok |-> request.ok, earned |-> request.earned]
      /\ request.op \in Ops \cup {"none"} /\ request.at \in Nat
      /\ Len(Stages(request.op)) \in Nat
      /\ request.op = "none" => request.at = 0
  BY StagesAre DEF IsRequest, Ops
<1>g. Good \in SUBSET Streamers /\ Good' \in SUBSET Streamers
  BY DEF Good
<1>1. CASE \E op \in Ops : Requested(op)
  <2>1. PICK op \in Ops : Requested(op)
    BY <1>1
  <2>2. /\ request' = [op |-> op, at |-> 1, todo |-> Streamers, singly |-> {}, ok |-> {},
                       earned |-> FALSE]
    BY <2>1 DEF Requested, Idle
  <2>7. Len(Stages(op)) \in Nat /\ Len(Stages(op)) >= 1
    BY StagesAre DEF Ops
  <2>3. IsRequest(request)' /\ NoneIsLost(request, Good)' /\ ~Classifying'
    BY <2>2, <2>7, <1>g DEF IsRequest, NoneIsLost, Classifying, Ops
  <2>4. RepliesAreFair'
    BY <2>1 DEF Requested, RepliesAreFair, AuthMeansSo, OneBadChannelCostsItself,
       RefusedAtMostOnce, NoReply
  <2>5. GoodPickle' <=> GoodPickle
    BY <2>1 DEF Requested, GoodPickle, worldVars
  <2>6. spoilt > 0 => token' = pickle'
    BY <2>1 DEF Requested, TokenFor, Reloaded, RefusedHasToken, GoodPickle, worldVars
  <2> QED
    BY <2>1, <2>3, <2>4, <2>5, <2>6 DEF Requested, SteadyIsGood, RefusedHasToken
<1>2. CASE Calls
  <2> DEFINE chunk == Chunk
  <2>0. UnlessCall /\ faulted \subseteq faulted' /\ request.op \in Ops
    <3>1. UnlessCall
      BY <1>2 DEF Calls, BatchAnswered, NothingToAsk, EarnedAnswered, OneAnswered,
         SingleAnswered
    <3>2. faulted \subseteq faulted'
      BY <1>2 DEF Calls, BatchAnswered, NothingToAsk, EarnedAnswered, OneAnswered,
         SingleAnswered, NoFault, Fault
    <3>3. request.at \in 1..Len(Stages(request.op))
      BY <1>2 DEF Calls, BatchAnswered, NothingToAsk, EarnedAnswered, OneAnswered,
         SingleAnswered, Calling
    <3> QED
      BY <3>1, <3>2, <3>3, <1>r, StagesAre
  <2>1. /\ IsRequest(request') /\ NoneIsLost(request', Good') /\ request'.op = request.op
        /\ request'.at > 0
    <3>0. Good' \subseteq Good /\ odd' = odd
      BY <2>0 DEF Good, UnlessCall, worldVars
    <3>1. CASE BatchAnswered
      <4>1. request.at \in 1..Len(Stages(request.op)) /\ Stages(request.op)[request.at] \in Many
        BY <3>1 DEF BatchAnswered, Calling, Stage
      <4>2. CASE /\ Chunk \cap odd = {}
                 /\ request' = Stepped([request EXCEPT !.todo = @ \ Chunk, !.ok = @ \cup Chunk])
        <5>0a. PICK r : r = [request EXCEPT !.todo = @ \ chunk, !.ok = @ \cup chunk]
          OBVIOUS
        <5>a. r = [op |-> request.op, at |-> request.at, todo |-> request.todo \ chunk,
                   singly |-> request.singly, ok |-> request.ok \cup chunk,
                   earned |-> request.earned]
          BY <5>0a, <1>r
        <5>1. /\ r.op = request.op /\ r.at = request.at /\ r.todo = request.todo \ chunk
              /\ r.singly = request.singly /\ r.ok = request.ok \cup chunk /\ IsRequest(r)
          BY <5>a, <1>r, <4>1 DEF IsRequest
        <5>2. r.op \in Batched => Good' \subseteq r.todo \cup r.singly \cup r.ok
          BY <5>1, <3>0, <4>1, <1>r DEF NoneIsLost
        <5>3. request' = Stepped(r)
          BY <4>2, <5>0a
        <5> QED
          BY <5>1, <5>2, <5>3, <4>1, <1>g, SteppedKeeps
      <4>3. CASE request' = Stepped(RefusedBatch(request, Chunk))
        <5>0a. PICK r : r = RefusedBatch(request, chunk)
          OBVIOUS
        <5>a. r = [op |-> request.op, at |-> request.at, todo |-> request.todo \ chunk,
                   singly |-> chunk, ok |-> request.ok \ chunk,
                   earned |-> request.earned]
          BY <5>0a, <1>r DEF RefusedBatch
        <5>1. /\ r.op = request.op /\ r.at = request.at /\ r.todo = request.todo \ chunk
              /\ r.singly = chunk /\ r.ok = request.ok \ chunk /\ IsRequest(r)
          BY <5>a, <1>r, <4>1 DEF IsRequest
        <5>2. r.op \in Batched => Good' \subseteq r.todo \cup r.singly \cup r.ok
          BY <5>1, <3>0, <3>1, <4>1, <1>r DEF NoneIsLost, BatchAnswered
        <5>3. request' = Stepped(r)
          BY <4>3, <5>0a
        <5> QED
          BY <5>1, <5>2, <5>3, <4>1, <1>g, SteppedKeeps
      <4> QED
        BY <3>1, <4>2, <4>3 DEF BatchAnswered
    <3>2. CASE \E c \in Streamers : SingleAnswered(c)
      <4>0. PICK c \in Streamers : SingleAnswered(c)
        BY <3>2
      <4>1. request.at \in 1..Len(Stages(request.op)) /\ Stages(request.op)[request.at] \in Many
        BY <4>0 DEF SingleAnswered, Calling, Stage
      <4>2. CASE request' = Stepped([request EXCEPT !.singly = @ \ {c}, !.ok = @ \cup {c}])
        <5>0a. PICK r : r = [request EXCEPT !.singly = @ \ {c}, !.ok = @ \cup {c}]
          OBVIOUS
        <5>a. r = [op |-> request.op, at |-> request.at, todo |-> request.todo,
                   singly |-> request.singly \ {c}, ok |-> request.ok \cup {c},
                   earned |-> request.earned]
          BY <5>0a, <1>r
        <5>1. /\ r.op = request.op /\ r.at = request.at /\ r.todo = request.todo
              /\ r.singly = request.singly \ {c} /\ r.ok = request.ok \cup {c} /\ IsRequest(r)
          BY <5>a, <1>r, <4>1 DEF IsRequest
        <5>2. r.op \in Batched => Good' \subseteq r.todo \cup r.singly \cup r.ok
          BY <5>1, <3>0, <4>1, <1>r DEF NoneIsLost
        <5>3. request' = Stepped(r)
          BY <4>2, <5>0a
        <5> QED
          BY <5>1, <5>2, <5>3, <4>1, <1>g, SteppedKeeps
      <4>3. CASE /\ c \in odd \/ c \in faulted'
                 /\ request' = Stepped([request EXCEPT !.singly = @ \ {c}])
        <5>0a. PICK r : r = [request EXCEPT !.singly = @ \ {c}]
          OBVIOUS
        <5>a. r = [op |-> request.op, at |-> request.at, todo |-> request.todo,
                   singly |-> request.singly \ {c}, ok |-> request.ok,
                   earned |-> request.earned]
          BY <5>0a, <1>r
        <5>1. /\ r.op = request.op /\ r.at = request.at /\ r.todo = request.todo
              /\ r.singly = request.singly \ {c} /\ r.ok = request.ok /\ IsRequest(r)
          BY <5>a, <1>r, <4>1 DEF IsRequest
        <5>0. c \notin Good'
          BY <4>3, <3>0 DEF Good
        <5>2. r.op \in Batched => Good' \subseteq r.todo \cup r.singly \cup r.ok
          BY <5>0, <5>1, <3>0, <4>1, <1>r DEF NoneIsLost
        <5>3. request' = Stepped(r)
          BY <4>3, <5>0a
        <5> QED
          BY <5>1, <5>2, <5>3, <4>1, <1>g, SteppedKeeps
      <4> QED
        BY <4>0, <4>2, <4>3 DEF SingleAnswered, Fault
    <3>3. CASE NothingToAsk
      <4>1. /\ request.at \in 1..Len(Stages(request.op)) /\ request.todo = {}
            /\ request.singly = {} /\ request' = StageOver(request)
        BY <3>3 DEF NothingToAsk, Calling
      <4>2. request.op \in Batched => Good' \subseteq request.ok
        BY <4>1, <3>0, <1>r DEF NoneIsLost
      <4> QED
        BY <4>1, <4>2, <1>g, OverKeeps
    <3>4. CASE EarnedAnswered
      <4>1. /\ request.at \in 1..Len(Stages(request.op))
            /\ Stages(request.op)[request.at] \notin Many
        BY <3>4 DEF EarnedAnswered, Calling, Stage, Many
      <4>2. CASE request' = StageOver(request)
        BY <4>1, <4>2, <1>g, OverKeeps
      <4>3. CASE request' = StageOver([request EXCEPT !.earned = TRUE])
        <5>0a. PICK r : r = [request EXCEPT !.earned = TRUE]
          OBVIOUS
        <5>a. r = [op |-> request.op, at |-> request.at, todo |-> request.todo,
                   singly |-> request.singly, ok |-> request.ok,
                   earned |-> TRUE]
          BY <5>0a, <1>r
        <5>1. r.op = request.op /\ r.at = request.at /\ IsRequest(r)
          BY <5>a, <1>r, <4>1 DEF IsRequest
        <5>2. request' = StageOver(r)
          BY <4>3, <5>0a
        <5> QED
          BY <5>1, <5>2, <4>1, <1>g, OverKeeps
      <4> QED
        BY <3>4, <4>2, <4>3 DEF EarnedAnswered
    <3>5. CASE OneAnswered
      <4>1. /\ request.at \in 1..Len(Stages(request.op)) /\ request' = StageOver(request)
            /\ Stages(request.op)[request.at] \notin Many
        BY <3>5 DEF OneAnswered, Calling, Stage, Many
      <4> QED
        BY <4>1, <1>g, OverKeeps
    <3> QED
      BY <1>2, <3>1, <3>2, <3>3, <3>4, <3>5 DEF Calls
  <2> QED
    BY <2>0, <2>1, CallKeeps
<1>3. CASE AnsweredAll
  <2>1. /\ request.at > Len(Stages(request.op)) /\ request.op # "none"
        /\ request' = Idle /\ odd' = odd /\ faulted' = faulted /\ steady' = steady
        /\ reply'.code = "ok" /\ reply'.op = request.op /\ reply'.ok = request.ok
        /\ spoilt' = 0 /\ pickle' = pickle /\ honoured' = honoured
    BY <1>3, <1>r, StagesAre DEF AnsweredAll, Replies, worldVars, Idle
  <2>2. request.op # "followers" => Good \subseteq request.ok
    BY <2>1, <1>r DEF NoneIsLost, Batched, Ops
  <2>3. RepliesAreFair'
    BY <2>1, <2>2 DEF RepliesAreFair, AuthMeansSo, OneBadChannelCostsItself,
       RefusedAtMostOnce, Good
  <2>4. IsRequest(request)' /\ NoneIsLost(request, Good)'
    BY <2>1, IdleIsFair DEF IsRequest, NoneIsLost, Idle, Ops
  <2> QED
    BY <2>1, <2>3, <2>4 DEF SteadyIsGood, RefusedHasToken, GoodPickle
<1>4. CASE OneFails
  <2>1. /\ request' = Idle /\ steady' = steady /\ reply'.code = "GQL"
        /\ spoilt' = 0 /\ pickle' = pickle /\ honoured' = honoured
    BY <1>4 DEF OneFails, Replies, worldVars
  <2>2. RepliesAreFair'
    BY <2>1 DEF RepliesAreFair, AuthMeansSo, OneBadChannelCostsItself, RefusedAtMostOnce
  <2>3. IsRequest(request)' /\ NoneIsLost(request, Good)'
    BY <2>1, IdleIsFair DEF IsRequest, NoneIsLost, Idle, Ops
  <2> QED
    BY <2>1, <2>2, <2>3 DEF SteadyIsGood, RefusedHasToken, GoodPickle
<1>5. CASE Unauthorized
  <2>1. /\ request' = [Idle EXCEPT !.op = request.op] /\ steady' = steady /\ reply' = reply
        /\ spoilt' = spoilt /\ pickle' = pickle /\ honoured' = honoured /\ odd' = odd
        /\ faulted' = faulted /\ token \notin honoured
    BY <1>5 DEF Unauthorized, worldVars, Accepted
  <2>2. spoilt = 0
    BY <2>1 DEF RefusedHasToken, GoodPickle
  <2>3. RepliesAreFair'
    BY <2>1 DEF RepliesAreFair, AuthMeansSo, OneBadChannelCostsItself, RefusedAtMostOnce
  <2>4. IsRequest(request)' /\ NoneIsLost(request, Good)'
    BY <2>1, <1>r, IdleIsFair DEF IsRequest, NoneIsLost
  <2> QED
    BY <2>1, <2>2, <2>3, <2>4 DEF SteadyIsGood, RefusedHasToken, GoodPickle
<1>6. CASE Classified
  <2>1. /\ request' = Idle /\ steady' = steady /\ pickle' = pickle /\ honoured' = honoured
        /\ reply'.code = IF GoodPickle THEN "GQL" ELSE "AUTH"
        /\ spoilt' = IF steady THEN spoilt + 1 ELSE 0
        /\ token' = Reloaded /\ Classifying
    BY <1>6 DEF Classified, Replies, worldVars
  <2>2. spoilt = 0
    BY <2>1 DEF RefusedHasToken
  <2>3. RepliesAreFair'
    BY <2>1, <2>2 DEF RepliesAreFair, AuthMeansSo, OneBadChannelCostsItself,
       RefusedAtMostOnce, SteadyIsGood
  <2>4. IsRequest(request)' /\ NoneIsLost(request, Good)' /\ ~Classifying'
    BY <2>1, IdleIsFair DEF IsRequest, NoneIsLost, Idle, Classifying
  <2> QED
    BY <2>1, <2>2, <2>3, <2>4 DEF SteadyIsGood, RefusedHasToken, GoodPickle, Reloaded
<1>7. CASE Dies \/ Starts
  <2>1. /\ request' = Idle /\ reply' = NoReply /\ spoilt' = 0 /\ steady' = steady
        /\ pickle' = pickle /\ honoured' = honoured
    BY <1>7 DEF Dies, Starts, worldVars
  <2>2. RepliesAreFair'
    BY <2>1 DEF RepliesAreFair, AuthMeansSo, OneBadChannelCostsItself, RefusedAtMostOnce,
       NoReply
  <2>3. IsRequest(request)' /\ NoneIsLost(request, Good)'
    BY <2>1, IdleIsFair DEF IsRequest, NoneIsLost, Idle, Ops
  <2> QED
    BY <2>1, <2>2, <2>3 DEF SteadyIsGood, RefusedHasToken, GoodPickle
<1>8. CASE SignsIn \/ SignsOut \/ Revoked \/ Renamed
  BY <1>8, WorldKeeps DEF SignsIn, SignsOut, Revoked, Renamed
<1>9. CASE UNCHANGED helperVars
  BY <1>9 DEF helperVars, IsRequest, NoneIsLost, Good, SteadyIsGood, RefusedHasToken,
     GoodPickle, Classifying, RepliesAreFair, AuthMeansSo, OneBadChannelCostsItself,
     RefusedAtMostOnce
<1> QED
  BY <1>1, <1>2, <1>3, <1>4, <1>5, <1>6, <1>7, <1>8, <1>9 DEF HelperNext

\* Replies are fair, for any channels, batches, tokens, failures and requests: AUTH
\* means that there was a moment without a good token, a channel Twitch answers for
\* is in the reply, and a finished sign-in is picked up by the second request.
THEOREM RepliesStayFair == HelperSpec => []RepliesAreFair
<1>1. HelperInv => RepliesAreFair
  BY DEF HelperInv
<1> QED
  BY <1>1, HelperBegins, HelperStep, PTL DEF HelperSpec
=============================================================================
