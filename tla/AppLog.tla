------------------------------- MODULE AppLog -------------------------------
(***************************************************************************)
(* The app event log (appLog/sink.ts, pino.ts, buffer.ts): a file that is  *)
(* renamed away when it is full, one generation kept, and a ring for the   *)
(* browser that a boot fills from the file's tail.                         *)
(*                                                                         *)
(* Events are numbered in the order they were written, and every line has  *)
(* the length 1.  A hard kill may leave a line half written: without its   *)
(* end, so that the next one goes on where it stops.                       *)
(***************************************************************************)
EXTENDS Naturals, Sequences, FiniteSets, SequencesExt

CONSTANTS
    MaxBytes,   \* when the file is full
    TailBytes,  \* TAIL_BYTES: what a boot reads back
    RingSize,   \* APP_LOG_CAPACITY
    MaxEvents,  \* bound: events written
    MaxKills,   \* bound: kills
    MaxFaults   \* bound: renames that fail

\* A file that is full has a line at least.
ASSUME EventsAssumption ==
    /\ MaxBytes \in Nat \ {0} /\ TailBytes \in Nat \ {0} /\ RingSize \in Nat
    /\ MaxEvents \in Nat /\ MaxKills \in Nat /\ MaxFaults \in Nat

VARIABLES
    files,    \* "app" and "previous": the lines of app.ndjson and app.ndjson.1
    bytes,    \* LogSink.bytes
    ring,     \* AppLogBuffer
    state,    \* the process: "up" | "closed" | "down"
    written,  \* history: the events written
    torn,     \* history: those a kill left half written
    kills, refusals

eventVars == <<files, bytes, ring, state, written, torn, kills, refusals>>

\* A line: the events on it, and whether it ends.
Line(n)    == [events |-> <<n>>, ended |-> TRUE]
HalfLine(n) == [events |-> <<n>>, ended |-> FALSE]
Whole(line) == line.ended /\ Len(line.events) = 1
Latest(s, n) == SubSeq(s, (IF Len(s) > n THEN Len(s) - n ELSE 0) + 1, Len(s))

\* Opened for appending: after half a line, the new one shares it.
Joined(lines, line) ==
    IF lines # <<>> /\ ~lines[Len(lines)].ended
      THEN [lines EXCEPT ![Len(lines)] = [events |-> @.events \o line.events,
                                          ended |-> line.ended]]
      ELSE Append(lines, line)

\* readTail(): from the middle of the file, the first line may be cut.
ReadTail(lines) ==
    LET read == IF Len(lines) > TailBytes THEN Tail(Latest(lines, TailBytes)) ELSE lines
        good == SelectSeq(read, Whole)
    IN  [i \in DOMAIN good |-> good[i].events[1]]

EventsInit ==
    /\ files = [app |-> <<>>, previous |-> <<>>]
    /\ bytes = 0
    /\ ring = <<>>
    /\ state = "up"
    /\ written = 0
    /\ torn = {}
    /\ kills = 0
    /\ refusals = 0

\* Mutant: what was counted is not started again.
RotatedCountsOn(app) ==
    /\ files' = [app |-> <<>>, previous |-> app]
    /\ bytes' = bytes + 1
    /\ UNCHANGED refusals

\* rotate(): the older generation goes, then the file is renamed, and what was
\* counted starts again from the file that is there now.
Rotated(app) ==
    \/ /\ files' = [app |-> <<>>, previous |-> app]
       /\ bytes' = 0
       /\ UNCHANGED refusals
    \/ /\ refusals < MaxFaults
       /\ refusals' = refusals + 1
       /\ \E kept \in {files.previous, <<>>} : files' = [app |-> app, previous |-> kept]
       /\ bytes' = Len(app)

\* write(), and the ring beside it.
Writes ==
    /\ state = "up"
    /\ written < MaxEvents
    /\ written' = written + 1
    /\ ring' = Latest(Append(ring, written + 1), RingSize)
    /\ LET app == Joined(files.app, Line(written + 1)) IN
          IF bytes + 1 >= MaxBytes
            THEN Rotated(app)
            ELSE /\ files' = [files EXCEPT !.app = app]
                 /\ bytes' = bytes + 1
                 /\ UNCHANGED refusals
    /\ UNCHANGED <<state, torn, kills>>

\* Half of a line is on the disk when the process dies.
Tears ==
    /\ written < MaxEvents
    /\ written' = written + 1
    /\ files' = [files EXCEPT !.app = Joined(@, HalfLine(written + 1))]
    /\ torn' = torn \cup {written + 1}

Killed ==
    /\ state # "down"
    /\ kills < MaxKills
    /\ kills' = kills + 1
    /\ state' = "down"
    /\ (state = "up" /\ Tears) \/ UNCHANGED <<written, files, torn>>
    /\ UNCHANGED <<bytes, ring, refusals>>

\* close(): a later line is dropped.
Closes ==
    /\ state = "up"
    /\ state' = "closed"
    /\ UNCHANGED <<files, bytes, ring, written, torn, kills, refusals>>

\* The last event of a run has been written; the process ends.
Exits ==
    /\ state = "closed"
    /\ state' = "down"
    /\ UNCHANGED <<files, bytes, ring, written, torn, kills, refusals>>

\* createAppLog()
Boots ==
    /\ state = "down"
    /\ state' = "up"
    /\ bytes' = Len(files.app)
    /\ ring' = Latest(ReadTail(files.app), RingSize)
    /\ UNCHANGED <<files, written, torn, kills, refusals>>

EventsNext == Writes \/ Killed \/ Closes \/ Exits \/ Boots

EventsSpec == EventsInit /\ [][EventsNext]_eventVars

-----------------------------------------------------------------------------
(* What it is for.                                                         *)

OnDisk == {n \in 1..written : \E line \in ToSet(files.previous) \cup ToSet(files.app) :
                                 Whole(line) /\ n \in ToSet(line.events)}

\* Whatever was renamed, failed to be, or was killed: an event is in one of the
\* two files until a file's worth of others has been written after it, but for
\* those a kill tore and the one that follows each of them (the next run's first
\* line is appended to the torn one, and lost with it).
RecentEventsAreOnDisk ==
    \A n \in 1..written :
        written - n < MaxBytes /\ {n, n - 1} \cap torn = {} => n \in OnDisk

=============================================================================
