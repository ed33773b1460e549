------------------------------ MODULE LogFeed ------------------------------
(***************************************************************************)
(* A log on the Logs page: the backend's ring of lines (miner/logBuffer.ts,*)
(* appLog/buffer.ts), the frames that announce each chunk of them          *)
(* (supervisor.ts, http/server.ts) and the page that loads the ring and    *)
(* keeps it current (lib/useLiveLog.ts, lib/appendPage.ts).  The miner's   *)
(* log and the app's use the same code.                                    *)
(*                                                                         *)
(* A line is known by the run of the backend that kept it and its number   *)
(* there.  The stream is LivePage's: it may be cut, and what was on the    *)
(* wire is lost.  A restart of the backend forgets the session, which      *)
(* locks the gate and mounts the page anew, unless another tab has signed  *)
(* in before this one asked.                                               *)
(***************************************************************************)
EXTENDS Naturals, Sequences

CONSTANTS
    Capacity,    \* of the ring, and of the page
    MaxChunk,    \* bound: lines of one chunk
    MaxLines,    \* bound: lines of one run of the backend
    MaxWaiting,  \* bound: frames under way or waiting for a load
    MaxRuns,     \* bound: runs of the backend
    MaxCuts      \* bound: cuts of the stream and failed loads

ASSUME FeedAssumption ==
    /\ Capacity \in Nat \ {0} /\ MaxChunk \in Nat /\ MaxLines \in Nat
    /\ MaxWaiting \in Nat /\ MaxRuns \in Nat /\ MaxCuts \in Nat

VARIABLES
    run,      \* the run of the backend
    kept,     \* LogBuffer.kept
    session,  \* the backend knows the browser's cookie
    open,     \* the stream is open
    frames,   \* frames under way
    base,     \* base.current
    page,     \* the page on screen
    early,    \* early.current
    load,     \* the load of this effect: "asked", "answered", "retry" or "none",
              \* and its answer
    cuts,     \* bound
    due,      \* history: the highest total a frame told this mount of
    letGo,    \* history: the load that answered last dropped a frame that had waited
    carried   \* history: this mount has outlived a run of the backend

logVars == <<run, kept, session, open, frames, base, page, early, load, cuts, due, letGo,
             carried>>

Least(a, b) == IF a < b THEN a ELSE b
Newest(seq, n) == SubSeq(seq, Len(seq) - Least(n, Len(seq)) + 1, Len(seq))
Page(items, total) == [items |-> items, total |-> total]
NoPage == Page(<<>>, 0)
Unloaded == [is |-> "none", page |-> NoPage]

\* Lines m to n of this run.
Lines(m, n) == [i \in 1..(n + 1 - m) |-> [run |-> run, n |-> m + i - 1]]
Ring == Page(Lines(kept + 1 - Least(kept, Capacity), kept), kept)

-----------------------------------------------------------------------------
(* The backend.                                                            *)

Fresh(current, frame) ==
    IF frame.total > current.total THEN frame.total - current.total ELSE 0
Missed(current, frame) == Fresh(current, frame) > Len(frame.items)

\* appendPage(), where nothing was missed.
Appended(current, frame) ==
    IF Fresh(current, frame) = 0 THEN current
    ELSE Page(Newest(current.items \o Newest(frame.items, Fresh(current, frame)), Capacity),
              frame.total)

\* push() and the frame of the lines it returned.
Logs(n) ==
    /\ kept + n <= MaxLines /\ Len(frames) + Len(early) < MaxWaiting
    /\ kept' = kept + n
    /\ frames' = IF open THEN Append(frames, Page(Lines(kept + 1, kept + n), kept')) ELSE frames
    /\ UNCHANGED <<run, session, open, base, page, early, load, cuts, due, letGo, carried>>

BackendRestarts ==
    /\ run < MaxRuns
    /\ run' = run + 1 /\ kept' = 0
    /\ session' = FALSE
    /\ open' = FALSE /\ frames' = <<>>
    /\ carried' = TRUE
    /\ UNCHANGED <<base, page, early, load, cuts, due, letGo>>

-----------------------------------------------------------------------------
(* The stream and the gate.                                                *)

UnlessLink == UNCHANGED <<run, kept, base, page, early, load, due, letGo, carried>>

Cut ==
    /\ open /\ cuts < MaxCuts
    /\ open' = FALSE /\ frames' = <<>>
    /\ cuts' = cuts + 1
    /\ UNCHANGED session /\ UnlessLink

Reopens ==
    /\ ~open /\ session
    /\ open' = TRUE
    /\ UNCHANGED <<session, frames, cuts>> /\ UnlessLink

OtherTabSignsIn ==
    /\ ~session
    /\ session' = TRUE
    /\ UNCHANGED <<open, frames, cuts>> /\ UnlessLink

\* The gate was locked, and is unlocked again: a page that has loaded nothing.
MountsAnew ==
    /\ ~session
    /\ session' = TRUE /\ open' = TRUE
    /\ base' = NoPage /\ page' = NoPage /\ early' = <<>>
    /\ load' = [Unloaded EXCEPT !.is = "asked"]
    /\ due' = 0 /\ letGo' = FALSE /\ carried' = FALSE
    /\ UNCHANGED <<run, kept, frames, cuts>>

-----------------------------------------------------------------------------
(* useLiveLog().  base.current is null exactly while a load is wanted.      *)

Loading == load.is # "none"

Shows(next) == base' = next /\ page' = next

Reloads ==
    /\ base' = NoPage /\ early' = <<>>
    /\ load' = [Unloaded EXCEPT !.is = "asked"]
    /\ letGo' = FALSE
    /\ UNCHANGED page

\* A frame while a load is under way waits for it; one that cannot be placed
\* starts another.
FrameWaits ==
    /\ Loading
    /\ early' = Append(early, Head(frames))
    /\ UNCHANGED <<base, page, load, letGo>>

FramePlaced ==
    /\ ~Loading
    /\ IF Missed(base, Head(frames))
         THEN Reloads
       ELSE Shows(Appended(base, Head(frames))) /\ UNCHANGED <<early, load, letGo>>

Frame ==
    /\ frames # <<>>
    /\ frames' = Tail(frames)
    /\ due' = IF Head(frames).total > due THEN Head(frames).total ELSE due
    /\ FrameWaits \/ FramePlaced
    /\ UNCHANGED <<run, kept, session, open, cuts, carried>>

\* The endpoint answers with the whole ring.
LoadAnswered ==
    /\ load.is = "asked" /\ session
    /\ load' = [is |-> "answered", page |-> Ring]
    /\ UNCHANGED <<run, kept, session, open, frames, base, page, early, cuts, due, letGo,
                   carried>>

\* It fails; in RETRY_MS it is tried again.
LoadFails ==
    /\ load.is = "asked"
    /\ ~session \/ cuts < MaxCuts
    /\ cuts' = IF session THEN cuts + 1 ELSE cuts
    /\ load' = [load EXCEPT !.is = "retry"]
    /\ UNCHANGED <<run, kept, session, open, frames, base, page, early, due, letGo, carried>>

LoadRetried ==
    /\ load.is = "retry" /\ session
    /\ load' = [load EXCEPT !.is = "asked"]
    /\ UNCHANGED <<run, kept, session, open, frames, base, page, early, cuts, due, letGo,
                   carried>>

\* Mutant: what came early is put on top whether or not the answer has it.
UponAll(current, frame) ==
    Page(Newest(current.items \o frame.items, Capacity), frame.total)

\* What came early goes on top; what was missed between is let go.
Upon(current, frame) ==
    IF Missed(current, frame) THEN current ELSE Appended(current, frame)

Merged[i \in 0..MaxWaiting] ==
    IF i = 0 THEN load.page ELSE Upon(Merged[i - 1], early[i])

LoadReturns ==
    /\ load.is = "answered"
    /\ Shows(Merged[Len(early)])
    /\ letGo' = \E i \in 1..Len(early) : Missed(Merged[i - 1], early[i])
    /\ early' = <<>>
    /\ load' = Unloaded
    /\ UNCHANGED <<run, kept, session, open, frames, cuts, due, carried>>

-----------------------------------------------------------------------------

LogInit ==
    /\ run = 1 /\ kept = 0
    /\ session = TRUE /\ open = FALSE /\ frames = <<>>
    /\ base = NoPage /\ page = NoPage /\ early = <<>>
    /\ load = [Unloaded EXCEPT !.is = "asked"]
    /\ cuts = 0 /\ due = 0 /\ letGo = FALSE /\ carried = FALSE

LogNext ==
    \/ \E n \in 1..MaxChunk : Logs(n)
    \/ BackendRestarts
    \/ Cut \/ Reopens \/ OtherTabSignsIn \/ MountsAnew
    \/ Frame \/ LoadAnswered \/ LoadFails \/ LoadRetried \/ LoadReturns

LogSpec == LogInit /\ [][LogNext]_logVars

-----------------------------------------------------------------------------
(* What it is for.                                                         *)

\* The page holds the newest lines up to its total, without a gap, a line twice
\* or one out of order, whatever frames came while it was loading.  (One that
\* outlived a run of the backend compares the totals of two runs.)
LogIsUnbroken ==
    ~carried =>
        /\ \A i \in DOMAIN page.items :
              page.items[i] = [run |-> run, n |-> page.total + i - Len(page.items)]
        /\ Len(page.items) = Least(page.total, Capacity)

\* A line that a frame told the page of, loaded or not, is on it, or a load is wanted,
\* and a load that fails is retried.  One case is left out, because the code has it: a
\* frame that waits for a load, when the stream lost the one before it after the load
\* had been answered, is dropped, and nothing is wanted (LoadsLeaveNoGap).  Then the page
\* is behind until the next frame comes, and every frame that comes starts a load.
WhatWasMissedIsFetched ==
    page.total < due /\ ~carried /\ ~Loading =>
        letGo /\ \A i \in 1..Len(frames) : Missed(base, frames[i])

\* The log a page shows is whole, or on its way to be.
LogIsWhole == LogIsUnbroken /\ WhatWasMissedIsFetched

\* useLiveLog.ts:88-90 on the frames that waited for a load: they "can only add to it
\* -- a gap is not possible here".  A load drops none of them.
LoadsLeaveNoGap == letGo => carried

=============================================================================
