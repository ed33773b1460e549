---------------------------- MODULE BrowserProofs ---------------------------
(***************************************************************************)
(* What reaches the user's browser, over its two ways: notifications that  *)
(* are pushed (Sources) and the page that is open (LivePage, DropsPage);   *)
(* and who may reach it from there (Access).  Proofs for any number of     *)
(* rows, subjects, parts, days, tabs, EventSources, addresses, guesses,    *)
(* subscriptions and calls.                                                *)
(*                                                                         *)
(* RingsOnce is not inductive: the key of what was told may be pruned.     *)
(* What then keeps it from being told again is the state it was told of    *)
(* (ToldIsOver): a completed campaign waits for a first pass, which only   *)
(* marks it, and a campaign whose end was near has either still its key or *)
(* been completed.  A digest's day has its key, or is over (DigestInv).    *)
(*                                                                         *)
(* Nor is PageIsCurrent.  That a status nobody missed is the one shown     *)
(* rests on what is still on its way: a frame (FramesAreNews), and the     *)
(* load of this mount, which must not come back over a frame (NoLateLoad). *)
(* That the frames belong to the page rests on who holds a connection      *)
(* (Held, FramesAreHeld) and on what a locked gate has left behind         *)
(* (LockedIsBare).                                                         *)
(*                                                                         *)
(* Nor is AccessIsKept.  The limiter keeps one window and a count, not the *)
(* guesses: that a later Lockout cannot hold more of them than MaxAttempts *)
(* rests on what the count says of those that have left the window         *)
(* (Rationed).                                                             *)
(*                                                                         *)
(* Nor is QuietPageIsCurrent.  What the Drops page will show is what its   *)
(* calls still carry: a list and a status that were read earlier, which    *)
(* are current as long as nobody else changed what they say (ListedInv,    *)
(* RestartInv, CallsInv), and a call knows whether it was the only one     *)
(* (AloneInv).                                                             *)
(***************************************************************************)
EXTENDS Sources, LivePage, Access, DropsPage, FiniteSetTheorems, SequenceTheorems, TLAPS

-----------------------------------------------------------------------------
(* One row for one endpoint.                                               *)

\* A row is a record, whatever endpoint it holds.
RowsAreRows ==
    /\ rows = [i \in Ids |-> rows[i]]
    /\ \A i \in Ids : rows[i] = [to |-> rows[i].to, on |-> rows[i].on, prefs |-> rows[i].prefs]

RowsInv == RowsAreRows /\ OneRowPerEndpoint

\* A row that goes takes nothing with it.
LEMMA DroppedKeepsRows ==
    ASSUME RowsInv, NEW id, Dropped(id)
    PROVE  RowsInv'
BY DEF RowsInv, RowsAreRows, OneRowPerEndpoint, Rows, Dropped, NoRow

\* A row is moved or made only for an endpoint that has none.
LEMMA UpsertedKeepsRows ==
    ASSUME RowsInv, NEW endpoint, NEW was, Upserted(endpoint, was)
    PROVE  RowsInv'
<1>1. CASE At(endpoint) # {}
  BY <1>1 DEF RowsInv, RowsAreRows, OneRowPerEndpoint, Rows, Upserted
<1>2. CASE At(endpoint) = {} /\ \E i \in At(was) : rows' = [rows EXCEPT ![i].to = endpoint]
  BY <1>2 DEF RowsInv, RowsAreRows, OneRowPerEndpoint, Rows, At
<1>3. CASE At(endpoint) = {} /\ Inserted(endpoint)
  BY <1>3 DEF RowsInv, RowsAreRows, OneRowPerEndpoint, Rows, At, Inserted
<1> QED
  BY <1>1, <1>2, <1>3 DEF Upserted

\* An edit of a row leaves its endpoint.
LEMMA EditKeepsRows ==
    ASSUME RowsInv, NEW id \in Ids, Edits(id)
    PROVE  RowsInv'
<1>1. CASE Dropped(id)
  BY <1>1, DroppedKeepsRows
<1>2. CASE rows' = [rows EXCEPT ![id].on = ~@]
  BY <1>2 DEF RowsInv, RowsAreRows, OneRowPerEndpoint, Rows, Edits
<1>3. CASE rows' = [rows EXCEPT ![id].prefs = IF @ = "own" THEN "default" ELSE "own"]
  BY <1>3 DEF RowsInv, RowsAreRows, OneRowPerEndpoint, Rows, Edits
<1> QED
  BY <1>1, <1>2, <1>3 DEF Edits

LEMMA RowsStart == Init => RowsInv
<1> SUFFICES ASSUME Init
             PROVE  RowsInv
  OBVIOUS
<1>1. rows = [i \in Ids |-> rows[i]]
  BY DEF Init, DeliveryInit
<1>2. \A i \in Ids : rows[i] = [to |-> rows[i].to, on |-> rows[i].on, prefs |-> rows[i].prefs]
  BY DEF Init, DeliveryInit, NoRow
<1>3. \A i \in Rows : i = 1
  BY DEF Init, DeliveryInit, Rows
<1> QED
  BY <1>1, <1>2, <1>3 DEF RowsInv, RowsAreRows, OneRowPerEndpoint

LEMMA RowsStep == RowsInv /\ [Next]_vars => RowsInv'
<1> SUFFICES ASSUME RowsInv, [Next]_vars
             PROVE  RowsInv'
  OBVIOUS
<1>1. ASSUME UNCHANGED rows
      PROVE  RowsInv'
  BY <1>1 DEF RowsInv, RowsAreRows, OneRowPerEndpoint, Rows
<1>2. CASE Publishing
  <2>1. ASSUME NEW c \in Subjects, CampaignMoves(c) \/ StreamStarts(c)
        PROVE  UNCHANGED rows
    BY <2>1 DEF CampaignMoves, StreamStarts, UnlessPublished, UnlessNotified, storeVars
  <2>2. ASSUME NEW hasData \in BOOLEAN, DigestTick(hasData)
        PROVE  UNCHANGED rows
    BY <2>2 DEF DigestTick, UnlessPublished
  <2>3. ASSUME NEW p \in Parts, Reports(p)
        PROVE  UNCHANGED rows
    BY <2>3 DEF Reports, UnlessPublished
  <2>4. CASE CampaignPass \/ DayMoves \/ MinerCrashes \/ MinerRuns \/ HourPasses
    BY <1>1, <2>4 DEF CampaignPass, DayMoves, MinerCrashes, MinerRuns, HourPasses,
                      UnlessPublished, UnlessNotified, storeVars
  <2>5. CASE Prune
    BY <1>1, <2>5 DEF Prune
  <2> QED
    BY <1>1, <1>2, <2>1, <2>2, <2>3, <2>4, <2>5 DEF Publishing
<1>3. CASE Deliveries
  <2>1. ASSUME NEW s \in sends, SendGone(s)
        PROVE  RowsInv'
    BY <2>1, DroppedKeepsRows DEF SendGone
  <2>2. ASSUME \/ \E i \in Ids : WindowEnds(i)
               \/ \E s \in sends : SendAnswered(s) \/ SendFails(s)
        PROVE  UNCHANGED rows
    BY <2>2 DEF WindowEnds, SendAnswered, SendFails, storeVars
  <2> QED
    BY <1>1, <1>3, <2>1, <2>2 DEF Deliveries
<1>4. CASE Pages
  <2>1. ASSUME NEW t \in Tabs, Registers(t)
        PROVE  RowsInv'
    BY <2>1, UpsertedKeepsRows DEF Registers
  <2>2. ASSUME NEW t \in Tabs, TurnsOff(t)
        PROVE  RowsInv'
    BY <1>1, <2>2, DroppedKeepsRows DEF TurnsOff
  <2>3. ASSUME \/ SubscriptionEnds
               \/ \E t \in Tabs : \/ Loads(t) \/ HealDecides(t) \/ HealSubscribes(t)
                                  \/ TurnsOn(t) \/ GivesUp(t)
        PROVE  UNCHANGED rows
    BY <2>3 DEF SubscriptionEnds, Loads, HealDecides, HealSubscribes, Subscribes, TurnsOn,
                GivesUp
  <2> QED
    BY <1>1, <1>4, <2>1, <2>2, <2>3, EditKeepsRows DEF Pages
<1>5. CASE AllRestarts \/ UNCHANGED vars
  BY <1>1, <1>5 DEF AllRestarts, BackendRestarts, storeVars, vars, deliveryVars
<1> QED
  BY <1>2, <1>3, <1>4, <1>5 DEF Next

-----------------------------------------------------------------------------
(* Told once.                                                              *)

ToldTypes ==
    /\ campaign \in [Subjects -> [at : {"partial", "complete"}, soon : BOOLEAN]]
    /\ primed \in BOOLEAN
    /\ told \in [Ids -> [KeyedNotes -> Nat]]

\* No row was given a notification twice, or one of the backlog at all, but for what a
\* first run ended before.
ToldOnce ==
    \A i \in Ids : \A n \in KeyedNotes \ unmarked :
       told[i][n] <= IF n \in backlog THEN 0 ELSE 1

Mentioned(n) == n \notin unmarked /\ (n \in backlog \/ \E i \in Ids : told[i][n] > 0)

\* What was told of a campaign, or found at a first pass, is true of it, and is
\* not news again: its key is there, or no pass would tell it.
CompletedIsOver(c) ==
    Mentioned(Note("completed", c)) =>
        campaign[c].at = "complete" /\ (Note("completed", c) \in seen \/ ~primed)

EndingIsOver(c) ==
    Mentioned(Note("ending", c)) =>
        campaign[c].soon /\ (Note("ending", c) \in seen \/ campaign[c].at = "complete")

ToldIsOver == \A c \in Subjects : CompletedIsOver(c) /\ EndingIsOver(c)

ToldInv == ToldTypes /\ ToldOnce /\ ToldIsOver

\* What has a key is the completion, or the near end, of a campaign.
LEMMA KeyedNotesAre ==
    ASSUME NEW n \in KeyedNotes
    PROVE  \E c \in Subjects : n = Note("completed", c) \/ n = Note("ending", c)
BY DEF KeyedNotes, Notes, Keyed, Note

\* A notification is one of its kind and its subject.
LEMMA NotesDiffer ==
    ASSUME NEW c \in Subjects, NEW d \in Subjects
    PROVE  /\ Note("completed", c) # Note("ending", d)
           /\ Note("completed", c) = Note("completed", d) => c = d
           /\ Note("ending", c) = Note("ending", d) => c = d
           /\ Note("completed", c) \in KeyedNotes /\ Note("ending", c) \in KeyedNotes
BY DEF KeyedNotes, Notes, Kinds, Keyed, Note

\* dispatch() tells what is published and has no key yet, once, and keeps the keys.
LEMMA DispatchTells ==
    ASSUME NEW notes, NEW more, Dispatched(notes, more), ToldTypes
    PROVE  /\ told' \in [Ids -> [KeyedNotes -> Nat]]
           /\ \A i \in Ids : \A n \in KeyedNotes :
                 \/ told'[i][n] = told[i][n]
                 \/ n \in notes \ seen /\ told'[i][n] = told[i][n] + 1
           /\ seen \subseteq seen'
           /\ \A n \in KeyedNotes : n \in notes \cup more => n \in seen'
<1>1. \A i \in Ids, n \in KeyedNotes :
         told'[i][n] = IF n \in Heard(i, notes \ seen) /\ told[i][n] < 2
                         THEN told[i][n] + 1 ELSE told[i][n]
  BY DEF Dispatched
<1>2. \A i \in Ids, n \in KeyedNotes : told[i][n] \in Nat
  BY DEF ToldTypes
<1>3. told' \in [Ids -> [KeyedNotes -> Nat]]
  BY <1>1, <1>2 DEF Dispatched
<1>4. \A i \in Ids : Heard(i, notes \ seen) \subseteq notes \ seen
  BY DEF Heard
<1>5. seen \subseteq seen' /\ \A n \in KeyedNotes : n \in notes \cup more => n \in seen'
  BY DEF Dispatched, KeyedNotes
<1> QED
  BY <1>1, <1>3, <1>4, <1>5

\* What leaves the keys, the campaigns and the history alone.
LEMMA OthersTellNothing ==
    ASSUME ToldInv, UNCHANGED <<told, seen, campaign, primed, backlog, unmarked>>
    PROVE  ToldInv'
BY DEF ToldInv, ToldTypes, ToldOnce, ToldIsOver, CompletedIsOver, EndingIsOver, Mentioned

\* The other sources publish what has no key.
LEMMA KeylessTellsNothing ==
    ASSUME ToldInv, NEW notes, notes \cap KeyedNotes = {}, Dispatched(notes, {}),
           UNCHANGED <<campaign, primed, backlog, unmarked>>
    PROVE  ToldInv'
<1>1. /\ told' \in [Ids -> [KeyedNotes -> Nat]] /\ seen \subseteq seen'
      /\ \A i \in Ids : \A n \in KeyedNotes : told'[i][n] = told[i][n]
  BY DispatchTells DEF ToldInv
<1>2. ToldTypes' /\ ToldOnce'
  BY <1>1 DEF ToldInv, ToldTypes, ToldOnce
<1>3. \A n \in KeyedNotes : Mentioned(n)' => Mentioned(n)
  BY <1>1 DEF Mentioned
<1>4. ToldIsOver'
  BY <1>1, <1>3, NotesDiffer DEF ToldInv, ToldIsOver, CompletedIsOver, EndingIsOver
<1> QED
  BY <1>2, <1>4 DEF ToldInv

\* A campaign only moves on.
LEMMA MovesKeepTold ==
    ASSUME ToldInv, NEW c \in Subjects, CampaignMoves(c)
    PROVE  ToldInv'
<1>1. UNCHANGED <<told, seen, primed, backlog, unmarked>>
  BY DEF CampaignMoves, UnlessNotified, storeVars
<1>2. /\ campaign' \in [Subjects -> [at : {"partial", "complete"}, soon : BOOLEAN]]
      /\ \A d \in Subjects : /\ campaign[d].at = "complete" => campaign'[d].at = "complete"
                             /\ campaign[d].soon => campaign'[d].soon
  BY DEF ToldInv, ToldTypes, CampaignMoves
<1>3. ToldTypes' /\ ToldOnce'
  BY <1>1, <1>2 DEF ToldInv, ToldTypes, ToldOnce
<1>4. \A n : Mentioned(n)' <=> Mentioned(n)
  BY <1>1 DEF Mentioned
<1>5. ToldIsOver'
  BY <1>1, <1>2, <1>4 DEF ToldInv, ToldIsOver, CompletedIsOver, EndingIsOver
<1> QED
  BY <1>3, <1>5 DEF ToldInv

\* A pass of the watcher, however far it came: what it tells is news, and what it only
\* marks is over.
LEMMA PassKeepsTold ==
    ASSUME ToldInv, CampaignPass
    PROVE  ToldInv'
<1>1. PICK reached \in SUBSET Subjects :
         /\ AnnouncedNews(reached) /\ campaign' = campaign /\ primed' = TRUE
         /\ IF primed THEN UNCHANGED <<backlog, unmarked>>
            ELSE /\ backlog' = {n \in Completed : \A i \in Ids : told[i][n] = 0}
                 /\ unmarked' = unmarked \cup (Completed \ Of(Completed, reached))
  BY DEF CampaignPass
<1> DEFINE notes == IF primed THEN Of(Completed \cup EndingSoon, reached)
                    ELSE Of(EndingSoon, reached)
           more  == IF primed THEN {} ELSE Of(Completed, reached)
<1>2. /\ told' \in [Ids -> [KeyedNotes -> Nat]] /\ seen \subseteq seen'
      /\ \A i \in Ids : \A n \in KeyedNotes :
            \/ told'[i][n] = told[i][n]
            \/ n \in notes \ seen /\ told'[i][n] = told[i][n] + 1
      /\ \A n \in KeyedNotes : n \in notes \cup more => n \in seen'
  <2>1. Dispatched(notes, more)
    BY <1>1 DEF AnnouncedNews
  <2> HIDE DEF notes, more
  <2> QED
    BY <2>1, DispatchTells DEF ToldInv
<1>3. \A c \in Subjects :
         /\ Note("completed", c) \in Completed <=> campaign[c].at = "complete"
         /\ Note("ending", c) \in EndingSoon <=> campaign[c].at = "partial" /\ campaign[c].soon
         /\ Note("completed", c) \notin EndingSoon /\ Note("ending", c) \notin Completed
  BY NotesDiffer DEF Completed, EndingSoon
<1>4. /\ notes \subseteq Completed \cup EndingSoon
      /\ more \subseteq Completed
      /\ ~primed => notes \subseteq EndingSoon /\ more = Of(Completed, reached)
  BY DEF Of
<1>5. ASSUME NEW n \in KeyedNotes, n \in notes \ seen
      PROVE  ~Mentioned(n)
  <2>1. PICK c \in Subjects : n = Note("completed", c) \/ n = Note("ending", c)
    BY KeyedNotesAre
  <2>2. CASE n = Note("completed", c)
    BY <1>3, <1>4, <1>5, <2>2 DEF ToldInv, ToldIsOver, CompletedIsOver
  <2>3. CASE n = Note("ending", c)
    BY <1>3, <1>4, <1>5, <2>3 DEF ToldInv, ToldIsOver, EndingIsOver
  <2> QED
    BY <2>1, <2>2, <2>3
<1> HIDE DEF notes, more
<1>6. \A i \in Ids, n \in KeyedNotes :
         /\ told[i][n] \in Nat
         /\ ~Mentioned(n) /\ n \notin unmarked => told[i][n] = 0 /\ n \notin backlog
  <2> SUFFICES ASSUME NEW i \in Ids, NEW n \in KeyedNotes
               PROVE  /\ told[i][n] \in Nat
                      /\ ~Mentioned(n) /\ n \notin unmarked =>
                            told[i][n] = 0 /\ n \notin backlog
    OBVIOUS
  <2>1. told[i][n] \in Nat
    BY DEF ToldInv, ToldTypes
  <2> QED
    BY <2>1 DEF Mentioned
<1>7. unmarked \subseteq unmarked'
  BY <1>1
<1>8. ToldTypes'
  BY <1>1, <1>2 DEF ToldInv, ToldTypes
<1>9. ToldOnce'
  <2> SUFFICES ASSUME NEW i \in Ids, NEW n \in KeyedNotes, n \notin unmarked'
               PROVE  told'[i][n] <= IF n \in backlog' THEN 0 ELSE 1
    BY DEF ToldOnce
  <2>1. n \notin unmarked /\ told[i][n] <= IF n \in backlog THEN 0 ELSE 1
    BY <1>7 DEF ToldInv, ToldOnce
  <2>2. CASE told'[i][n] = told[i][n]
    BY <1>1, <1>6, <2>1, <2>2
  <2>3. CASE n \in notes \ seen /\ told'[i][n] = told[i][n] + 1
    <3>1. told[i][n] = 0 /\ n \notin backlog
      BY <1>5, <1>6, <2>1, <2>3
    <3>2. ~primed => n \in EndingSoon /\ n \notin Completed
      BY <1>3, <1>4, <2>3, KeyedNotesAre
    <3> QED
      BY <1>1, <2>3, <3>1, <3>2
  <2> QED
    BY <1>2, <2>2, <2>3
<1>10. ASSUME NEW c \in Subjects
       PROVE  CompletedIsOver(c)' /\ EndingIsOver(c)'
  <2>1. ASSUME NEW n \in KeyedNotes, Mentioned(n)'
        PROVE  \/ Mentioned(n)
               \/ n \in notes /\ n \in seen'
               \/ ~primed /\ n \in more /\ n \in seen'
    <3>1. n \notin unmarked
      BY <1>7, <2>1 DEF Mentioned
    <3>2. CASE n \in backlog'
      <4>1. n \in backlog \/ (~primed /\ n \in Completed)
        BY <1>1, <3>2
      <4>2. ~primed /\ n \in Completed => n \in more
        BY <1>1, <1>4, <2>1 DEF Mentioned
      <4> QED
        BY <1>2, <3>1, <4>1, <4>2 DEF Mentioned
    <3>3. CASE \E i \in Ids : told'[i][n] > 0
      BY <1>2, <3>1, <3>3 DEF Mentioned
    <3> QED
      BY <2>1, <3>2, <3>3 DEF Mentioned
  <2>2. CompletedIsOver(c) /\ EndingIsOver(c)
    BY DEF ToldInv, ToldIsOver
  <2>3. Note("completed", c) \in KeyedNotes /\ Note("ending", c) \in KeyedNotes
    BY NotesDiffer
  <2>4. CompletedIsOver(c)'
    <3>1. CASE Mentioned(Note("completed", c)) /\ ~primed
      <4>1. campaign[c].at = "complete"
        BY <2>2, <3>1 DEF CompletedIsOver
      <4>2. CASE Note("completed", c) \in Of(Completed, reached)
        <5>1. Note("completed", c) \in seen'
          BY <1>2, <1>4, <2>3, <3>1, <4>2
        <5> QED
          BY <1>1, <4>1, <5>1 DEF CompletedIsOver
      <4>3. CASE Note("completed", c) \notin Of(Completed, reached)
        <5>1. ~Mentioned(Note("completed", c))'
          BY <1>1, <1>3, <3>1, <4>1, <4>3 DEF Mentioned
        <5> QED
          BY <5>1 DEF CompletedIsOver
      <4> QED
        BY <4>2, <4>3
    <3>2. CASE ~(Mentioned(Note("completed", c)) /\ ~primed)
      <4>1. ASSUME Mentioned(Note("completed", c))'
            PROVE  campaign[c].at = "complete" /\ Note("completed", c) \in seen'
        <5>1. CASE Mentioned(Note("completed", c))
          BY <1>2, <2>2, <3>2, <5>1 DEF CompletedIsOver
        <5>2. CASE Note("completed", c) \in notes \cup more /\ Note("completed", c) \in seen'
          BY <1>3, <1>4, <5>2
        <5> QED
          BY <2>1, <2>3, <4>1, <5>1, <5>2
      <4> QED
        BY <1>1, <4>1 DEF CompletedIsOver
    <3> QED
      BY <3>1, <3>2
  <2>5. EndingIsOver(c)'
    <3>1. ASSUME Mentioned(Note("ending", c))'
          PROVE  /\ campaign[c].soon
                 /\ Note("ending", c) \in seen' \/ campaign[c].at = "complete"
      <4>1. CASE Mentioned(Note("ending", c))
        BY <1>2, <2>2, <4>1 DEF EndingIsOver
      <4>2. CASE Note("ending", c) \in notes \cup more /\ Note("ending", c) \in seen'
        BY <1>3, <1>4, <4>2
      <4> QED
        BY <2>1, <2>3, <3>1, <4>1, <4>2
    <3> QED
      BY <1>1, <3>1 DEF EndingIsOver
  <2> QED
    BY <2>4, <2>5
<1> QED
  BY <1>8, <1>9, <1>10 DEF ToldInv, ToldIsOver

\* What a prune forgets is over.
LEMMA PruneKeepsTold ==
    ASSUME ToldInv, Prune
    PROVE  ToldInv'
<1>1. UNCHANGED <<told, campaign, backlog, unmarked>> /\ primed' = FALSE
  BY DEF Prune
<1>2. seen \cap EndingSoon \subseteq seen'
  BY DEF Prune
<1>3. \A n : Mentioned(n)' <=> Mentioned(n)
  BY <1>1 DEF Mentioned
<1>4. \A c \in Subjects :
         campaign[c].at = "partial" /\ campaign[c].soon => Note("ending", c) \in EndingSoon
  BY DEF EndingSoon
<1>5. ToldTypes' /\ ToldOnce'
  BY <1>1 DEF ToldInv, ToldTypes, ToldOnce
<1>6. ASSUME NEW c \in Subjects
      PROVE  CompletedIsOver(c)' /\ EndingIsOver(c)'
  <2>1. CompletedIsOver(c) /\ EndingIsOver(c)
    BY DEF ToldInv, ToldIsOver
  <2>2. campaign[c].at \in {"partial", "complete"}
    BY DEF ToldInv, ToldTypes
  <2> QED
    BY <1>1, <1>2, <1>3, <1>4, <2>1, <2>2 DEF CompletedIsOver, EndingIsOver
<1> QED
  BY <1>5, <1>6 DEF ToldInv, ToldIsOver

LEMMA ToldStarts == Init => ToldInv
<1> SUFFICES ASSUME Init
             PROVE  ToldInv
  OBVIOUS
<1>1. /\ campaign \in [Subjects -> [at : {"partial", "complete"}, soon : BOOLEAN]]
      /\ primed = FALSE /\ backlog = {} /\ unmarked = {}
  BY DEF Init
<1>2. told = [i \in Ids |-> [n \in KeyedNotes |-> 0]]
  BY DEF Init, DeliveryInit
<1>3. ToldTypes /\ ToldOnce
  <2>1. told \in [Ids -> [KeyedNotes -> Nat]]
    BY <1>2
  <2>2. ToldOnce
    BY <1>1, <1>2 DEF ToldOnce
  <2> QED
    BY <1>1, <2>1, <2>2 DEF ToldTypes
<1>4. \A n \in KeyedNotes : ~Mentioned(n)
  BY <1>1, <1>2 DEF Mentioned
<1> QED
  BY <1>3, <1>4, NotesDiffer DEF ToldInv, ToldIsOver, CompletedIsOver, EndingIsOver

LEMMA ToldStep == ToldInv /\ [Next]_vars => ToldInv'
<1> SUFFICES ASSUME ToldInv, [Next]_vars
             PROVE  ToldInv'
  OBVIOUS
<1>1. CASE Publishing
  <2>1. ASSUME NEW c \in Subjects, StreamStarts(c)
        PROVE  ToldInv'
    <3>1. {Note("online", c)} \cap KeyedNotes = {}
      BY DEF KeyedNotes, Keyed, Note
    <3> QED
      BY <2>1, <3>1, KeylessTellsNothing DEF StreamStarts, campaignVars
  <2>2. CASE MinerRuns
    <3>1. {n \in Notes : n.kind = "recovered"} \cap KeyedNotes = {}
      BY DEF KeyedNotes, Keyed
    <3> QED
      BY <2>2, <3>1, KeylessTellsNothing DEF MinerRuns, campaignVars
  <2>3. ASSUME NEW p \in Parts, Reports(p)
        PROVE  ToldInv'
    <3>1. {n \in Notes : n.kind = "error"} \cap KeyedNotes = {}
      BY DEF KeyedNotes, Keyed
    <3>2. CASE Dispatched({n \in Notes : n.kind = "error"}, {})
      BY <2>3, <3>1, <3>2, KeylessTellsNothing DEF Reports, campaignVars
    <3>3. CASE UNCHANGED <<seen, told>>
      BY <2>3, <3>3, OthersTellNothing DEF Reports, campaignVars
    <3> QED
      BY <2>3, <3>2, <3>3 DEF Reports
  <2>4. ASSUME NEW hasData \in BOOLEAN, DigestTick(hasData)
        PROVE  ToldInv'
    BY <2>4, OthersTellNothing DEF DigestTick, campaignVars
  <2>5. CASE DayMoves \/ MinerCrashes \/ HourPasses
    BY <2>5, OthersTellNothing DEF DayMoves, MinerCrashes, HourPasses, UnlessNotified,
                                   storeVars, campaignVars
  <2> QED
    BY <1>1, <2>1, <2>2, <2>3, <2>4, <2>5, MovesKeepTold, PassKeepsTold, PruneKeepsTold
       DEF Publishing
<1>2. CASE Deliveries /\ UNCHANGED <<campaignVars, digestVars, healthVars>>
  <2>1. UNCHANGED <<told, seen>>
    BY <1>2 DEF Deliveries, WindowEnds, SendAnswered, SendGone, SendFails, UnlessSent, storeVars
  <2> QED
    BY <1>2, <2>1, OthersTellNothing DEF campaignVars
<1>3. CASE Pages /\ UNCHANGED <<campaignVars, digestVars, healthVars>>
  <2>1. UNCHANGED <<told, seen>>
    BY <1>3 DEF Pages, Loads, HealDecides, HealSubscribes, Subscribes, Registers, TurnsOn,
                TurnsOff, GivesUp, Edits, SubscriptionEnds, UnlessPage
  <2> QED
    BY <1>3, <2>1, OthersTellNothing DEF campaignVars
<1>4. CASE AllRestarts \/ UNCHANGED vars
  BY <1>4, OthersTellNothing DEF AllRestarts, BackendRestarts, storeVars, campaignVars, vars,
                                 deliveryVars
<1> QED
  BY <1>1, <1>2, <1>3, <1>4 DEF Next

-----------------------------------------------------------------------------
(* One digest a day.                                                       *)

DigestInv ==
    /\ day \in [date : Nat, past : BOOLEAN]
    /\ digests \in [Ids -> [Dates -> Nat]]
    /\ \A i \in Ids : \A d \in Dates :
          /\ digests[i][d] <= 1
          /\ digests[i][d] > 0 => d < day.date \/ (d = day.date /\ <<i, d>> \in digested)

\* A tick sends what has no key of the day yet, and keeps the key.
LEMMA TickKeepsDigests ==
    ASSUME DigestInv, NEW hasData, DigestTick(hasData)
    PROVE  DigestInv'
<1>1. PICK due : /\ due = {i \in Rows : /\ rows[i].on /\ rows[i].prefs = "own"
                                        /\ <<i, day.date>> \notin digested}
                 /\ digested' = digested \cup {<<i, day.date>> : i \in due}
                 /\ digests' = [i \in Ids |-> [d \in Dates |->
                         IF i \in due /\ d = day.date /\ digests[i][d] < 2
                           THEN digests[i][d] + 1 ELSE digests[i][d]]]
  BY DEF DigestTick
<1>2. day' = day
  BY DEF DigestTick
<1>3. digests' \in [Ids -> [Dates -> Nat]]
  BY <1>1 DEF DigestInv
<1>4. ASSUME NEW i \in Ids, NEW d \in Dates
      PROVE  /\ digests'[i][d] <= 1
             /\ digests'[i][d] > 0 => d < day.date \/ (d = day.date /\ <<i, d>> \in digested')
  <2>1. /\ digests[i][d] \in Nat /\ day.date \in Nat
        /\ digests[i][d] <= 1
        /\ digests[i][d] > 0 => d < day.date \/ (d = day.date /\ <<i, d>> \in digested)
    BY DEF DigestInv
  <2>2. CASE i \in due /\ d = day.date
    <3>1. digests[i][d] = 0
      BY <1>1, <2>1, <2>2
    <3> QED
      BY <1>1, <2>2, <3>1
  <2>3. CASE ~(i \in due /\ d = day.date)
    BY <1>1, <2>1, <2>3
  <2> QED
    BY <2>2, <2>3
<1> QED
  BY <1>2, <1>3, <1>4 DEF DigestInv

LEMMA DigestsStart == Init => DigestInv
BY DEF Init, DigestInv

LEMMA DigestStep == DigestInv /\ [Next]_vars => DigestInv'
<1> SUFFICES ASSUME DigestInv, [Next]_vars
             PROVE  DigestInv'
  OBVIOUS
<1>1. ASSUME UNCHANGED digestVars
      PROVE  DigestInv'
  BY <1>1 DEF DigestInv, digestVars
<1>2. CASE Publishing
  <2>1. CASE DayMoves
    <3>1. /\ day' \in [date : Nat, past : BOOLEAN]
          /\ day'.date = day.date \/ day'.date = day.date + 1
      <4>1. day \in [date : Nat, past : BOOLEAN]
        BY DEF DigestInv
      <4>2. CASE day.past
        BY <2>1, <4>1, <4>2 DEF DayMoves
      <4>3. CASE ~day.past
        BY <2>1, <4>1, <4>3 DEF DayMoves
      <4> QED
        BY <4>2, <4>3
    <3>2. UNCHANGED <<digests, digested>>
      BY <2>1 DEF DayMoves
    <3>3. day.date \in Nat /\ \A d \in Dates : d \in Int
      BY DEF DigestInv, Dates
    <3> QED
      BY <3>1, <3>2, <3>3 DEF DigestInv
  <2>2. CASE Prune
    BY <2>2 DEF DigestInv, Prune
  <2>3. CASE MinerCrashes \/ MinerRuns \/ HourPasses \/ CampaignPass
    BY <1>1, <2>3 DEF MinerCrashes, MinerRuns, HourPasses, CampaignPass
  <2>4. ASSUME NEW c \in Subjects, CampaignMoves(c) \/ StreamStarts(c)
        PROVE  DigestInv'
    BY <1>1, <2>4 DEF CampaignMoves, StreamStarts
  <2>5. ASSUME NEW p \in Parts, Reports(p)
        PROVE  DigestInv'
    BY <1>1, <2>5 DEF Reports
  <2> QED
    BY <1>2, <2>1, <2>2, <2>3, <2>4, <2>5, TickKeepsDigests DEF Publishing
<1> QED
  BY <1>1, <1>2 DEF Next, AllRestarts, vars

-----------------------------------------------------------------------------
(* The theorems.                                                           *)

\* Whatever restarts, passes, ticks, batches, prunes and races of tabs there are,
\* a destination is given a notification with a key, and a digest of a day, once,
\* none of the backlog, and an endpoint is in one row (notify/store.ts,
\* sources/campaigns.ts, sources/digest.ts); but for the completions that a first
\* run ended before, after it had stored its own key.
THEOREM EverythingRingsOnce == Spec => []RingsOnce
<1>1. RowsInv /\ ToldInv /\ DigestInv => RingsOnce
  BY DEF RowsInv, ToldInv, ToldOnce, DigestInv, RingsOnce, AnnouncedOnce
<1>2. Spec => []RowsInv
  BY RowsStart, RowsStep, PTL DEF Spec
<1>3. Spec => []ToldInv
  BY ToldStarts, ToldStep, PTL DEF Spec
<1>4. Spec => []DigestInv
  BY DigestsStart, DigestStep, PTL DEF Spec
<1> QED
  BY <1>1, <1>2, <1>3, <1>4, PTL

LinkTypes ==
    /\ gate \in {"checking", "locked", "open"}
    /\ source \in [Streams -> {"closed", "connecting", "open", "failed"}]
    /\ wire \in [Streams -> Seq(Nat)]
    /\ current \in Streams \cup {NoStream}

ViewTypes ==
    /\ news \in Nat
    /\ load \in [Views -> [is : {"none", "asked", "answered"}, news : Nat]]
    /\ shown \in [Views -> Nat]
    /\ pushed \in BOOLEAN /\ missed \in BOOLEAN

PageTypes == LinkTypes /\ ViewTypes

\* A connection that is not closed is the one the page's handlers belong to.
Held == \A s \in Streams : source[s] # "closed" => s = current

\* Nothing is held, asked or loading behind a locked gate.
LockedIsBare ==
    IF gate = "open" THEN current \in Streams
    ELSE /\ current = NoStream /\ timers = NoTimers /\ probes = NoProbes
         /\ load["status"].is = "none"

\* Frames are only on an open connection.
FramesAreHeld == \A s \in Streams : wire[s] # <<>> => source[s] = "open"

\* While a frame is on its way nothing is missed, and the last one is the news.
FramesAreNews ==
    \A s \in Streams : wire[s] # <<>> => ~missed /\ wire[s][Len(wire[s])] = news

\* A page that missed nothing and waits for no frame shows the news ...
NewsIsShown == gate = "open" /\ ~missed /\ wire[current] = <<>> => shown["status"] = news

\* ... and no load of this mount can come back over it.
NoLateLoad ==
    gate = "open" /\ ~missed /\ ~pushed /\ wire[current] = <<>> => load["status"].is = "none"

PageInv ==
    /\ PageTypes
    /\ Held
    /\ LockedIsBare
    /\ FramesAreHeld
    /\ FramesAreNews
    /\ NewsIsShown
    /\ NoLateLoad

-----------------------------------------------------------------------------
(* Lemmas about the frames on a wire.                                      *)

\* A frame just sent is the last one.
LEMMA SentIsLast ==
    ASSUME NEW w \in Seq(Nat), NEW n \in Nat
    PROVE  /\ Append(w, n) \in Seq(Nat) /\ Append(w, n) # <<>>
           /\ Append(w, n)[Len(Append(w, n))] = n
OBVIOUS

\* Taking a frame leaves the last one where it is, unless it was that one.
LEMMA TakenLeavesLast ==
    ASSUME NEW w \in Seq(Nat), w # <<>>
    PROVE  /\ Tail(w) \in Seq(Nat) /\ Head(w) \in Nat
           /\ Tail(w) = <<>> => Head(w) = w[Len(w)]
           /\ Tail(w) # <<>> => Tail(w)[Len(Tail(w))] = w[Len(w)]
<1>1. /\ Tail(w) \in Seq(Nat) /\ Head(w) \in Nat /\ Head(w) = w[1]
      /\ \A i \in 1 .. Len(Tail(w)) : Tail(w)[i] = w[i + 1]
  BY HeadTailProperties
<1>2. Len(Tail(w)) \in Nat /\ Len(w) = Len(Tail(w)) + 1
  BY <1>1, HeadTailProperties, LenProperties
<1>3. ASSUME Tail(w) # <<>>
      PROVE  Len(Tail(w)) \in 1 .. Len(Tail(w))
  BY <1>1, <1>3, EmptySeq
<1>4. Tail(w) = <<>> => Head(w) = w[Len(w)]
  <2>1. CASE Tail(w) = <<>>
    <3>1. Len(Tail(w)) = 0
      BY <2>1, EmptySeq
    <3> QED
      BY <1>1, <1>2, <3>1
  <2> QED
    BY <2>1
<1> QED
  BY <1>1, <1>2, <1>3, <1>4

-----------------------------------------------------------------------------
(* The steps.  A step that leaves the wires, the gate and the page alone   *)
(* has little to answer for; the others are taken apart into what they do  *)
(* to the types, to who holds what, and to what is on its way and shown.   *)

\* An EventSource opens: it was connecting, so it is the page's own.
LEMMA OpensKeeps ==
    ASSUME PageInv, NEW s \in Streams, Opens(s)
    PROVE  PageInv'
BY NoStreamAssumption DEF PageInv, PageTypes, LinkTypes, ViewTypes, Held,
       LockedIsBare, FramesAreHeld, FramesAreNews, NewsIsShown, NoLateLoad, Opens,
       serverVars, viewVars

\* A connection that fails sets timers only.
LEMMA RetriesKeeps ==
    ASSUME PageInv, NEW s \in Streams, Retries(s)
    PROVE  PageInv'
BY NoStreamAssumption DEF PageInv, PageTypes, LinkTypes, ViewTypes, Held,
       LockedIsBare, FramesAreHeld, FramesAreNews, NewsIsShown, NoLateLoad, Retries,
       ErrorEvent, UnlessStream, viewVars

\* A refused connection had no frame on it.
LEMMA RefusedKeeps ==
    ASSUME PageInv, NEW s \in Streams, Refused(s)
    PROVE  PageInv'
BY NoStreamAssumption DEF PageInv, PageTypes, LinkTypes, ViewTypes, Held,
       LockedIsBare, FramesAreHeld, FramesAreNews, NewsIsShown, NoLateLoad, Refused,
       ErrorEvent, UnlessStream, viewVars

\* What was on a wire that is cut is missed, and the page knows less, not wrong.
LEMMA CutKeeps ==
    ASSUME PageInv, NEW s \in Streams, Cut(s)
    PROVE  PageInv'
<1>0. LinkTypes'
  BY NoStreamAssumption DEF PageInv, PageTypes, LinkTypes, ViewTypes,
         LockedIsBare, Cut, ErrorEvent, Emptied
<1>1. ViewTypes'
  BY NoStreamAssumption DEF PageInv, PageTypes, ViewTypes, Cut, ErrorEvent,
         Emptied
<1>2. Held' /\ LockedIsBare' /\ FramesAreHeld'
  BY NoStreamAssumption DEF PageInv, PageTypes, LinkTypes, Held, LockedIsBare,
         FramesAreHeld, Cut, ErrorEvent, Emptied
<1>3. FramesAreNews' /\ NewsIsShown' /\ NoLateLoad'
  BY NoStreamAssumption DEF PageInv, PageTypes, LinkTypes, ViewTypes, Held,
         LockedIsBare, FramesAreHeld, FramesAreNews, NewsIsShown, NoLateLoad, Cut,
         ErrorEvent, Emptied
<1> QED
  BY <1>0, <1>1, <1>2, <1>3 DEF PageInv, PageTypes

\* The badge's timer.
LEMMA GraceKeeps ==
    ASSUME PageInv, GraceFires
    PROVE  PageInv'
BY NoStreamAssumption DEF PageInv, PageTypes, LinkTypes, ViewTypes, Held,
       LockedIsBare, FramesAreHeld, FramesAreNews, NewsIsShown, NoLateLoad,
       GraceFires, serverVars, viewVars, NoTimers

\* The reconnect timer is never set behind a locked gate.
LEMMA ReconnectKeeps ==
    ASSUME PageInv, ReconnectFires
    PROVE  PageInv'
BY NoStreamAssumption DEF PageInv, PageTypes, LinkTypes, ViewTypes, Held,
       LockedIsBare, FramesAreHeld, FramesAreNews, NewsIsShown, NoLateLoad,
       ReconnectFires, serverVars, viewVars, NoTimers

\* Nor is a probe on its way there.
LEMMA ProbeKeeps ==
    ASSUME PageInv, ProbeAnswered
    PROVE  PageInv'
BY NoStreamAssumption DEF PageInv, PageTypes, LinkTypes, ViewTypes, Held,
       LockedIsBare, FramesAreHeld, FramesAreNews, NewsIsShown, NoLateLoad,
       ProbeAnswered, serverVars, viewVars, NoProbes

\* A rebuilt connection takes the place of the held one, and misses what was on it.
LEMMA RebuildsKeeps ==
    ASSUME PageInv, Rebuilds
    PROVE  PageInv'
<1>0. LinkTypes'
  <2>1. PICK s \in Streams \ {current} : Connects(ClosedSource(current), s)
    BY DEF Rebuilds
  <2>2. source' \in [Streams -> {"closed", "connecting", "open", "failed"}]
    BY <2>1 DEF PageInv, PageTypes, LinkTypes, Connects, ClosedSource
  <2>3. wire' \in [Streams -> Seq(Nat)]
    BY EmptySeq DEF PageInv, PageTypes, LinkTypes, Rebuilds, Emptied
  <2> QED
    BY <2>1, <2>2, <2>3 DEF PageInv, PageTypes, LinkTypes, Connects, Rebuilds
<1>1. ViewTypes'
  BY NoStreamAssumption DEF PageInv, PageTypes, ViewTypes, Rebuilds, Connects,
         ClosedSource, Emptied, serverVars, NoProbes
<1>2. Held' /\ LockedIsBare' /\ FramesAreHeld'
  BY NoStreamAssumption DEF PageInv, PageTypes, LinkTypes, Held, LockedIsBare,
         FramesAreHeld, Rebuilds, Connects, ClosedSource, Emptied, serverVars, NoProbes
<1>3. FramesAreNews' /\ NewsIsShown' /\ NoLateLoad'
  BY NoStreamAssumption DEF PageInv, PageTypes, LinkTypes, ViewTypes, Held,
         LockedIsBare, FramesAreHeld, FramesAreNews, NewsIsShown, NoLateLoad,
         Rebuilds, Connects, ClosedSource, Emptied, serverVars, NoProbes
<1> QED
  BY <1>0, <1>1, <1>2, <1>3 DEF PageInv, PageTypes

\* A refused probe unmounts the page, with its connection.
LEMMA ExpiredKeeps ==
    ASSUME PageInv, Expired
    PROVE  PageInv'
<1>0. LinkTypes'
  BY NoStreamAssumption DEF PageInv, PageTypes, LinkTypes, ViewTypes,
         LockedIsBare, Expired, Unmounts, ClosedSource, Emptied, serverVars, NoProbes,
         NoTimers, Nothing, NotAsked, Views
<1>1. ViewTypes'
  <2>1. load' \in [Views -> [is : {"none", "asked", "answered"}, news : Nat]]
    BY DEF Expired, Unmounts, NotAsked
  <2>2. shown' \in [Views -> Nat]
    BY DEF Expired, Unmounts, Nothing, Views
  <2> QED
    BY <2>1, <2>2 DEF PageInv, PageTypes, ViewTypes, Expired, Unmounts, serverVars
<1>2. Held' /\ LockedIsBare' /\ FramesAreHeld'
  BY NoStreamAssumption DEF PageInv, PageTypes, LinkTypes, Held, LockedIsBare,
         FramesAreHeld, Expired, Unmounts, ClosedSource, Emptied, serverVars, NoProbes,
         NoTimers, Nothing, NotAsked, Views
<1>3. FramesAreNews' /\ NewsIsShown' /\ NoLateLoad'
  BY NoStreamAssumption DEF PageInv, PageTypes, LinkTypes, ViewTypes, Held,
         LockedIsBare, FramesAreHeld, FramesAreNews, NewsIsShown, NoLateLoad,
         Expired, Unmounts, ClosedSource, Emptied, serverVars, NoProbes, NoTimers, Nothing,
         NotAsked, Views
<1> QED
  BY <1>0, <1>1, <1>2, <1>3 DEF PageInv, PageTypes

\* The first check of the session mounts the page or locks the gate.
LEMMA CheckKeeps ==
    ASSUME PageInv, CheckAnswers
    PROVE  PageInv'
<1>0. LinkTypes'
  BY NoStreamAssumption DEF PageInv, PageTypes, LinkTypes, ViewTypes,
         LockedIsBare, CheckAnswers, Mounts, Connects, UnlessMount, serverVars, Views
<1>1. ViewTypes'
  <2>1. load' \in [Views -> [is : {"none", "asked", "answered"}, news : Nat]]
    <3>1. CASE reachable /\ cookie
      BY <3>1 DEF CheckAnswers, Mounts
    <3>2. CASE ~(reachable /\ cookie)
      BY <3>2 DEF PageInv, PageTypes, ViewTypes, CheckAnswers
    <3> QED
      BY <3>1, <3>2
  <2>2. missed' \in BOOLEAN
    BY DEF PageInv, PageTypes, ViewTypes, CheckAnswers, Mounts
  <2> QED
    BY <2>1, <2>2 DEF PageInv, PageTypes, ViewTypes, CheckAnswers, UnlessMount, serverVars
<1>2. Held' /\ LockedIsBare' /\ FramesAreHeld'
  BY NoStreamAssumption DEF PageInv, PageTypes, LinkTypes, Held, LockedIsBare,
         FramesAreHeld, CheckAnswers, Mounts, Connects, UnlessMount, serverVars,
         Views
<1>3. FramesAreNews' /\ NewsIsShown' /\ NoLateLoad'
  BY NoStreamAssumption DEF PageInv, PageTypes, LinkTypes, ViewTypes, Held,
         LockedIsBare, FramesAreHeld, FramesAreNews, NewsIsShown, NoLateLoad,
         CheckAnswers, Mounts, Connects, UnlessMount, serverVars, Views
<1> QED
  BY <1>0, <1>1, <1>2, <1>3 DEF PageInv, PageTypes

\* The password mounts the page.
LEMMA UnlockKeeps ==
    ASSUME PageInv, Unlock
    PROVE  PageInv'
<1>0. LinkTypes'
  BY NoStreamAssumption DEF PageInv, PageTypes, LinkTypes, ViewTypes,
         LockedIsBare, Unlock, Mounts, Connects, UnlessMount, Views
<1>1. ViewTypes'
  BY NoStreamAssumption DEF PageInv, PageTypes, ViewTypes, Unlock, Mounts,
         Connects, UnlessMount, Views
<1>2. Held' /\ LockedIsBare' /\ FramesAreHeld'
  BY NoStreamAssumption DEF PageInv, PageTypes, LinkTypes, Held, LockedIsBare,
         FramesAreHeld, Unlock, Mounts, Connects, UnlessMount, Views
<1>3. FramesAreNews' /\ NewsIsShown' /\ NoLateLoad'
  BY NoStreamAssumption DEF PageInv, PageTypes, LinkTypes, ViewTypes, Held,
         LockedIsBare, FramesAreHeld, FramesAreNews, NewsIsShown, NoLateLoad, Unlock,
         Mounts, Connects, UnlessMount, Views
<1> QED
  BY <1>0, <1>1, <1>2, <1>3 DEF PageInv, PageTypes

\* Logging out unmounts it.
LEMMA LogOutKeeps ==
    ASSUME PageInv, LogOut
    PROVE  PageInv'
<1>0. LinkTypes'
  BY NoStreamAssumption DEF PageInv, PageTypes, LinkTypes, ViewTypes,
         LockedIsBare, LogOut, Unmounts, ClosedSource, Emptied, NoProbes, NoTimers,
         Nothing, NotAsked, Views
<1>1. ViewTypes'
  <2>1. load' \in [Views -> [is : {"none", "asked", "answered"}, news : Nat]]
    BY DEF LogOut, Unmounts, NotAsked
  <2>2. shown' \in [Views -> Nat]
    BY DEF LogOut, Unmounts, Nothing, Views
  <2> QED
    BY <2>1, <2>2 DEF PageInv, PageTypes, ViewTypes, LogOut, Unmounts
<1>2. Held' /\ LockedIsBare' /\ FramesAreHeld'
  BY NoStreamAssumption DEF PageInv, PageTypes, LinkTypes, Held, LockedIsBare,
         FramesAreHeld, LogOut, Unmounts, ClosedSource, Emptied, NoProbes, NoTimers,
         Nothing, NotAsked, Views
<1>3. FramesAreNews' /\ NewsIsShown' /\ NoLateLoad'
  BY NoStreamAssumption DEF PageInv, PageTypes, LinkTypes, ViewTypes, Held,
         LockedIsBare, FramesAreHeld, FramesAreNews, NewsIsShown, NoLateLoad, LogOut,
         Unmounts, ClosedSource, Emptied, NoProbes, NoTimers, Nothing, NotAsked, Views
<1> QED
  BY <1>0, <1>1, <1>2, <1>3 DEF PageInv, PageTypes

\* News goes out on the open connection, or is missed.
LEMMA PublishKeeps ==
    ASSUME PageInv, Publish
    PROVE  PageInv'
<1>0. LinkTypes'
  BY NoStreamAssumption, SentIsLast DEF PageInv, PageTypes, LinkTypes,
         ViewTypes, LockedIsBare, Publish
<1>1. ViewTypes'
  BY NoStreamAssumption, SentIsLast DEF PageInv, PageTypes, ViewTypes, Publish
<1>2. Held' /\ LockedIsBare' /\ FramesAreHeld'
  BY NoStreamAssumption DEF PageInv, PageTypes, LinkTypes, Held, LockedIsBare,
         FramesAreHeld, Publish
<1>3. FramesAreNews'
  BY NoStreamAssumption, SentIsLast DEF PageInv, PageTypes, LinkTypes,
         ViewTypes, Held, LockedIsBare, FramesAreHeld, FramesAreNews, NewsIsShown,
         NoLateLoad, Publish
<1>4. NewsIsShown' /\ NoLateLoad'
  <2> SUFFICES ASSUME gate = "open", ~missed'
               PROVE  wire'[current'] # <<>>
    BY DEF NewsIsShown, NoLateLoad, Publish
  <2>1. PICK s \in Streams : source[s] = "open"
    BY DEF Publish
  <2>2. s = current /\ wire[s] \in Seq(Nat) /\ news + 1 \in Nat
    BY <2>1 DEF PageInv, PageTypes, LinkTypes, ViewTypes, Held
  <2>3. wire'[s] = Append(wire[s], news + 1) /\ current' = current
    BY <2>1 DEF Publish
  <2> QED
    BY <2>2, <2>3, SentIsLast
<1> QED
  BY <1>0, <1>1, <1>2, <1>3, <1>4 DEF PageInv, PageTypes

\* The last frame of a wire shows the news; any other leaves it to come.
LEMMA FrameKeeps ==
    ASSUME PageInv, NEW s \in Streams, Frame(s)
    PROVE  PageInv'
<1>0. LinkTypes'
  BY NoStreamAssumption, TakenLeavesLast DEF PageInv, PageTypes, LinkTypes,
         ViewTypes, LockedIsBare, Frame, serverVars, Views
<1>1. ViewTypes'
  <2>1. Head(wire[s]) \in Nat
    BY TakenLeavesLast DEF PageInv, PageTypes, LinkTypes, Frame
  <2> QED
    BY <2>1 DEF PageInv, PageTypes, ViewTypes, Frame, serverVars
<1>2. Held' /\ LockedIsBare' /\ FramesAreHeld'
  BY NoStreamAssumption DEF PageInv, PageTypes, LinkTypes, Held, LockedIsBare,
         FramesAreHeld, Frame, serverVars, Views
<1>3. FramesAreNews' /\ NewsIsShown' /\ NoLateLoad'
  BY NoStreamAssumption, TakenLeavesLast DEF PageInv, PageTypes, LinkTypes,
         ViewTypes, Held, LockedIsBare, FramesAreHeld, FramesAreNews, NewsIsShown,
         NoLateLoad, Frame, serverVars, Views
<1> QED
  BY <1>0, <1>1, <1>2, <1>3 DEF PageInv, PageTypes

\* A load is answered: only one that was asked.
LEMMA LoadAnsweredKeeps ==
    ASSUME PageInv, NEW v \in Views, LoadAnswered(v)
    PROVE  PageInv'
<1>0. LinkTypes'
  BY NoStreamAssumption DEF PageInv, PageTypes, LinkTypes, ViewTypes,
         LockedIsBare, LoadAnswered, serverVars, linkVars, NotAsked, Views
<1>1. ViewTypes'
  BY NoStreamAssumption DEF PageInv, PageTypes, ViewTypes, LoadAnswered,
         serverVars, linkVars, NotAsked, Views
<1>2. Held' /\ LockedIsBare' /\ FramesAreHeld'
  BY NoStreamAssumption DEF PageInv, PageTypes, LinkTypes, Held, LockedIsBare,
         FramesAreHeld, LoadAnswered, serverVars, linkVars, NotAsked, Views
<1>3. FramesAreNews' /\ NewsIsShown' /\ NoLateLoad'
  BY NoStreamAssumption DEF PageInv, PageTypes, LinkTypes, ViewTypes, Held,
         LockedIsBare, FramesAreHeld, FramesAreNews, NewsIsShown, NoLateLoad,
         LoadAnswered, serverVars, linkVars, NotAsked, Views
<1> QED
  BY <1>0, <1>1, <1>2, <1>3 DEF PageInv, PageTypes

\* A load that comes back over a frame is not taken.
LEMMA LoadReturnsKeeps ==
    ASSUME PageInv, NEW v \in Views, LoadReturns(v)
    PROVE  PageInv'
<1>0. LinkTypes'
  BY NoStreamAssumption DEF PageInv, PageTypes, LinkTypes, ViewTypes,
         LockedIsBare, LoadReturns, Adopts, serverVars, linkVars, NotAsked, Views
<1>1. ViewTypes'
  BY NoStreamAssumption DEF PageInv, PageTypes, ViewTypes, LoadReturns,
         Adopts, serverVars, linkVars, NotAsked, Views
<1>2. Held' /\ LockedIsBare' /\ FramesAreHeld'
  BY NoStreamAssumption DEF PageInv, PageTypes, LinkTypes, Held, LockedIsBare,
         FramesAreHeld, LoadReturns, Adopts, serverVars, linkVars, NotAsked, Views
<1>3. FramesAreNews' /\ NewsIsShown' /\ NoLateLoad'
  BY NoStreamAssumption DEF PageInv, PageTypes, LinkTypes, ViewTypes, Held,
         LockedIsBare, FramesAreHeld, FramesAreNews, NewsIsShown, NoLateLoad,
         LoadReturns, Adopts, serverVars, linkVars, NotAsked, Views
<1> QED
  BY <1>0, <1>1, <1>2, <1>3 DEF PageInv, PageTypes

\* A session that ends shows at the next request only.
LEMMA EndsKeeps ==
    ASSUME PageInv, SessionEnds
    PROVE  PageInv'
BY NoStreamAssumption DEF PageInv, PageTypes, LinkTypes, ViewTypes, Held,
       LockedIsBare, FramesAreHeld, FramesAreNews, NewsIsShown, NoLateLoad,
       SessionEnds, UnlessServer, viewVars

\* An outage breaks the connection and loses what was on it.
LEMMA DownKeeps ==
    ASSUME PageInv, GoesDown
    PROVE  PageInv'
<1>0. LinkTypes'
  BY NoStreamAssumption DEF PageInv, PageTypes, LinkTypes, ViewTypes,
         LockedIsBare, GoesDown, ErrorEvent
<1>1. ViewTypes'
  BY NoStreamAssumption DEF PageInv, PageTypes, ViewTypes, GoesDown,
         ErrorEvent
<1>2. Held' /\ LockedIsBare' /\ FramesAreHeld'
  BY NoStreamAssumption DEF PageInv, PageTypes, LinkTypes, Held, LockedIsBare,
         FramesAreHeld, GoesDown, ErrorEvent
<1>3. FramesAreNews' /\ NewsIsShown' /\ NoLateLoad'
  BY NoStreamAssumption DEF PageInv, PageTypes, LinkTypes, ViewTypes, Held,
         LockedIsBare, FramesAreHeld, FramesAreNews, NewsIsShown, NoLateLoad,
         GoesDown, ErrorEvent
<1> QED
  BY <1>0, <1>1, <1>2, <1>3 DEF PageInv, PageTypes

\* The backend is back.
LEMMA UpKeeps ==
    ASSUME PageInv, ComesUp
    PROVE  PageInv'
BY NoStreamAssumption DEF PageInv, PageTypes, LinkTypes, ViewTypes, Held,
       LockedIsBare, FramesAreHeld, FramesAreNews, NewsIsShown, NoLateLoad, ComesUp,
       UnlessServer, viewVars

\* Another tab signs in.
LEMMA OtherKeeps ==
    ASSUME PageInv, OtherTabSignsIn
    PROVE  PageInv'
BY NoStreamAssumption DEF PageInv, PageTypes, LinkTypes, ViewTypes, Held,
       LockedIsBare, FramesAreHeld, FramesAreNews, NewsIsShown, NoLateLoad,
       OtherTabSignsIn, UnlessServer, viewVars

-----------------------------------------------------------------------------
(* The theorem.                                                            *)

LEMMA PageStarts == PageInit => PageInv
<1> SUFFICES ASSUME PageInit
             PROVE  PageInv
  OBVIOUS
<1>1. shown \in [Views -> Nat]
  BY DEF PageInit, Nothing, Views
<1>2. load \in [Views -> [is : {"none", "asked", "answered"}, news : Nat]]
  BY DEF PageInit, NotAsked
<1>3. load["status"].is = "none"
  BY DEF PageInit, NotAsked, Views
<1>4. LinkTypes /\ ViewTypes
  <2>1. /\ source \in [Streams -> {"closed", "connecting", "open", "failed"}]
        /\ wire \in [Streams -> Seq(Nat)]
    BY EmptySeq DEF PageInit
  <2>2. news \in Nat
    BY DEF PageInit
  <2> QED
    BY <1>1, <1>2, <2>1, <2>2 DEF PageInit, LinkTypes, ViewTypes
<1>5. \A s \in Streams : wire[s] = <<>> /\ source[s] = "closed"
  BY DEF PageInit
<1> QED
  BY <1>3, <1>4, <1>5 DEF PageInit, PageInv, PageTypes, LinkTypes, ViewTypes,
         Held, LockedIsBare, FramesAreHeld, FramesAreNews, NewsIsShown, NoLateLoad

\* Every step of the page, the backend and the other tabs keeps the invariant.
LEMMA PageStep == PageInv /\ [PageNext]_pageVars => PageInv'
<1> SUFFICES ASSUME PageInv, [PageNext]_pageVars
             PROVE  PageInv'
  OBVIOUS
<1>1. ASSUME NEW s \in Streams, Opens(s) \/ Retries(s) \/ Refused(s)
      PROVE  PageInv'
  BY <1>1, OpensKeeps, RetriesKeeps, RefusedKeeps
<1>2. ASSUME NEW s \in Streams, Cut(s) \/ Frame(s)
      PROVE  PageInv'
  BY <1>2, CutKeeps, FrameKeeps
<1>3. ASSUME NEW v \in Views, LoadAnswered(v) \/ LoadReturns(v)
      PROVE  PageInv'
  BY <1>3, LoadAnsweredKeeps, LoadReturnsKeeps
<1>4. CASE GraceFires \/ ReconnectFires \/ ProbeAnswered \/ Rebuilds \/ Expired
  BY <1>4, GraceKeeps, ReconnectKeeps, ProbeKeeps, RebuildsKeeps, ExpiredKeeps
<1>5. CASE CheckAnswers \/ Unlock \/ LogOut \/ Publish
  BY <1>5, CheckKeeps, UnlockKeeps, LogOutKeeps, PublishKeeps
<1>6. CASE SessionEnds \/ GoesDown \/ ComesUp \/ OtherTabSignsIn
  BY <1>6, EndsKeeps, DownKeeps, UpKeeps, OtherKeeps
<1>7. CASE UNCHANGED pageVars
  BY <1>7 DEF PageInv, PageTypes, LinkTypes, ViewTypes, Held, LockedIsBare,
         FramesAreHeld, FramesAreNews, NewsIsShown, NoLateLoad, pageVars, serverVars,
         linkVars, viewVars
<1> QED
  BY <1>1, <1>2, <1>3, <1>4, <1>5, <1>6, <1>7 DEF PageNext, StreamStep, ProbeStep, Arrives

\* Who is connected is the one held; and with nothing on its way, what was not
\* missed is what is shown.
LEMMA PageInvSuffices == PageInv => PageIsCurrent
<1> SUFFICES ASSUME PageInv
             PROVE  PageIsCurrent
  OBVIOUS
<1>1. OneStream
  BY NoStreamAssumption DEF PageInv, Held, LockedIsBare, OneStream, Live
<1>2. StatusIsCurrent
  <2>1. shown.status = shown["status"]
    BY DEF PageInv, PageTypes
  <2> QED
    BY <2>1 DEF PageInv, NewsIsShown, StatusIsCurrent
<1> QED
  BY <1>1, <1>2 DEF PageIsCurrent

\* Whatever reconnects, probes, outages, sign-ins and loads overlap, a page has
\* one connection, its own, a locked gate has none, and a page that has missed
\* nothing shows the status there is (useLiveState.ts, app.tsx).
THEOREM PageStaysCurrent == PageSpec => []PageIsCurrent
<1>1. PageSpec => []PageInv
  BY PageStarts, PageStep, PTL DEF PageSpec
<1> QED
  BY <1>1, PageInvSuffices, PTL

-----------------------------------------------------------------------------
(* The limiter's guesses.                                                  *)

InOrder(guesses) == \A i, j \in 1..Len(guesses) : i <= j => guesses[i] <= guesses[j]

\* What a moment takes from the guesses of the last Lockout are the oldest.
LEMMA RecentIsTheEnd ==
    ASSUME AccessAssumption, NEW guesses \in Seq(Nat), InOrder(guesses), NEW t \in Nat
    PROVE  \E n \in 0..Len(guesses) :
              /\ Recent(guesses, t) \in Seq(Nat)
              /\ Len(Recent(guesses, t)) = Len(guesses) - n
              /\ \A i \in 1..Len(Recent(guesses, t)) :
                    /\ Recent(guesses, t)[i] = guesses[i + n]
                    /\ guesses[i + n] + Lockout > t
              /\ \A i \in 1..n : guesses[i] + Lockout <= t
<1> DEFINE old == {i \in 1..Len(guesses) : guesses[i] + Lockout <= t}
<1>1. /\ Len(guesses) \in Nat /\ Lockout \in Nat
      /\ \A i \in 1..Len(guesses) : guesses[i] \in Nat
  BY ElementOfSeq DEF AccessAssumption
<1>2. PICK n : n = Cardinality(old)
  OBVIOUS
<1>3. IsFiniteSet(old) /\ n \in 0..Len(guesses)
  <2>1. IsFiniteSet(1..Len(guesses)) /\ Cardinality(1..Len(guesses)) = Len(guesses)
    BY <1>1, FS_Interval
  <2>2. IsFiniteSet(old) /\ Cardinality(old) <= Len(guesses)
    BY <2>1, FS_Subset
  <2> QED
    BY <1>1, <1>2, <2>2, FS_CardinalityType
<1>4. ASSUME NEW i \in old PROVE i <= n
  <2>1. 1..i \subseteq old
    BY <1>1, <1>4 DEF InOrder
  <2>2. Cardinality(1..i) = i
    BY <1>1, <1>4, FS_Interval
  <2>3. Cardinality(1..i) <= n
    BY <1>2, <1>3, <2>1, FS_Subset
  <2> QED
    BY <1>1, <1>3, <2>2, <2>3
<1>5. ASSUME NEW i \in 1..Len(guesses), i \notin old PROVE i > n
  <2>1. old \subseteq 1..(i - 1)
    BY <1>1, <1>5 DEF InOrder
  <2>2. Cardinality(1..(i - 1)) = i - 1 /\ IsFiniteSet(1..(i - 1))
    <3>1. i \in Nat \ {0}
      BY <1>1
    <3> QED
      BY <3>1, FS_Interval
  <2>3. n <= i - 1
    BY <1>2, <2>1, <2>2, FS_Subset
  <2> QED
    BY <1>1, <1>3, <2>3
<1>6. Recent(guesses, t) = SubSeq(guesses, n + 1, Len(guesses))
  BY <1>2 DEF Recent
<1>7. \A i \in 1..n : guesses[i] + Lockout <= t
  BY <1>1, <1>3, <1>5
<1>8. \A i \in n + 1..Len(guesses) : guesses[i] + Lockout > t
  BY <1>1, <1>3, <1>4
<1> HIDE DEF old
<1>9. /\ Recent(guesses, t) \in Seq(Nat)
      /\ Len(Recent(guesses, t)) = Len(guesses) - n
      /\ \A i \in 1..(Len(guesses) - n) : Recent(guesses, t)[i] = guesses[i + n]
  <2>1. \A i \in n + 1..Len(guesses) : i \in 1..Len(guesses) /\ guesses[i] \in Nat
    BY <1>1, <1>3
  <2> QED
    BY <1>1, <1>3, <1>6, <2>1, SubSeqProperties
<1>10. \A i \in 1..(Len(guesses) - n) : guesses[i + n] + Lockout > t
  BY <1>1, <1>3, <1>8
<1> QED
  BY <1>3, <1>7, <1>9, <1>10

\* What the last Lockout holds when no window is open, in one, and in a lockout.
Rationed(guesses, record) ==
    LET n == record.failures
        total == Len(guesses)
    IN  /\ Over(record.expiresAt) => total < MaxAttempts
        /\ ~Over(record.expiresAt) /\ n < MaxAttempts =>
              /\ n >= 1 /\ n <= total /\ total - n < MaxAttempts
              /\ record.expiresAt = guesses[total - n + 1] + Lockout
        /\ ~Over(record.expiresAt) /\ n = MaxAttempts =>
              /\ total >= 1 /\ total < 2 * MaxAttempts
              /\ record.expiresAt = guesses[total] + Lockout

IsRecord(record) == record.failures \in 0..MaxAttempts /\ record.expiresAt \in Nat

AreGuesses(guesses) ==
    /\ guesses \in Seq(Nat) /\ InOrder(guesses)
    /\ \A i \in 1..Len(guesses) : guesses[i] <= now

LimiterInv ==
    /\ now \in Nat \ {0}
    /\ records = [a \in Addresses |-> records[a]]
    /\ wrong = [a \in Addresses |-> wrong[a]]
    /\ \A a \in Addresses :
          /\ IsRecord(records[a]) /\ AreGuesses(wrong[a])
          /\ Rationed(wrong[a], records[a])

\* An address without a record has used up less than a window.
LEMMA NothingGuessed ==
    ASSUME AccessAssumption, now \in Nat \ {0}
    PROVE  /\ IsRecord(NoRecord) /\ AreGuesses(<<>>)
           /\ Rationed(<<>>, NoRecord)
<1>1. NoRecord.failures = 0 /\ NoRecord.expiresAt = 0 /\ Over(0)
  BY DEF NoRecord, Over
<1>2. <<>> \in Seq(Nat) /\ Len(<<>>) = 0
  BY EmptySeq
<1> QED
  BY <1>1, <1>2 DEF AccessAssumption, IsRecord, AreGuesses, InOrder, Rationed

LEMMA SweptIsRationed ==
    ASSUME AccessAssumption, LimiterInv, NEW a \in Addresses
    PROVE  /\ IsRecord(Swept[a]) /\ Rationed(wrong[a], Swept[a])
           /\ \/ Swept[a] = NoRecord
              \/ Swept[a] = records[a] /\ ~Over(records[a].expiresAt)
<1>1. CASE Over(records[a].expiresAt)
  <2>1. Swept[a] = NoRecord
    BY <1>1 DEF Swept
  <2>2. NoRecord.failures = 0 /\ NoRecord.expiresAt = 0 /\ Over(0)
    BY DEF NoRecord, Over, LimiterInv
  <2>3. Len(wrong[a]) < MaxAttempts
    BY <1>1 DEF LimiterInv, Rationed
  <2>4. Rationed(wrong[a], NoRecord)
    BY <2>2, <2>3 DEF Rationed
  <2> QED
    <3>1. now \in Nat \ {0}
      BY DEF LimiterInv
    <3> QED
      BY <2>1, <2>4, <3>1, NothingGuessed
<1>2. CASE ~Over(records[a].expiresAt)
  BY <1>2 DEF Swept, LimiterInv
<1> QED
  BY <1>1, <1>2

\* One more failure: the first of a window, one in it, or the one that trips it.
LEMMA CountedIsRationed ==
    ASSUME AccessAssumption, now \in Nat \ {0}, NEW guesses, AreGuesses(guesses),
           NEW record, IsRecord(record), Rationed(guesses, record),
           \/ record = NoRecord
           \/ ~Over(record.expiresAt) /\ record.failures < MaxAttempts
    PROVE  /\ IsRecord(Counted(record)) /\ AreGuesses(Append(guesses, now))
           /\ Rationed(Append(guesses, now), Counted(record))
<1>1. PICK n, total, more : /\ n = record.failures + 1 /\ total = Len(guesses)
                            /\ more = Append(guesses, now)
  OBVIOUS
<1>2. /\ total \in Nat /\ n \in Nat /\ MaxAttempts \in Nat \ {0} /\ Lockout \in Nat \ {0}
      /\ \A i \in 1..total : guesses[i] \in Nat /\ guesses[i] <= now
      /\ \A i, j \in 1..total : i <= j => guesses[i] <= guesses[j]
  BY <1>1, ElementOfSeq, LenProperties DEF AccessAssumption, AreGuesses, IsRecord, InOrder
<1>3. /\ more \in Seq(Nat) /\ Len(more) = total + 1 /\ more[total + 1] = now
      /\ \A i \in 1..total : more[i] = guesses[i]
  BY <1>1, AppendProperties DEF AreGuesses
<1>4. AreGuesses(more)
  <2>1. \A i \in 1..(total + 1) : \/ i \in 1..total /\ more[i] = guesses[i]
                                  \/ i = total + 1 /\ more[i] = now
    <3>1. total \in Nat
      BY <1>2
    <3>2. \A i \in 1..(total + 1) : i \in 1..total \/ i = total + 1
      BY <3>1
    <3> QED
      BY <1>3, <3>2
  <2>2. \A i \in 1..(total + 1) : more[i] <= now
    BY <1>2, <2>1
  <2>3. \A i, j \in 1..(total + 1) : i <= j => more[i] <= more[j]
    BY <1>2, <2>1, <2>2
  <2> QED
    BY <1>3, <2>2, <2>3 DEF AreGuesses, InOrder
<1>5. PICK next : next = Counted(record)
  OBVIOUS
<1>6. /\ next.failures = n
      /\ next.expiresAt = IF n \in {1, MaxAttempts} THEN now + Lockout
                                                    ELSE record.expiresAt
  BY <1>1, <1>5 DEF Counted
<1>7. n \in 1..MaxAttempts
  <2>1. CASE record = NoRecord
    BY <1>1, <1>2, <2>1 DEF NoRecord
  <2>2. CASE record.failures < MaxAttempts
    BY <1>1, <1>2, <2>2 DEF IsRecord
  <2> QED
    BY <2>1, <2>2
<1>8. IsRecord(next)
  BY <1>2, <1>6, <1>7 DEF IsRecord
<1>9. Rationed(more, next)
  <2> SUFFICES /\ Over(next.expiresAt) => total + 1 < MaxAttempts
               /\ ~Over(next.expiresAt) /\ n < MaxAttempts =>
                     /\ n >= 1 /\ n <= total + 1 /\ total + 1 - n < MaxAttempts
                     /\ next.expiresAt = more[total + 1 - n + 1] + Lockout
               /\ ~Over(next.expiresAt) /\ n = MaxAttempts =>
                     /\ total + 1 >= 1 /\ total + 1 < 2 * MaxAttempts
                     /\ next.expiresAt = more[total + 1] + Lockout
    <3>1. Len(more) = total + 1 /\ next.failures = n
      BY <1>3, <1>6
    <3> QED
      BY <1>2, <3>1 DEF Rationed
  <2>1. CASE record = NoRecord
    <3>1. n = 1 /\ total < MaxAttempts
      BY <1>1, <2>1 DEF NoRecord, Over, Rationed
    <3>2. next.expiresAt = now + Lockout /\ ~Over(next.expiresAt)
      BY <1>2, <1>6, <3>1 DEF Over
    <3> QED
      BY <1>2, <1>3, <3>1, <3>2
  <2>2. CASE record # NoRecord
    <3>1. /\ ~Over(record.expiresAt) /\ record.failures < MaxAttempts
          /\ record.failures >= 1 /\ record.failures <= total
          /\ total - record.failures < MaxAttempts
          /\ record.expiresAt = guesses[total - record.failures + 1] + Lockout
      BY <1>1, <2>2 DEF Rationed
    <3>2. record.failures \in Nat
      BY <1>2 DEF IsRecord
    <3>3. /\ n > 1 /\ n <= total + 1 /\ total + 1 - n < MaxAttempts
          /\ total + 1 - n + 1 = total - record.failures + 1
          /\ total - record.failures + 1 \in 1..total
      <4>1. total \in Nat /\ MaxAttempts \in Nat /\ n = record.failures + 1
        BY <1>1, <1>2
      <4>2. record.failures >= 1 /\ record.failures <= total /\ total - record.failures < MaxAttempts
        BY <3>1
      <4> QED
        BY <3>2, <4>1, <4>2
    <3>4. CASE n < MaxAttempts
      <4>1. next.expiresAt = record.expiresAt /\ ~Over(next.expiresAt)
        BY <1>2, <1>6, <3>1, <3>3, <3>4
      <4>2. next.expiresAt = more[total + 1 - n + 1] + Lockout
        BY <1>3, <3>1, <3>3, <4>1
      <4> QED
        BY <1>2, <3>3, <3>4, <4>1, <4>2
    <3>5. CASE n = MaxAttempts
      <4>1. next.expiresAt = now + Lockout /\ ~Over(next.expiresAt)
        BY <1>2, <1>6, <3>5 DEF Over
      <4> QED
        BY <1>2, <1>3, <3>3, <3>5, <4>1
    <3> QED
      BY <1>2, <1>7, <3>4, <3>5
  <2> QED
    BY <2>1, <2>2
<1> QED
  BY <1>1, <1>4, <1>5, <1>8, <1>9

\* A moment later some guesses are out of the window, and it may be over.
LEMMA RecentIsRationed ==
    ASSUME AccessAssumption, now \in Nat \ {0}, now' = now + 1,
           NEW guesses, AreGuesses(guesses),
           NEW record, IsRecord(record), Rationed(guesses, record),
           NEW kept, kept = Recent(guesses, now')
    PROVE  AreGuesses(kept)' /\ Rationed(kept, record)'
<1>1. PICK n, total, over, t :
          /\ n = record.failures /\ total = Len(guesses)
          /\ over = record.expiresAt /\ t = now'
  OBVIOUS
<1>2. /\ total \in Nat /\ n \in 0..MaxAttempts /\ MaxAttempts \in Nat \ {0}
      /\ over \in Nat /\ t \in Nat /\ Lockout \in Nat \ {0} /\ t = now + 1 /\ now \in Nat
  BY <1>1, LenProperties DEF AccessAssumption, AreGuesses, IsRecord
<1>3. /\ \A i \in 1..total : guesses[i] \in Nat /\ guesses[i] <= now
      /\ \A i, j \in 1..total : i <= j => guesses[i] <= guesses[j]
  BY <1>1, ElementOfSeq DEF AreGuesses, InOrder
<1>4. PICK m \in 0..total :
          /\ kept \in Seq(Nat) /\ Len(kept) = total - m
          /\ \A i \in 1..(total - m) : kept[i] = guesses[i + m] /\ guesses[i + m] + Lockout > t
          /\ \A i \in 1..m : guesses[i] + Lockout <= t
  <2>1. kept = Recent(guesses, t) /\ t \in Nat /\ guesses \in Seq(Nat) /\ InOrder(guesses)
    BY <1>1, <1>2 DEF AreGuesses
  <2>2. PICK m \in 0..Len(guesses) :
          /\ Recent(guesses, t) \in Seq(Nat)
          /\ Len(Recent(guesses, t)) = Len(guesses) - m
          /\ \A i \in 1..Len(Recent(guesses, t)) :
                /\ Recent(guesses, t)[i] = guesses[i + m]
                /\ guesses[i + m] + Lockout > t
          /\ \A i \in 1..m : guesses[i] + Lockout <= t
    BY <2>1, RecentIsTheEnd
  <2>3. /\ Len(kept) = total - m /\ kept \in Seq(Nat)
        /\ \A i \in 1..Len(kept) : kept[i] = guesses[i + m] /\ guesses[i + m] + Lockout > t
    BY <1>1, <2>1, <2>2
  <2>4. m \in 0..total /\ \A i \in 1..m : guesses[i] + Lockout <= t
    BY <1>1, <2>2
  <2> QED
    BY <2>3, <2>4
<1>5. \A i \in 1..(total - m) : i + m \in 1..total
  BY <1>2
<1>6. AreGuesses(kept)'
  <2>1. \A i \in 1..(total - m) : kept[i] <= t
    <3> SUFFICES ASSUME NEW i \in 1..(total - m)
                 PROVE  kept[i] <= t
      OBVIOUS
    <3>1. kept[i] = guesses[i + m] /\ i + m \in 1..total
      BY <1>4, <1>5
    <3>2. kept[i] \in Nat /\ kept[i] <= now
      BY <1>3, <3>1
    <3> QED
      BY <1>2, <3>2
  <2>2. \A i, j \in 1..(total - m) : i <= j => kept[i] <= kept[j]
    <3> SUFFICES ASSUME NEW i \in 1..(total - m), NEW j \in 1..(total - m), i <= j
                 PROVE  kept[i] <= kept[j]
      OBVIOUS
    <3>1. i + m <= j + m
      BY <1>2
    <3> QED
      BY <1>3, <1>4, <1>5, <3>1
  <2> QED
    BY <1>1, <1>4, <2>1, <2>2 DEF AreGuesses, InOrder
<1>7. \A i \in 1..total : guesses[i] + Lockout > t => i > m
  BY <1>2, <1>3, <1>4
<1>8. \A i \in 1..total : guesses[i] + Lockout <= t => i <= m
  <2> SUFFICES ASSUME NEW i \in 1..total, guesses[i] + Lockout <= t, i > m
               PROVE  FALSE
    BY <1>2
  <2>1. i - m \in 1..(total - m) /\ (i - m) + m = i
    BY <1>2
  <2>2. guesses[i] + Lockout > t
    BY <1>4, <2>1
  <2> QED
    BY <1>2, <1>3, <2>2
<1>9. /\ now >= over => total < MaxAttempts
      /\ now < over /\ n < MaxAttempts =>
            /\ n >= 1 /\ n <= total /\ total - n < MaxAttempts
            /\ over = guesses[total - n + 1] + Lockout
      /\ now < over /\ n = MaxAttempts =>
            /\ total >= 1 /\ total < 2 * MaxAttempts
            /\ over = guesses[total] + Lockout
  BY <1>1, <1>2 DEF Rationed, Over
<1>10. /\ t >= over => total - m < MaxAttempts
       /\ t < over /\ n < MaxAttempts =>
             /\ n >= 1 /\ n <= total - m /\ total - m - n < MaxAttempts
             /\ over = kept[total - m - n + 1] + Lockout
       /\ t < over /\ n = MaxAttempts =>
             /\ total - m >= 1 /\ total - m < 2 * MaxAttempts
             /\ over = kept[total - m] + Lockout
  <2>1. CASE now >= over
    BY <1>2, <1>9, <2>1
  <2>2. CASE now < over /\ n < MaxAttempts
    <3>1. total - n + 1 \in 1..total
      BY <1>2, <1>9, <2>2
    <3>2. CASE t >= over
      <4>1. total - n + 1 <= m
        BY <1>8, <1>9, <2>2, <3>1, <3>2
      <4> QED
        BY <1>2, <2>2, <3>2, <4>1
    <3>3. CASE t < over
      <4>1. total - n + 1 > m
        BY <1>7, <1>9, <2>2, <3>1, <3>3
      <4>2. total - m - n + 1 \in 1..(total - m) /\ (total - m - n + 1) + m = total - n + 1
        BY <1>2, <1>9, <2>2, <4>1
      <4>3. kept[total - m - n + 1] = guesses[total - n + 1]
        BY <1>4, <4>2
      <4> QED
        BY <1>2, <1>9, <2>2, <3>3, <4>1, <4>3
    <3> QED
      BY <1>2, <3>2, <3>3
  <2>3. CASE now < over /\ n = MaxAttempts
    <3>1. total \in 1..total
      BY <1>2, <1>9, <2>3
    <3>2. CASE t >= over
      BY <1>2, <1>8, <1>9, <2>3, <3>1, <3>2
    <3>3. CASE t < over
      <4>1. total > m
        BY <1>7, <1>9, <2>3, <3>1, <3>3
      <4>2. total - m \in 1..(total - m) /\ (total - m) + m = total
        BY <1>2, <4>1
      <4>3. kept[total - m] = guesses[total]
        BY <1>4, <4>2
      <4> QED
        BY <1>2, <1>9, <2>3, <3>3, <4>1, <4>3
    <3> QED
      BY <1>2, <3>2, <3>3
  <2> QED
    BY <1>2, <2>1, <2>2, <2>3
<1>11. Rationed(kept, record)'
  <2>1. Len(kept) = total - m /\ record.failures = n /\ record.expiresAt = over
    BY <1>1, <1>4
  <2>2. t >= over <=> Over(record.expiresAt)'
    BY <1>1 DEF Over
  <2>3. ~(t >= over) <=> t < over
    BY <1>2
  <2> QED
    BY <1>10, <2>1, <2>2, <2>3 DEF Rationed
<1> QED
  BY <1>1, <1>6, <1>11

\* Every step of the limiter, the sessions and the clock keeps the ration.
LEMMA LimiterStep ==
    ASSUME AccessAssumption, LimiterInv, [AccessNext]_accessVars
    PROVE  LimiterInv'
<1> USE DEF LimiterInv
<1>1. ASSUME NEW a \in Addresses, WrongPassword(a)
      PROVE  LimiterInv'
  <2>1. /\ ~Locked(a) /\ now' = now
        /\ records' = [Swept EXCEPT ![a] = Counted(@)]
        /\ wrong' = [wrong EXCEPT ![a] = Append(@, now)]
    BY <1>1 DEF WrongPassword
  <2>2. \A b \in Addresses : /\ IsRecord(Swept[b]) /\ Rationed(wrong[b], Swept[b])
                             /\ \/ Swept[b] = NoRecord
                                \/ Swept[b] = records[b] /\ ~Over(records[b].expiresAt)
    BY SweptIsRationed
  <2>3. DOMAIN Swept = Addresses
    BY DEF Swept
  <2>4. /\ records'[a] = Counted(Swept[a]) /\ wrong'[a] = Append(wrong[a], now)
        /\ \A b \in Addresses \ {a} : records'[b] = Swept[b] /\ wrong'[b] = wrong[b]
        /\ DOMAIN records' = Addresses /\ DOMAIN wrong' = Addresses
        /\ records' = [b \in Addresses |-> records'[b]]
        /\ wrong' = [b \in Addresses |-> wrong'[b]]
    BY <2>1, <2>3
  <2>5. \/ Swept[a] = NoRecord
        \/ ~Over(Swept[a].expiresAt) /\ Swept[a].failures < MaxAttempts
    <3>1. CASE Swept[a] = records[a] /\ ~Over(records[a].expiresAt)
      <4>1. ~(records[a].failures >= MaxAttempts)
        BY <2>1, <3>1 DEF Locked
      <4> QED
        BY <3>1, <4>1 DEF IsRecord, AccessAssumption
    <3> QED
      BY <2>2, <3>1
  <2>6. /\ IsRecord(Counted(Swept[a])) /\ AreGuesses(Append(wrong[a], now))
        /\ Rationed(Append(wrong[a], now), Counted(Swept[a]))
    BY <2>2, <2>5, CountedIsRationed
  <2>7. ASSUME NEW b \in Addresses
        PROVE  /\ IsRecord(records'[b]) /\ AreGuesses(wrong'[b])
               /\ Rationed(wrong'[b], records'[b])
    <3>1. CASE b = a
      BY <2>4, <2>6, <3>1
    <3>2. CASE b # a
      BY <2>2, <2>4, <3>2
    <3> QED
      BY <3>1, <3>2
  <2> QED
    BY <2>1, <2>4, <2>7 DEF IsRecord, AreGuesses, Rationed, Over
<1>2. ASSUME NEW a \in Addresses, LoginAsked(a)
      PROVE  LimiterInv'
  <2>1. /\ Over(records[a].expiresAt) /\ now' = now /\ wrong' = wrong
        /\ records' = [records EXCEPT ![a] = NoRecord]
    BY <1>2 DEF LoginAsked
  <2>2. IsRecord(NoRecord) /\ Rationed(wrong[a], NoRecord)
    <3>1. NoRecord.expiresAt = 0 /\ Over(0)
      BY DEF NoRecord, Over
    <3>2. Len(wrong[a]) < MaxAttempts
      BY <2>1 DEF Rationed
    <3> QED
      BY <3>1, <3>2, NothingGuessed DEF Rationed
  <2> QED
    BY <2>1, <2>2 DEF IsRecord, AreGuesses, Rationed, Over
<1>3. ASSUME NEW a \in Addresses, RightPassword(a)
      PROVE  LimiterInv'
  <2>1. /\ now' = now /\ wrong' = [wrong EXCEPT ![a] = <<>>]
        /\ records' = [records EXCEPT ![a] = NoRecord]
    BY <1>3 DEF RightPassword
  <2>2. IsRecord(NoRecord) /\ AreGuesses(<<>>) /\ Rationed(<<>>, NoRecord)
    BY NothingGuessed
  <2> QED
    BY <2>1, <2>2 DEF IsRecord, AreGuesses, Rationed, Over
<1>4. CASE Tick
  <2>1. /\ now' = now + 1 /\ records' = records
        /\ wrong' = [a \in Addresses |-> Recent(wrong[a], now')]
    BY <1>4 DEF Tick
  <2>2. ASSUME NEW a \in Addresses
        PROVE  AreGuesses(wrong[a])' /\ Rationed(wrong[a], records[a])'
    <3>1. PICK guesses, record, kept : /\ guesses = wrong[a] /\ record = records[a]
                                       /\ kept = Recent(guesses, now')
      OBVIOUS
    <3>2. AreGuesses(kept)' /\ Rationed(kept, record)'
      BY <2>1, <3>1, RecentIsRationed
    <3> QED
      BY <2>1, <3>1, <3>2
  <2> QED
    BY <2>1, <2>2 DEF IsRecord
<1>5. CASE Restarts
  <2>1. /\ now' = now /\ wrong' = [a \in Addresses |-> <<>>]
        /\ records' = [a \in Addresses |-> NoRecord]
    BY <1>5 DEF Restarts
  <2>2. IsRecord(NoRecord) /\ AreGuesses(<<>>) /\ Rationed(<<>>, NoRecord)
    BY NothingGuessed
  <2> QED
    BY <2>1, <2>2 DEF IsRecord, AreGuesses, Rationed, Over
<1>6. ASSUME now' = now /\ records' = records /\ wrong' = wrong
      PROVE  LimiterInv'
  BY <1>6 DEF IsRecord, AreGuesses, Rationed, Over
<1>7. ASSUME NEW t \in Tokens, Evicts(t) \/ LogsOut(t)
      PROVE  LimiterInv'
  BY <1>6, <1>7 DEF Evicts, LogsOut
<1>8. CASE UNCHANGED accessVars
  BY <1>6, <1>8 DEF accessVars
<1> QED
  BY <1>1, <1>2, <1>3, <1>4, <1>5, <1>7, <1>8 DEF AccessNext

-----------------------------------------------------------------------------
(* The sessions.                                                           *)

\* A cookie that was not taken back expires a day after it was minted; one whose
\* day is over may have been swept.
SessionInv ==
    /\ now \in Nat \ {0}
    /\ cookies = [t \in Tokens |-> cookies[t]]
    /\ issued = [t \in Tokens |-> issued[t]]
    /\ \A t \in Tokens :
          /\ issued[t] \in Nat
          /\ issued[t] = 0 => cookies[t] = NoSession
          /\ issued[t] # 0 => \/ cookies[t] = issued[t] + Ttl
                              \/ cookies[t] = NoSession /\ issued[t] + Ttl <= now

LEMMA SessionStep ==
    ASSUME AccessAssumption, SessionInv, [AccessNext]_accessVars
    PROVE  SessionInv'
<1>0. Ttl \in Nat \ {0} /\ Tokens \subseteq Nat
  BY DEF AccessAssumption
<1> USE DEF SessionInv, NoSession
<1>1. ASSUME NEW a \in Addresses, RightPassword(a)
      PROVE  SessionInv'
  <2>1. /\ now' = now /\ minted' \in Tokens
        /\ cookies' = [t \in Tokens |-> IF t = minted' THEN now + Ttl
                                         ELSE IF Over(cookies[t]) THEN NoSession
                                         ELSE cookies[t]]
        /\ issued' = [issued EXCEPT ![minted'] = now]
    BY <1>1 DEF RightPassword
  <2> QED
    BY <1>0, <2>1 DEF Over
<1>2. ASSUME NEW t \in Tokens, Evicts(t)
      PROVE  SessionInv'
  BY <1>0, <1>2 DEF Evicts, IsLive, Over
<1>3. ASSUME NEW t \in Tokens, LogsOut(t)
      PROVE  SessionInv'
  BY <1>0, <1>3 DEF LogsOut
<1>4. CASE Tick
  BY <1>0, <1>4 DEF Tick
<1>5. CASE Restarts
  BY <1>5 DEF Restarts
<1>6. ASSUME NEW a \in Addresses, WrongPassword(a) \/ LoginAsked(a)
      PROVE  SessionInv'
  BY <1>6 DEF WrongPassword, LoginAsked
<1>7. CASE UNCHANGED accessVars
  BY <1>7 DEF accessVars
<1> QED
  BY <1>1, <1>2, <1>3, <1>4, <1>5, <1>6, <1>7 DEF AccessNext

LEMMA AccessStarts ==
    ASSUME AccessAssumption, AccessInit
    PROVE  LimiterInv /\ SessionInv
<1>1. now \in Nat \ {0}
  BY DEF AccessInit
<1>2. IsRecord(NoRecord) /\ AreGuesses(<<>>) /\ Rationed(<<>>, NoRecord)
  BY <1>1, NothingGuessed
<1> QED
  BY <1>1, <1>2 DEF AccessInit, LimiterInv, SessionInv

LEMMA AccessInvSuffices ==
    ASSUME AccessAssumption, LimiterInv, SessionInv
    PROVE  AccessIsKept
<1>1. GuessesAreRationed
  <2> SUFFICES ASSUME NEW a \in Addresses
               PROVE  /\ Len(wrong[a]) < 2 * MaxAttempts
                      /\ Locked(a) => records[a].expiresAt = wrong[a][Len(wrong[a])] + Lockout
    BY DEF GuessesAreRationed
  <2>1. PICK n, total : n = records[a].failures /\ total = Len(wrong[a])
    OBVIOUS
  <2>2. n \in 0..MaxAttempts /\ MaxAttempts \in Nat \ {0} /\ total \in Nat
    BY <2>1, LenProperties DEF LimiterInv, IsRecord, AreGuesses, AccessAssumption
  <2>3. Rationed(wrong[a], records[a])
    BY DEF LimiterInv
  <2>4. CASE Over(records[a].expiresAt)
    BY <2>1, <2>2, <2>3, <2>4 DEF Rationed, Locked
  <2>5. CASE ~Over(records[a].expiresAt) /\ n < MaxAttempts
    BY <2>1, <2>2, <2>3, <2>5 DEF Rationed, Locked
  <2>6. CASE ~Over(records[a].expiresAt) /\ n = MaxAttempts
    BY <2>1, <2>2, <2>3, <2>6 DEF Rationed, Locked
  <2> QED
    BY <2>2, <2>4, <2>5, <2>6
<1>2. SessionsLastTheirDay
  BY DEF AccessAssumption, SessionInv, SessionsLastTheirDay, IsLive, Over, NoSession
<1> QED
  BY <1>1, <1>2 DEF AccessIsKept

\* However failures, lockouts, expired windows, sweeps, right passwords and
\* restarts interleave, and from however many addresses, no address gets twice
\* the attempts of a window into any Lockout, and a session lasts its day
\* (loginLimiter.ts, auth.ts).
THEOREM AccessStaysKept ==
    ASSUME AccessAssumption
    PROVE  AccessSpec => []AccessIsKept
<1>1. AccessInit => LimiterInv /\ SessionInv
  BY AccessStarts
<1>2. LimiterInv /\ SessionInv /\ [AccessNext]_accessVars => LimiterInv' /\ SessionInv'
  BY LimiterStep, SessionStep
<1>3. LimiterInv /\ SessionInv => AccessIsKept
  BY AccessInvSuffices
<1> QED
  BY <1>1, <1>2, <1>3, PTL DEF AccessSpec

-----------------------------------------------------------------------------
(* The Drops page: the subscriptions panel and its calls (DropsPage).      *)

Row     == [id : Subs, place : {"none", "active", "waiting"}, pool : Nat]
PanelOf == [rows : Seq(Row), queueOn : BOOLEAN, followed : BOOLEAN, skipped : SUBSET Subs]
OneSub  == {"subscribe", "remove", "pool-size", "unskip"}
CallKinds   == OneSub \cup {"reorder", "queue", "resolve", "follow", "unfollow", "mount"}
ConfigOf == [order : Seq(Subs), queueOn : BOOLEAN, pool : [Subs -> Nat],
             followed : BOOLEAN, skipped : SUBSET Subs]
LeftOf  == [calls : Nat, elsewhere : Nat, lost : Nat]
CallSet ==
    [n : Int, kind : CallKinds, ids : Seq(Subs), num : Nat, stage : {"post", "subs", "status"},
     at : {"out", "back", "failed"}, list : PanelOf, pending : BOOLEAN, before : PanelOf,
     sure : BOOLEAN, grew : Int, alone : BOOLEAN]

PanelTypeOK ==
    /\ config \in ConfigOf
    /\ restartDue \in BOOLEAN
    /\ panel \in PanelOf
    /\ waiting \in BOOLEAN
    /\ typed \in [Subs -> Nat]
    /\ \A c \in calls : c \in CallSet /\ (c.kind \in OneSub => c.ids # <<>>)
    /\ panelLeft \in LeftOf
    /\ behind \subseteq Both /\ unsaved \subseteq Subs /\ miscounted \in BOOLEAN

BusyInv == busy # Nobody => \E c \in calls : c.kind \notin {"reorder", "mount"}

AloneInv ==
    \A c, d \in calls :
        /\ c.kind = "mount" => c.stage # "post"
        /\ c.kind = "mount" /\ d.kind = "mount" /\ c.stage = d.stage => c = d
        /\ c.alone => d = c \/ (c.kind = "mount" /\ d.kind = "mount")

OnePool(p) ==
    \A i, j \in DOMAIN p.rows : p.rows[i].id = p.rows[j].id => p.rows[i].pool = p.rows[j].pool
BoxesTrue ==
    \A i \in DOMAIN panel.rows :
        panel.rows[i].id \in unsaved \/ typed[panel.rows[i].id] = panel.rows[i].pool
BoxesInv ==
    /\ OnePool(panel) /\ BoxesTrue
    /\ \A c \in calls : OnePool(c.list) /\ OnePool(c.before)

\* A drag has moved the rows of the list; undone they are the list.
DragDrawn(c) ==
    /\ c.before = Listing
    /\ panel = [Listing EXCEPT !.rows = panel.rows]
    /\ c.ids = [i \in DOMAIN panel.rows |-> panel.rows[i].id]
    /\ \A i \in DOMAIN panel.rows : \E j \in DOMAIN Listing.rows : panel.rows[i] = Listing.rows[j]

RowsKnown(c) ==
    /\ c.stage = "status" => panel = Listing
    /\ c.stage = "post" /\ c.at # "back" =>
          IF c.kind = "reorder" THEN DragDrawn(c) ELSE panel = Listing
    /\ c.stage = "post" /\ c.at = "back" /\ c.kind = "reorder" /\ ~c.before.queueOn
          => panel = Listing
    /\ c.stage = "subs" => c.at # "failed" /\ c.kind # "mount"

ListedInv ==
    "rows" \notin behind =>
        /\ calls = {} => panel = Listing
        /\ \A c \in calls : RowsKnown(c) /\ calls = {c}

ListTrue(c) ==
    (c.alone \/ "rows" \notin behind) /\ c.stage = "subs" /\ c.at = "back" => c.list = Listing

RestartKnown(c) ==
    /\ c.stage = "status" => c.kind # "mount" /\ c.at # "failed"
    /\ c.kind = "mount" \/ (c.stage = "post" /\ c.at # "back") => waiting = restartDue

RestartInv ==
    "restart" \notin behind =>
        /\ calls = {} => waiting = restartDue
        /\ \A c \in calls : RestartKnown(c) /\ calls = {c}

StatusTrue(c) ==
    (c.alone \/ "restart" \notin behind) /\ c.stage = "status" /\ c.at = "back"
        => c.pending = restartDue

Added(c) == ToSet(config.order) \ IdsOf(c.before.rows)
FollowTrue(c) ==
    c.kind = "follow" /\ c.alone /\ c.sure =>
        /\ c.stage = "post" /\ c.at = "out" => ToSet(config.order) = IdsOf(c.before.rows)
        /\ (c.stage = "post" /\ c.at = "back") \/ (c.stage = "subs" /\ c.at # "failed")
              => Cardinality(Added(c)) = c.grew
        /\ c.stage = "subs" /\ c.at = "failed" => "rows" \in behind
        /\ c.stage = "status" => "rows" \in behind \/ Appeared(c) = c.grew

CallsInv == \A c \in calls : ListTrue(c) /\ StatusTrue(c) /\ FollowTrue(c)

PanelIInv ==
    /\ PanelTypeOK
    /\ BusyInv
    /\ AloneInv
    /\ BoxesInv
    /\ ListedInv
    /\ RestartInv
    /\ CallsInv
    /\ ~miscounted

LEMMA RowPlaces ==
    ASSUME NEW T, NEW s \in Seq(T)
    PROVE  /\ Len(s) \in Nat /\ DOMAIN s = 1..Len(s)
           /\ \A i \in DOMAIN s : s[i] \in T
BY LenProperties, ElementOfSeq

\* Whatever is made of each place of a list is a list again.
LEMMA RowByRow ==
    ASSUME NEW S, NEW T, NEW s \in Seq(S), NEW t, t = [i \in DOMAIN s |-> t[i]],
           \A i \in DOMAIN s : t[i] \in T
    PROVE  t \in Seq(T) /\ DOMAIN t = DOMAIN s
<1>1. Len(s) \in Nat /\ DOMAIN s = 1..Len(s)
  BY RowPlaces
<1>2. t \in [1..Len(s) -> T]
  BY <1>1
<1> QED
  BY <1>1, <1>2, SeqDef

\* A part of a list is a list of the same things.
LEMMA PartOfList ==
    ASSUME NEW T, NEW s \in Seq(T), NEW m \in Int, NEW n \in Int, m >= 1, n <= Len(s)
    PROVE  SubSeq(s, m, n) \in Seq(T)
<1>1. \A i \in m..n : s[i] \in T
  BY RowPlaces
<1> QED
  BY <1>1, SubSeqProperties

\* What joins at the end: the names are those of both.
LEMMA JoinedNames ==
    ASSUME NEW T, NEW s \in Seq(T), NEW t \in Seq(T)
    PROVE  /\ s \o t \in Seq(T) /\ Len(s \o t) = Len(s) + Len(t)
           /\ ToSet(s \o t) = ToSet(s) \cup ToSet(t)
<1>1. Range(s \o t) = Range(s) \cup Range(t)
  BY RangeConcatenation
<1>2. s \o t \in Seq(T) /\ Len(s \o t) = Len(s) + Len(t)
  BY ConcatProperties
<1> QED
  BY <1>1, <1>2 DEF Range, ToSet

LEMMA RemoveAtType ==
    ASSUME NEW T, NEW s \in Seq(T), NEW i \in DOMAIN s
    PROVE  RemoveAt(s, i) \in Seq(T) /\ Len(RemoveAt(s, i)) = Len(s) - 1
<1>1. Len(s) \in Nat /\ i \in 1..Len(s) /\ \A k \in 1..Len(s) : s[k] \in T
  BY RowPlaces
<1>2. PICK a, b : a = SubSeq(s, 1, i - 1) /\ b = SubSeq(s, i + 1, Len(s))
  OBVIOUS
<1>3. a \in Seq(T) /\ b \in Seq(T)
  BY <1>1, <1>2, PartOfList
<1>4. Len(a) = i - 1
  <2>1. \A k \in 1..(i - 1) : s[k] \in T
    BY <1>1
  <2>2. Len(SubSeq(s, 1, i - 1)) = IF 1 <= i - 1 THEN (i - 1) - 1 + 1 ELSE 0
    BY <1>1, <2>1, SubSeqProperties
  <2> QED
    BY <1>1, <1>2, <2>2
<1>5. Len(b) = Len(s) - i
  <2>1. \A k \in (i + 1)..Len(s) : s[k] \in T
    BY <1>1
  <2>2. Len(SubSeq(s, i + 1, Len(s))) = IF i + 1 <= Len(s) THEN Len(s) - (i + 1) + 1 ELSE 0
    BY <1>1, <2>1, SubSeqProperties
  <2> QED
    BY <1>1, <1>2, <2>2
<1>6. a \o b \in Seq(T) /\ Len(a \o b) = Len(a) + Len(b)
  BY <1>3, JoinedNames
<1>7. RemoveAt(s, i) = a \o b
  BY <1>2 DEF RemoveAt
<1>8. i \in Int /\ Len(a) + Len(b) = Len(s) - 1
  BY <1>1, <1>4, <1>5
<1> QED
  BY <1>6, <1>7, <1>8

\* A row that is moved: the rows are those that were there.
LEMMA MovedType ==
    ASSUME NEW T, NEW s \in Seq(T), NEW from \in DOMAIN s, NEW to \in DOMAIN s
    PROVE  InsertAt(RemoveAt(s, from), to, s[from]) \in Seq(T)
<1>1. PICK r : r = RemoveAt(s, from)
  OBVIOUS
<1>2. /\ r \in Seq(T) /\ Len(r) = Len(s) - 1 /\ Len(s) \in Nat
      /\ to \in 1..Len(s) /\ s[from] \in T
  BY <1>1, RemoveAtType, RowPlaces
<1>3. SubSeq(r, 1, to - 1) \in Seq(T) /\ SubSeq(r, to, Len(r)) \in Seq(T)
  BY <1>2, PartOfList
<1>4. <<s[from]>> \in Seq(T)
  BY <1>2
<1>5. SubSeq(r, 1, to - 1) \o <<s[from]>> \in Seq(T)
  BY <1>3, <1>4, ConcatProperties
<1> QED
  BY <1>1, <1>3, <1>5, ConcatProperties DEF InsertAt

LEMMA MovedRows ==
    ASSUME NEW T, NEW s \in Seq(T), NEW from \in DOMAIN s, NEW to \in DOMAIN s,
           NEW t, t = InsertAt(RemoveAt(s, from), to, s[from])
    PROVE  /\ t \in Seq(T)
           /\ \A i \in DOMAIN t : \E j \in DOMAIN s : t[i] = s[j]
<1>1. t \in Seq(T)
  BY MovedType
<1>2. s \in Seq(ToSet(s))
  <2>1. s \in Seq(Range(s))
    BY SeqOfRange
  <2> QED
    BY <2>1 DEF Range, ToSet
<1>3. t \in Seq(ToSet(s))
  BY <1>2, MovedType
<1>4. \A i \in DOMAIN t : t[i] \in ToSet(s)
  BY <1>3, RowPlaces
<1> QED
  BY <1>1, <1>4 DEF ToSet

\* A finite set as a list: each once, and no other.
LEMMA JoiningList ==
    ASSUME NEW T, NEW S \in SUBSET T, IsFiniteSet(S)
    PROVE  /\ SetToSeq(S) \in Seq(T) /\ ToSet(SetToSeq(S)) = S
           /\ Len(SetToSeq(S)) = Cardinality(S)
<1>1. PICK n \in Nat : n = Cardinality(S)
  BY FS_CardinalityType
<1>2. PICK g : g \in Bijection(1..n, S)
  BY <1>1, FS_CardinalityType DEF ExistsBijection
<1>3. g \in [1..n -> S] /\ IsInjective(g)
  BY <1>2 DEF Bijection, Injection
<1>4. PICK f : f = SetToSeq(S)
  OBVIOUS
<1>5. f \in [1..n -> S] /\ IsInjective(f)
  BY <1>1, <1>3, <1>4 DEF SetToSeq
<1>6. f \in Injection(1..n, S)
  BY <1>5 DEF Injection
<1>7. IsFiniteSet(1..n) /\ Cardinality(1..n) = n
  BY FS_Interval
<1>8. f \in Surjection(1..n, S)
  BY <1>1, <1>6, <1>7, FS_Injection
<1>9. f \in Seq(S) /\ DOMAIN f = 1..n
  BY <1>5, SeqDef
<1>10. ToSet(f) = S
  BY <1>5, <1>8, <1>9 DEF ToSet, Surjection
<1>11. Len(f) = n /\ f \in Seq(T)
  BY <1>5, <1>9, SeqMonotonic, LenProperties
<1> QED
  BY <1>1, <1>4, <1>10, <1>11



-----------------------------------------------------------------------------
LEMMA IdsAre ==
    ASSUME NEW list
    PROVE  IdsOf(list) = {list[i].id : i \in DOMAIN list}
BY DEF IdsOf, ToSet

LEMMA ListingIs ==
    ASSUME PanelTypeOK
    PROVE  /\ Listing \in PanelOf /\ OnePool(Listing)
           /\ IdsOf(Listing.rows) = ToSet(config.order)
           /\ DOMAIN Listing.rows = DOMAIN config.order
           /\ \A i \in DOMAIN config.order :
                 Listing.rows[i] = [id |-> config.order[i], place |-> Place(i),
                                    pool |-> config.pool[config.order[i]]]
<1>1. config \in ConfigOf
  BY DEF PanelTypeOK
<1>2. PICK drawn : drawn = Listing.rows
  OBVIOUS
<1>3. drawn = [i \in DOMAIN config.order |->
                 [id |-> config.order[i], place |-> Place(i),
                  pool |-> config.pool[config.order[i]]]]
  BY <1>2 DEF Listing
<1>4. \A i \in DOMAIN config.order : config.order[i] \in Subs
  BY <1>1, RowPlaces DEF ConfigOf
<1>5. \A i \in DOMAIN config.order : drawn[i] \in Row
  BY <1>1, <1>3, <1>4 DEF ConfigOf, Row, Place
<1>6. drawn \in Seq(Row)
  <2>1. drawn = [i \in DOMAIN config.order |-> drawn[i]]
    BY <1>3
  <2> QED
    BY <1>1, <1>5, <2>1, RowByRow DEF ConfigOf
<1>7. Listing \in PanelOf
  BY <1>1, <1>2, <1>6 DEF Listing, PanelOf, ConfigOf
<1>8. OnePool(Listing)
  BY <1>2, <1>3 DEF OnePool
<1>9. IdsOf(drawn) = ToSet(config.order)
  BY <1>3, IdsAre DEF ToSet
<1> QED
  BY <1>2, <1>3, <1>7, <1>8, <1>9

\* What is drawn: a box whose number no list has shown is the only one that may
\* hold another number than its row.
LEMMA DrawsKeeps ==
    ASSUME PanelTypeOK, BoxesInv, NEW new \in PanelOf, OnePool(new), Draws(new)
    PROVE  /\ panel' = new /\ typed' \in [Subs -> Nat]
           /\ unsaved' \subseteq Subs
           /\ \A i \in DOMAIN new.rows :
                 new.rows[i].id \in unsaved' \/ typed'[new.rows[i].id] = new.rows[i].pool
<1>1. PICK old : old = panel
  OBVIOUS
<1>2. /\ old \in PanelOf /\ OnePool(old)
      /\ \A i \in DOMAIN old.rows : old.rows[i] \in Row
      /\ \A i \in DOMAIN new.rows : new.rows[i] \in Row
  BY <1>1, RowPlaces DEF PanelTypeOK, BoxesInv, PanelOf
<1>3. \A i \in DOMAIN new.rows : PoolsOf(new.rows, new.rows[i].id) = {new.rows[i].pool}
  BY DEF OnePool, PoolsOf
<1>4. \A s : PoolsOf(new.rows, s) \subseteq Nat
  BY <1>2 DEF PoolsOf, Row
<1>5. PICK redrawn : redrawn = {s \in Subs : PoolsOf(new.rows, s) # PoolsOf(old.rows, s)}
  OBVIOUS
<1>6. /\ panel' = new
      /\ typed' = [s \in Subs |->
                     IF s \in redrawn
                     THEN IF PoolsOf(new.rows, s) = {} THEN 0
                          ELSE CHOOSE n \in PoolsOf(new.rows, s) : TRUE
                     ELSE typed[s]]
      /\ unsaved' = unsaved \ redrawn
  BY <1>1, <1>5 DEF Draws
<1>7. typed' \in [Subs -> Nat]
  BY <1>4, <1>6 DEF PanelTypeOK
<1>8. ASSUME NEW i \in DOMAIN new.rows, new.rows[i].id \notin unsaved'
      PROVE  typed'[new.rows[i].id] = new.rows[i].pool
  <2>1. PICK s \in Subs : s = new.rows[i].id
    BY <1>2 DEF Row
  <2>2. PoolsOf(new.rows, s) = {new.rows[i].pool}
    BY <1>3, <2>1
  <2>3. CASE s \in redrawn
    BY <1>6, <2>1, <2>2, <2>3
  <2>4. CASE s \notin redrawn
    <3>1. s \notin unsaved /\ typed'[s] = typed[s]
      BY <1>6, <1>8, <2>1, <2>4
    <3>2. PoolsOf(old.rows, s) = {new.rows[i].pool}
      BY <1>5, <2>2, <2>4
    <3>3. PICK j \in DOMAIN old.rows : old.rows[j].id = s /\ old.rows[j].pool = new.rows[i].pool
      BY <3>2 DEF PoolsOf
    <3>4. typed[s] = old.rows[j].pool
      BY <1>1, <3>1, <3>3 DEF BoxesInv, BoxesTrue
    <3> QED
      BY <2>1, <3>1, <3>3, <3>4
  <2> QED
    BY <2>3, <2>4
<1> QED
  BY <1>6, <1>7, <1>8 DEF PanelTypeOK


-----------------------------------------------------------------------------
\* What a handler saves is a config; a follow's leaves the order alone, and a drag's
\* has the order that was sent.
LEMMA SavedIs ==
    ASSUME PanelTypeOK, NEW c \in calls, c.kind # "mount", NEW new \in Saved(c)
    PROVE  /\ new \in ConfigOf
           /\ c.kind = "follow" => new = [config EXCEPT !.followed = TRUE]
           /\ c.kind = "reorder" => new = [config EXCEPT !.order = c.ids]
<1>1. /\ config \in ConfigOf /\ c \in CallSet /\ (c.kind \in OneSub => c.ids # <<>>)
  BY DEF PanelTypeOK
<1>2. PICK s : s = c.ids[1]
  OBVIOUS
<1>3. c.kind \in OneSub => s \in Subs
  <2>1. c.ids \in Seq(Subs)
    BY <1>1 DEF CallSet
  <2>2. c.ids # <<>> => 1 \in DOMAIN c.ids
    BY <2>1
  <2> QED
    BY <1>1, <1>2, <2>1, <2>2, RowPlaces
<1>4. CASE c.kind = "subscribe"
  <2>1. new = [config EXCEPT !.order = Append(@, s), !.pool[s] = 1]
    BY <1>2, <1>4 DEF Saved, Subscribe, Where
  <2>2. s \in Subs
    BY <1>3, <1>4 DEF OneSub
  <2>3. Append(config.order, s) \in Seq(Subs)
    BY <1>1, <2>2 DEF ConfigOf
  <2> QED
    BY <1>1, <1>4, <2>1, <2>2, <2>3 DEF ConfigOf
<1>5. CASE c.kind = "remove"
  <2>1. /\ Listed(s)
        /\ new = [config EXCEPT !.order = Unlisted(s),
                               !.skipped = IF config.followed /\ s \in OfGame
                                           THEN @ \cup {s} ELSE @]
    BY <1>2, <1>5 DEF Saved, Unsubscribe, Where
  <2>2. Unlisted(s) \in Seq(Subs)
    <3>1. PICK i : i = CHOOSE k \in DOMAIN config.order : config.order[k] = s
      OBVIOUS
    <3>2. i \in DOMAIN config.order
      BY <2>1, <3>1 DEF Listed, ToSet
    <3>3. RemoveAt(config.order, i) \in Seq(Subs)
      BY <1>1, <3>2, RemoveAtType DEF ConfigOf
    <3> QED
      BY <3>1, <3>3 DEF Unlisted
  <2>3. s \in Subs
    BY <1>3, <1>5 DEF OneSub
  <2> QED
    BY <1>1, <1>5, <2>1, <2>2, <2>3 DEF ConfigOf
<1>6. CASE c.kind = "pool-size"
  <2>1. new = [config EXCEPT !.pool[s] = c.num]
    BY <1>2, <1>6 DEF Saved, SetPoolSize, Where
  <2>2. s \in Subs /\ c.num \in Nat
    BY <1>1, <1>3, <1>6 DEF OneSub, CallSet
  <2> QED
    BY <1>1, <1>6, <2>1, <2>2 DEF ConfigOf
<1>7. CASE c.kind = "reorder"
  <2>1. new = [config EXCEPT !.order = c.ids]
    BY <1>7 DEF Saved, Reorder, Where
  <2>2. c.ids \in Seq(Subs)
    BY <1>1 DEF CallSet
  <2> QED
    BY <1>1, <1>7, <2>1, <2>2 DEF ConfigOf
<1>8. CASE c.kind = "queue"
  <2>1. new = [config EXCEPT !.queueOn = (c.num = 1)]
    BY <1>8 DEF Saved
  <2> QED
    BY <1>1, <1>8, <2>1 DEF ConfigOf
<1>9. CASE c.kind = "resolve"
  BY <1>1, <1>9 DEF Saved
<1>10. CASE c.kind = "follow"
  BY <1>1, <1>10 DEF Saved, ConfigOf
<1>11. CASE c.kind = "unskip"
  <2>1. new = [config EXCEPT !.skipped = @ \ {s}]
    BY <1>2, <1>11 DEF Saved, Unskip, Where
  <2> QED
    BY <1>1, <1>11, <2>1 DEF ConfigOf
<1>12. CASE c.kind = "unfollow"
  <2>1. new = [config EXCEPT !.followed = FALSE, !.skipped = {}]
    BY <1>12 DEF Saved, Unfollow, Where
  <2> QED
    BY <1>1, <1>12, <2>1 DEF ConfigOf
<1>13. c.kind \in CallKinds
  BY <1>1 DEF CallSet
<1> QED
  BY <1>4, <1>5, <1>6, <1>7, <1>8, <1>9, <1>10, <1>11, <1>12, <1>13 DEF CallKinds, OneSub

\* The pass adds what the followed game has, each once and none that is listed.
LEMMA PassedIs ==
    ASSUME PanelAssumption, NEW new \in ConfigOf
    PROVE  \E added \in SUBSET Subs :
              /\ Passed(new) \in ConfigOf
              /\ Passed(new) = [new EXCEPT !.order = Passed(new).order]
              /\ IsFiniteSet(added) /\ added \cap ToSet(new.order) = {}
              /\ ToSet(Passed(new).order) = ToSet(new.order) \cup added
              /\ Len(Passed(new).order) = Len(new.order) + Cardinality(added)
<1>1. PICK added : added = IF new.followed THEN OfGame \ (ToSet(new.order) \cup new.skipped)
                           ELSE {}
  OBVIOUS
<1>2. added \in SUBSET Subs /\ IsFiniteSet(added)
  <2>1. IsFiniteSet({})
    BY FS_EmptySet
  <2>2. added \subseteq OfGame
    BY <1>1
  <2> QED
    BY <2>2, FS_Subset DEF PanelAssumption
<1>3. PICK joining : joining = SetToSeq(added)
  OBVIOUS
<1>4. /\ joining \in Seq(Subs) /\ ToSet(joining) = added /\ Len(joining) = Cardinality(added)
  BY <1>2, <1>3, JoiningList
<1>5. Passed(new) = [new EXCEPT !.order = new.order \o joining]
  BY <1>1, <1>3 DEF Passed, ConfigOf
<1>6. /\ new.order \o joining \in Seq(Subs)
      /\ Len(new.order \o joining) = Len(new.order) + Len(joining)
      /\ ToSet(new.order \o joining) = ToSet(new.order) \cup ToSet(joining)
  <2>1. PICK order \in Seq(Subs) : order = new.order
    BY DEF ConfigOf
  <2> QED
    BY <1>4, <2>1, JoinedNames
<1>7. Passed(new) \in ConfigOf /\ Passed(new).order = new.order \o joining
  BY <1>5, <1>6 DEF ConfigOf
<1>8. added \cap ToSet(new.order) = {}
  BY <1>1
<1> QED
  BY <1>2, <1>4, <1>5, <1>6, <1>7, <1>8

-----------------------------------------------------------------------------
(* One turn of a call.                                                     *)

\* What the page shows is rows, and boxes that hold their number.
DrawnRight ==
    /\ panel \in PanelOf /\ OnePool(panel) /\ BoxesTrue
    /\ typed \in [Subs -> Nat] /\ unsaved \subseteq Subs

\* A call goes on as d: what must be shown of d alone.
LEMMA TurnKeeps ==
    ASSUME PanelIInv, NEW c \in calls, NEW d \in CallSet, Proceeds(c, d),
           UNCHANGED <<waiting, busy>>, DrawnRight', miscounted' = FALSE,
           d.kind = c.kind, d.ids = c.ids, d.before = c.before, d.alone = c.alone,
           OnePool(d.list),
           c.kind = "mount" => d.stage = c.stage,
           config' \in ConfigOf, restartDue' \in BOOLEAN, panelLeft' \in LeftOf,
           behind' \subseteq Both, behind \subseteq behind' \/ calls = {c},
           c.stage = "post" \/ UNCHANGED server,
           "rows" \notin behind' => RowsKnown(d)',
           "restart" \notin behind' => RestartKnown(d)',
           ListTrue(d)', StatusTrue(d)', FollowTrue(d)'
    PROVE  PanelIInv'
<1> USE DEF PanelIInv
<1>1. calls' = (calls \ {c}) \cup {d}
  BY DEF Proceeds
<1>2. PanelTypeOK'
  BY <1>1 DEF PanelTypeOK, DrawnRight
<1>3. BusyInv'
  <2> SUFFICES ASSUME busy' # Nobody
               PROVE  \E x \in calls' : x.kind \notin {"reorder", "mount"}
    BY DEF BusyInv
  <2>1. PICK x \in calls : x.kind \notin {"reorder", "mount"}
    BY DEF BusyInv
  <2> QED
    BY <1>1, <2>1
<1>4. AloneInv'
  BY <1>1 DEF AloneInv
<1>5. BoxesInv'
  <2>1. \A x \in calls' : OnePool(x.list) /\ OnePool(x.before)
    BY <1>1 DEF BoxesInv
  <2>2. OnePool(panel)' /\ BoxesTrue'
    BY DEF DrawnRight
  <2> QED
    BY <2>1, <2>2 DEF BoxesInv, OnePool
<1>6. ListedInv'
  <2> SUFFICES ASSUME "rows" \notin behind', NEW x \in calls'
               PROVE  RowsKnown(x)' /\ calls' = {x}
    BY <1>1 DEF ListedInv
  <2>1. calls = {c}
    BY DEF ListedInv
  <2> QED
    BY <1>1, <2>1
<1>7. RestartInv'
  <2> SUFFICES ASSUME "restart" \notin behind', NEW x \in calls'
               PROVE  RestartKnown(x)' /\ calls' = {x}
    BY <1>1 DEF RestartInv
  <2>1. calls = {c}
    BY DEF RestartInv
  <2> QED
    BY <1>1, <2>1
<1>8. CallsInv'
  <2> SUFFICES ASSUME NEW x \in calls', x # d
               PROVE  ListTrue(x)' /\ StatusTrue(x)' /\ FollowTrue(x)'
    BY DEF CallsInv
  <2>1. x \in calls /\ x # c
    BY <1>1
  <2>2. /\ "rows" \in behind /\ "restart" \in behind
        /\ "rows" \in behind' /\ "restart" \in behind'
    BY <2>1 DEF ListedInv, RestartInv
  <2>3. ListTrue(x) /\ StatusTrue(x) /\ FollowTrue(x)
    BY <2>1 DEF CallsInv
  <2>4. CASE x.alone
    <3>1. x.kind = "mount" /\ c.kind = "mount"
      BY <2>1, <2>4 DEF AloneInv
    <3>2. UNCHANGED server
      BY <3>1 DEF AloneInv
    <3>3. Listing' = Listing /\ restartDue' = restartDue
      BY <3>2 DEF server, Listing, Place
    <3> QED
      BY <2>2, <2>3, <3>1, <3>3 DEF ListTrue, StatusTrue, FollowTrue
  <2>5. CASE ~x.alone
    BY <2>2, <2>5 DEF ListTrue, StatusTrue, FollowTrue
  <2> QED
    BY <2>4, <2>5
<1> QED
  BY <1>2, <1>3, <1>4, <1>5, <1>6, <1>7, <1>8


LEMMA StaysDrawn ==
    ASSUME PanelIInv, UNCHANGED <<panel, typed, unsaved>>
    PROVE  DrawnRight'
BY DEF PanelIInv, PanelTypeOK, BoxesInv, BoxesTrue, OnePool, DrawnRight

\* With nothing changed on the server or the page, c is known of as it was.
LEMMA HandledKeeps ==
    ASSUME PanelAssumption, PanelIInv, NEW c \in calls, Handled(c)
    PROVE  PanelIInv'
<1>1. /\ PanelTypeOK /\ c \in CallSet /\ config \in ConfigOf /\ c.kind # "mount"
      /\ c.at = "out" /\ c.stage = "post" /\ OnePool(c.list) /\ FollowTrue(c)
  BY DEF PanelIInv, PanelTypeOK, AloneInv, BoxesInv, CallsInv, Handled
<1>2. PICK new \in Saved(c) :
          /\ config' = IF EndsInPass(c.kind) THEN Passed(new) ELSE new
          /\ restartDue' \in IF EndsInPass(c.kind) THEN {restartDue, TRUE} ELSE {restartDue}
          /\ Proceeds(c, [c EXCEPT !.at = "back",
                                  !.grew = Len(config'.order) - Len(config.order)])
  BY DEF Handled
<1>3. /\ new \in ConfigOf
      /\ c.kind = "follow" => new = [config EXCEPT !.followed = TRUE]
      /\ c.kind = "reorder" => new = [config EXCEPT !.order = c.ids]
  BY <1>1, <1>2, SavedIs
<1>4. PICK added \in SUBSET Subs :
          /\ Passed(new) \in ConfigOf
          /\ Passed(new) = [new EXCEPT !.order = Passed(new).order]
          /\ IsFiniteSet(added) /\ added \cap ToSet(new.order) = {}
          /\ ToSet(Passed(new).order) = ToSet(new.order) \cup added
          /\ Len(Passed(new).order) = Len(new.order) + Cardinality(added)
  BY <1>3, PassedIs
<1>5. config' \in ConfigOf /\ restartDue' \in BOOLEAN
  BY <1>1, <1>2, <1>3, <1>4 DEF PanelTypeOK
<1>6. PICK grew : grew = Len(config'.order) - Len(config.order)
  OBVIOUS
<1>7. grew \in Int
  BY <1>1, <1>5, <1>6 DEF ConfigOf
<1>8. PICK d : d = [c EXCEPT !.at = "back", !.grew = grew]
  OBVIOUS
<1>9. /\ d \in CallSet /\ d.kind = c.kind /\ d.ids = c.ids /\ d.before = c.before
      /\ d.alone = c.alone /\ d.list = c.list /\ d.stage = "post" /\ d.at = "back"
      /\ d.grew = grew /\ d.sure = c.sure
  BY <1>1, <1>7, <1>8 DEF CallSet
<1>10. /\ Proceeds(c, d) /\ behind' = behind \cup Unread(c)
       /\ UNCHANGED <<panel, waiting, typed, busy, panelLeft, unsaved, miscounted>>
  BY <1>2, <1>6, <1>8 DEF Handled, pageState
<1>11. "rows" \notin behind' => RowsKnown(d)'
  <2> SUFFICES ASSUME "rows" \notin behind', c.kind = "reorder", ~c.before.queueOn
               PROVE  panel' = Listing'
    BY <1>9 DEF RowsKnown
  <2>1. "rows" \notin behind /\ config'.order = c.ids
    BY <1>10 DEF Unread
  <2>2. DragDrawn(c)
    BY <1>1, <2>1 DEF PanelIInv, ListedInv, RowsKnown
  <2>3. config' = [config EXCEPT !.order = c.ids]
    <3>1. new = [config EXCEPT !.order = c.ids] /\ new.order = c.ids
      BY <1>1, <1>3 DEF ConfigOf
    <3>2. config' = new \/ config' = [new EXCEPT !.order = Passed(new).order]
      BY <1>2, <1>4
    <3>3. config' = [new EXCEPT !.order = c.ids] \/ config' = new
      BY <1>3, <2>1, <3>2 DEF ConfigOf
    <3> QED
      BY <1>1, <3>1, <3>3 DEF ConfigOf
  <2>4. PICK drawn : drawn = panel.rows
    OBVIOUS
  <2>5. /\ c.ids = [i \in DOMAIN drawn |-> drawn[i].id] /\ DOMAIN c.ids = DOMAIN drawn
        /\ \A i \in DOMAIN drawn : \E j \in DOMAIN Listing.rows : drawn[i] = Listing.rows[j]
        /\ panel = [Listing EXCEPT !.rows = drawn] /\ c.before = Listing
    BY <2>2, <2>4 DEF DragDrawn
  <2>6. /\ DOMAIN Listing.rows = DOMAIN config.order
        /\ \A i \in DOMAIN config.order :
              Listing.rows[i] = [id |-> config.order[i], place |-> Place(i),
                                 pool |-> config.pool[config.order[i]]]
    BY <1>1, ListingIs
  <2>7. ~config.queueOn
    BY <2>5 DEF Listing
  <2>8. \A i \in DOMAIN drawn :
           drawn[i] = [id |-> c.ids[i], place |-> "none", pool |-> config.pool[c.ids[i]]]
    <3> SUFFICES ASSUME NEW i \in DOMAIN drawn
                 PROVE  drawn[i] = [id |-> c.ids[i], place |-> "none",
                                   pool |-> config.pool[c.ids[i]]]
      OBVIOUS
    <3>1. PICK j \in DOMAIN config.order : drawn[i] = Listing.rows[j]
      BY <2>5, <2>6
    <3>2. drawn[i] = [id |-> config.order[j], place |-> "none",
                     pool |-> config.pool[config.order[j]]]
      BY <2>6, <2>7, <3>1 DEF Place
    <3>3. c.ids[i] = drawn[i].id
      BY <2>5
    <3> QED
      BY <3>2, <3>3
  <2>9. drawn \in Seq(Row)
    BY <1>1, <2>4 DEF PanelTypeOK, PanelOf
  <2>10. drawn = [i \in DOMAIN c.ids |->
                   [id |-> c.ids[i], place |-> "none", pool |-> config.pool[c.ids[i]]]]
    <3>1. drawn = [i \in DOMAIN drawn |-> drawn[i]]
      BY <2>9
    <3> QED
      BY <2>5, <2>8, <3>1
  <2>11. Listing' = [rows |-> drawn, queueOn |-> config.queueOn,
                     followed |-> config.followed, skipped |-> config.skipped]
    BY <1>1, <2>3, <2>7, <2>10 DEF Listing, Place, ConfigOf
  <2>12. panel = [rows |-> drawn, queueOn |-> config.queueOn,
                  followed |-> config.followed, skipped |-> config.skipped]
    BY <2>5 DEF Listing
  <2> QED
    BY <1>10, <2>11, <2>12
<1>12. FollowTrue(d)'
  <2> SUFFICES ASSUME c.kind = "follow", c.alone, c.sure
               PROVE  Cardinality(Added(d))' = grew
    BY <1>9 DEF FollowTrue
  <2>1. ToSet(config.order) = IdsOf(c.before.rows)
    BY <1>1 DEF FollowTrue
  <2>2. new.order = config.order
    BY <1>1, <1>3 DEF ConfigOf
  <2>3. Added(d)' = ToSet(config'.order) \ ToSet(config.order)
    BY <1>9, <2>1 DEF Added
  <2>4. CASE EndsInPass(c.kind)
    <3>1. Added(d)' = added
      BY <1>2, <1>4, <2>2, <2>3, <2>4
    <3>2. Len(config'.order) = Len(config.order) + Cardinality(added)
      BY <1>2, <1>4, <2>2, <2>4
    <3>3. Cardinality(added) \in Nat /\ Len(config.order) \in Nat
      BY <1>1, <1>4, FS_CardinalityType DEF ConfigOf
    <3> QED
      BY <1>6, <3>1, <3>2, <3>3
  <2>5. CASE ~EndsInPass(c.kind)
    <3>1. Added(d)' = {} /\ config'.order = config.order
      BY <1>2, <2>2, <2>3, <2>5
    <3>2. Cardinality({}) = 0
      BY FS_EmptySet
    <3>3. Len(config.order) \in Nat
      BY <1>1 DEF ConfigOf
    <3> QED
      BY <1>6, <3>1, <3>2, <3>3
  <2> QED
    BY <2>4, <2>5
<1>13. ListTrue(d)' /\ StatusTrue(d)' /\ RestartKnown(d)'
  BY <1>1, <1>9 DEF ListTrue, StatusTrue, RestartKnown
<1>14. /\ panelLeft' \in LeftOf /\ behind' \subseteq Both /\ behind \subseteq behind'
       /\ miscounted' = FALSE
  BY <1>10 DEF PanelIInv, PanelTypeOK, Unread, Both
<1>15. DrawnRight'
  BY <1>10, StaysDrawn
<1> QED
  BY <1>1, <1>5, <1>9, <1>10, <1>11, <1>12, <1>13, <1>14, <1>15, TurnKeeps

LEMMA TurnedDownKeeps ==
    ASSUME PanelIInv, NEW c \in calls, TurnedDown(c)
    PROVE  PanelIInv'
<1>1. /\ PanelTypeOK /\ c \in CallSet /\ c.kind # "mount"
      /\ c.at = "out" /\ c.stage = "post" /\ OnePool(c.list)
  BY DEF PanelIInv, PanelTypeOK, AloneInv, BoxesInv, TurnedDown
<1>2. PICK d : d = [c EXCEPT !.at = "failed"]
  OBVIOUS
<1>3. /\ d \in CallSet /\ d.kind = c.kind /\ d.ids = c.ids /\ d.before = c.before
      /\ d.alone = c.alone /\ d.list = c.list /\ d.stage = "post" /\ d.at = "failed"
  BY <1>1, <1>2 DEF CallSet
<1>4. /\ Proceeds(c, d) /\ UNCHANGED server
      /\ UNCHANGED <<panel, waiting, typed, busy, panelLeft, behind, unsaved, miscounted>>
  BY <1>2 DEF TurnedDown, UnlessServed, pageState, excuses
<1>5. UNCHANGED <<config, restartDue>> /\ Listing' = Listing
  BY <1>4 DEF server, Listing, Place
<1>6. "rows" \notin behind' => RowsKnown(d)'
  BY <1>1, <1>3, <1>4, <1>5 DEF PanelIInv, ListedInv, RowsKnown, DragDrawn
<1>7. "restart" \notin behind' => RestartKnown(d)'
  BY <1>1, <1>3, <1>4, <1>5 DEF PanelIInv, RestartInv, RestartKnown
<1>8. ListTrue(d)' /\ StatusTrue(d)' /\ FollowTrue(d)'
  BY <1>3 DEF ListTrue, StatusTrue, FollowTrue
<1>9. /\ config' \in ConfigOf /\ restartDue' \in BOOLEAN /\ panelLeft' \in LeftOf
      /\ behind' \subseteq Both /\ behind \subseteq behind' /\ miscounted' = FALSE
  BY <1>1, <1>4, <1>5 DEF PanelIInv, PanelTypeOK
<1>10. DrawnRight'
  BY <1>4, StaysDrawn
<1> QED
  BY <1>1, <1>3, <1>4, <1>6, <1>7, <1>8, <1>9, <1>10, TurnKeeps

LEMMA ListAskedKeeps ==
    ASSUME PanelIInv, NEW c \in calls, ListAsked(c)
    PROVE  PanelIInv'
<1>1. /\ PanelTypeOK /\ c \in CallSet /\ c.at = "out" /\ c.stage = "subs" /\ FollowTrue(c)
  BY DEF PanelIInv, PanelTypeOK, CallsInv, ListAsked
<1>2. PICK d : d = [c EXCEPT !.at = "back", !.list = Listing]
  OBVIOUS
<1>3. Listing \in PanelOf /\ OnePool(Listing)
  BY <1>1, ListingIs
<1>4. /\ d \in CallSet /\ d.kind = c.kind /\ d.ids = c.ids /\ d.before = c.before
      /\ d.alone = c.alone /\ d.list = Listing /\ d.stage = "subs" /\ d.at = "back"
      /\ d.sure = c.sure /\ d.grew = c.grew
  BY <1>1, <1>2, <1>3 DEF CallSet
<1>5. /\ Proceeds(c, d) /\ UNCHANGED server
      /\ UNCHANGED <<panel, waiting, typed, busy, panelLeft, behind, unsaved, miscounted>>
  BY <1>2 DEF ListAsked, UnlessServed, pageState, excuses
<1>6. UNCHANGED <<config, restartDue>> /\ Listing' = Listing
  BY <1>5 DEF server, Listing, Place
<1>7. "rows" \notin behind' => RowsKnown(d)'
  BY <1>1, <1>4, <1>5, <1>6 DEF PanelIInv, ListedInv, RowsKnown
<1>8. "restart" \notin behind' => RestartKnown(d)'
  BY <1>1, <1>4, <1>5, <1>6 DEF PanelIInv, RestartInv, RestartKnown
<1>9. ListTrue(d)' /\ StatusTrue(d)'
  BY <1>4, <1>6 DEF ListTrue, StatusTrue
<1>10. FollowTrue(d)'
  BY <1>1, <1>4, <1>6 DEF FollowTrue, Added
<1>11. /\ config' \in ConfigOf /\ restartDue' \in BOOLEAN /\ panelLeft' \in LeftOf
       /\ behind' \subseteq Both /\ behind \subseteq behind' /\ miscounted' = FALSE
  BY <1>1, <1>5, <1>6 DEF PanelIInv, PanelTypeOK
<1>12. DrawnRight'
  BY <1>5, StaysDrawn
<1>13. c.kind = "mount" => d.stage = c.stage
  BY <1>1, <1>4
<1> QED
  BY <1>3, <1>4, <1>5, <1>7, <1>8, <1>9, <1>10, <1>11, <1>12, <1>13, TurnKeeps

LEMMA StatusAskedKeeps ==
    ASSUME PanelIInv, NEW c \in calls, StatusAsked(c)
    PROVE  PanelIInv'
<1>1. /\ PanelTypeOK /\ c \in CallSet /\ c.at = "out" /\ c.stage = "status" /\ FollowTrue(c)
      /\ OnePool(c.list) /\ restartDue \in BOOLEAN
  BY DEF PanelIInv, PanelTypeOK, CallsInv, BoxesInv, StatusAsked
<1>2. PICK d : d = [c EXCEPT !.at = "back", !.pending = restartDue]
  OBVIOUS
<1>3. /\ d \in CallSet /\ d.kind = c.kind /\ d.ids = c.ids /\ d.before = c.before
      /\ d.alone = c.alone /\ d.list = c.list /\ d.stage = "status" /\ d.at = "back"
      /\ d.sure = c.sure /\ d.grew = c.grew /\ d.pending = restartDue
  BY <1>1, <1>2 DEF CallSet
<1>4. /\ Proceeds(c, d) /\ UNCHANGED server
      /\ UNCHANGED <<panel, waiting, typed, busy, panelLeft, behind, unsaved, miscounted>>
  BY <1>2 DEF StatusAsked, UnlessServed, pageState, excuses
<1>5. UNCHANGED <<config, restartDue>> /\ Listing' = Listing
  BY <1>4 DEF server, Listing, Place
<1>6. "rows" \notin behind' => RowsKnown(d)'
  BY <1>1, <1>3, <1>4, <1>5 DEF PanelIInv, ListedInv, RowsKnown
<1>7. "restart" \notin behind' => RestartKnown(d)'
  BY <1>1, <1>3, <1>4, <1>5 DEF PanelIInv, RestartInv, RestartKnown
<1>8. ListTrue(d)' /\ StatusTrue(d)'
  BY <1>3, <1>5 DEF ListTrue, StatusTrue
<1>9. FollowTrue(d)'
  BY <1>1, <1>3, <1>4 DEF FollowTrue, Appeared
<1>10. /\ config' \in ConfigOf /\ restartDue' \in BOOLEAN /\ panelLeft' \in LeftOf
       /\ behind' \subseteq Both /\ behind \subseteq behind' /\ miscounted' = FALSE
  BY <1>1, <1>4, <1>5 DEF PanelIInv, PanelTypeOK
<1>11. DrawnRight'
  BY <1>4, StaysDrawn
<1>12. c.kind = "mount" => d.stage = c.stage
  BY <1>1, <1>3
<1> QED
  BY <1>1, <1>3, <1>4, <1>6, <1>7, <1>8, <1>9, <1>10, <1>11, <1>12, TurnKeeps

\* What is lost after the handler ran leaves the page behind.
LEMMA LostKeeps ==
    ASSUME PanelIInv, NEW c \in calls, Lost(c)
    PROVE  PanelIInv'
<1>1. /\ PanelTypeOK /\ c \in CallSet /\ c.at # "failed" /\ OnePool(c.list)
  BY DEF PanelIInv, PanelTypeOK, BoxesInv, Lost
<1>2. PICK d : d = [c EXCEPT !.at = "failed"]
  OBVIOUS
<1>3. /\ d \in CallSet /\ d.kind = c.kind /\ d.ids = c.ids /\ d.before = c.before
      /\ d.alone = c.alone /\ d.list = c.list /\ d.stage = c.stage /\ d.at = "failed"
  BY <1>1, <1>2 DEF CallSet
<1>4. /\ Proceeds(c, d) /\ UNCHANGED server
      /\ UNCHANGED <<panel, waiting, typed, busy, unsaved, miscounted>>
      /\ behind' = IF c.stage = "post" /\ c.at = "out" THEN behind ELSE Both
  BY <1>2 DEF Lost, pageState
<1>5. UNCHANGED <<config, restartDue>> /\ Listing' = Listing
  BY <1>4 DEF server, Listing, Place
<1>6. "rows" \notin behind' => RowsKnown(d)'
  BY <1>1, <1>3, <1>4, <1>5 DEF PanelIInv, ListedInv, RowsKnown, DragDrawn, Both
<1>7. "restart" \notin behind' => RestartKnown(d)'
  BY <1>1, <1>3, <1>4, <1>5 DEF PanelIInv, RestartInv, RestartKnown, Both
<1>8. ListTrue(d)' /\ StatusTrue(d)'
  BY <1>3 DEF ListTrue, StatusTrue
<1>9. FollowTrue(d)'
  BY <1>1, <1>3, <1>4 DEF FollowTrue, Both
<1>10. /\ config' \in ConfigOf /\ restartDue' \in BOOLEAN
       /\ behind' \subseteq Both /\ behind \subseteq behind' /\ miscounted' = FALSE
  BY <1>1, <1>4, <1>5 DEF PanelIInv, PanelTypeOK
<1>11. panelLeft' \in LeftOf
  BY <1>1 DEF Lost, PanelSpends, PanelTypeOK, LeftOf
<1>12. DrawnRight'
  BY <1>4, StaysDrawn
<1> QED
  BY <1>1, <1>3, <1>4, <1>6, <1>7, <1>8, <1>9, <1>10, <1>11, <1>12, TurnKeeps

LEMMA PostDoneKeeps ==
    ASSUME PanelIInv, NEW c \in calls, PostDone(c)
    PROVE  PanelIInv'
<1>1. /\ PanelTypeOK /\ c \in CallSet /\ c.at = "back" /\ c.stage = "post" /\ c.kind # "mount"
      /\ OnePool(c.list) /\ FollowTrue(c)
  BY DEF PanelIInv, PanelTypeOK, AloneInv, BoxesInv, CallsInv, PostDone
<1>2. PICK stage : stage = IF c.kind = "reorder" /\ ~c.before.queueOn THEN "status" ELSE "subs"
  OBVIOUS
<1>3. PICK d : d = [c EXCEPT !.at = "out", !.stage = stage]
  OBVIOUS
<1>4. /\ d \in CallSet /\ d.kind = c.kind /\ d.ids = c.ids /\ d.before = c.before
      /\ d.alone = c.alone /\ d.list = c.list /\ d.stage = stage /\ d.at = "out"
      /\ d.sure = c.sure /\ d.grew = c.grew
  BY <1>1, <1>2, <1>3 DEF CallSet
<1>5. /\ Proceeds(c, d) /\ UNCHANGED server
      /\ UNCHANGED <<panel, waiting, typed, busy, panelLeft, behind, unsaved, miscounted>>
  BY <1>2, <1>3 DEF PostDone, pageState, excuses
<1>6. UNCHANGED <<config, restartDue>> /\ Listing' = Listing
  BY <1>5 DEF server, Listing, Place
<1>7. "rows" \notin behind' => RowsKnown(d)'
  BY <1>1, <1>2, <1>4, <1>5, <1>6 DEF PanelIInv, ListedInv, RowsKnown
<1>8. "restart" \notin behind' => RestartKnown(d)'
  BY <1>1, <1>2, <1>4 DEF RestartKnown
<1>9. ListTrue(d)' /\ StatusTrue(d)'
  BY <1>4 DEF ListTrue, StatusTrue
<1>10. FollowTrue(d)'
  BY <1>1, <1>2, <1>4, <1>6 DEF FollowTrue, Added
<1>11. /\ config' \in ConfigOf /\ restartDue' \in BOOLEAN /\ panelLeft' \in LeftOf
       /\ behind' \subseteq Both /\ behind \subseteq behind' /\ miscounted' = FALSE
  BY <1>1, <1>5, <1>6 DEF PanelIInv, PanelTypeOK
<1>12. DrawnRight'
  BY <1>5, StaysDrawn
<1> QED
  BY <1>1, <1>4, <1>5, <1>7, <1>8, <1>9, <1>10, <1>11, <1>12, TurnKeeps

\* A call ends: what must be shown of those that remain.
LEMMA EndKeeps ==
    ASSUME PanelIInv, NEW c \in calls, Completes(c), UNCHANGED <<server, panelLeft>>,
           busy' = Nobody \/ (busy' = busy /\ c.kind \in {"reorder", "mount"}),
           DrawnRight', waiting' \in BOOLEAN, miscounted' = FALSE, behind' \subseteq behind,
           "rows" \notin behind' =>
               /\ panel' = Listing
               /\ \A x \in calls \ {c} : x.stage = "status" /\ calls \ {c} = {x},
           "restart" \notin behind' =>
               /\ waiting' = restartDue
               /\ \A x \in calls \ {c} :
                     x.kind = "mount" /\ x.stage = "subs" /\ calls \ {c} = {x},
           \A x \in calls \ {c} : x.alone => x.kind = "mount" /\ c.kind = "mount"
    PROVE  PanelIInv'
<1> USE DEF PanelIInv
<1>1. calls' = calls \ {c} /\ UNCHANGED <<config, restartDue>> /\ Listing' = Listing
  BY DEF Completes, server, Listing, Place
<1>2. PanelTypeOK'
  BY <1>1 DEF PanelTypeOK, DrawnRight
<1>3. BusyInv'
  BY <1>1 DEF BusyInv
<1>4. AloneInv'
  BY <1>1 DEF AloneInv
<1>5. BoxesInv'
  <2>1. \A x \in calls' : OnePool(x.list) /\ OnePool(x.before)
    BY <1>1 DEF BoxesInv
  <2>2. OnePool(panel)' /\ BoxesTrue'
    BY DEF DrawnRight
  <2> QED
    BY <2>1, <2>2 DEF BoxesInv, OnePool
<1>6. ListedInv'
  BY <1>1 DEF ListedInv, RowsKnown
<1>7. RestartInv'
  BY <1>1 DEF RestartInv, RestartKnown
<1>8. CallsInv'
  <2> SUFFICES ASSUME NEW x \in calls \ {c}
               PROVE  ListTrue(x)' /\ StatusTrue(x)' /\ FollowTrue(x)'
    BY <1>1 DEF CallsInv
  <2>1. ListTrue(x) /\ StatusTrue(x) /\ FollowTrue(x)
    BY DEF CallsInv
  <2>2. ListTrue(x)'
    BY <1>1, <2>1 DEF ListTrue
  <2>3. StatusTrue(x)'
    BY <1>1, <2>1 DEF StatusTrue
  <2>4. FollowTrue(x)'
    BY DEF FollowTrue
  <2> QED
    BY <2>2, <2>3, <2>4
<1> QED
  BY <1>2, <1>3, <1>4, <1>5, <1>6, <1>7, <1>8

\* A call that is alone is the only one, but for the two of the page's mount.
LEMMA OthersAre ==
    ASSUME PanelIInv, NEW c \in calls
    PROVE  /\ \A x \in calls \ {c} : x.alone => x.kind = "mount" /\ c.kind = "mount"
           /\ c.alone /\ c.kind # "mount" => calls = {c}
           /\ c.alone => \A x \in calls \ {c} :
                            /\ x.kind = "mount" /\ c.kind = "mount"
                            /\ x.stage # "post" /\ x.stage # c.stage
                            /\ \A y \in calls \ {c} : y.stage = x.stage => y = x
BY DEF PanelIInv, AloneInv

LEMMA PostFailedKeeps ==
    ASSUME PanelIInv, NEW c \in calls, PostFailed(c)
    PROVE  PanelIInv'
<1>1. /\ PanelTypeOK /\ BoxesInv /\ c \in CallSet /\ c.at = "failed" /\ c.stage = "post"
      /\ OnePool(c.before) /\ OnePool(panel) /\ panel \in PanelOf
  BY DEF PanelIInv, PanelTypeOK, BoxesInv, PostFailed
<1>2. PICK new : new = Restored(c)
  OBVIOUS
<1>3. c.kind # "reorder" => new = panel
  BY <1>2 DEF Restored
<1>4. c.kind = "reorder" => new = [panel EXCEPT !.rows = c.before.rows]
  BY <1>2 DEF Restored
<1>5. new \in PanelOf /\ OnePool(new)
  <2>1. c.before \in PanelOf
    BY <1>1 DEF CallSet
  <2> QED
    BY <1>1, <1>3, <1>4, <2>1 DEF PanelOf, OnePool
<1>6. /\ panel' = new /\ typed' \in [Subs -> Nat] /\ unsaved' \subseteq Subs
      /\ \A i \in DOMAIN new.rows :
            new.rows[i].id \in unsaved' \/ typed'[new.rows[i].id] = new.rows[i].pool
  <2>1. Draws(new)
    BY <1>2 DEF PostFailed
  <2> QED
    BY <1>1, <1>5, <2>1, DrawsKeeps
<1>7. DrawnRight'
  BY <1>5, <1>6 DEF DrawnRight, BoxesTrue, OnePool
<1>8. /\ Completes(c) /\ UNCHANGED <<server, waiting, panelLeft, behind, miscounted>>
      /\ busy' = Nobody \/ (busy' = busy /\ c.kind \in {"reorder", "mount"})
  BY DEF PostFailed, Frees
<1>9. "rows" \notin behind => panel' = Listing /\ calls = {c}
  <2> SUFFICES ASSUME "rows" \notin behind
               PROVE  new = Listing /\ calls = {c}
    BY <1>6
  <2>1. RowsKnown(c) /\ calls = {c}
    BY DEF PanelIInv, ListedInv
  <2>2. CASE c.kind # "reorder"
    BY <1>1, <1>3, <2>1, <2>2 DEF RowsKnown
  <2>3. CASE c.kind = "reorder"
    <3>1. c.before = Listing /\ panel = [Listing EXCEPT !.rows = panel.rows]
      BY <1>1, <2>1, <2>3 DEF RowsKnown, DragDrawn
    <3>2. new = [Listing EXCEPT !.rows = Listing.rows]
      BY <1>4, <2>3, <3>1 DEF Listing
    <3> QED
      BY <2>1, <3>2 DEF Listing
  <2> QED
    BY <2>2, <2>3
<1>10. "restart" \notin behind => waiting' = restartDue /\ calls = {c}
  BY <1>1, <1>8 DEF PanelIInv, RestartInv, RestartKnown
<1>11. waiting' \in BOOLEAN /\ miscounted' = FALSE /\ behind' \subseteq behind
  BY <1>1, <1>8 DEF PanelIInv, PanelTypeOK
<1>12. \A x \in calls \ {c} : x.alone => x.kind = "mount" /\ c.kind = "mount"
  BY OthersAre
<1>13. /\ "rows" \notin behind' => panel' = Listing /\ calls \ {c} = {}
       /\ "restart" \notin behind' => waiting' = restartDue /\ calls \ {c} = {}
  BY <1>8, <1>9, <1>10
<1> QED
  BY <1>7, <1>8, <1>11, <1>12, <1>13, EndKeeps

LEMMA ListReadKeeps ==
    ASSUME PanelIInv, NEW c \in calls, ListRead(c)
    PROVE  PanelIInv'
<1>1. /\ PanelTypeOK /\ BoxesInv /\ c \in CallSet /\ c.at = "back" /\ c.stage = "subs"
      /\ OnePool(c.list) /\ c.list \in PanelOf /\ ListTrue(c) /\ FollowTrue(c)
  BY DEF PanelIInv, PanelTypeOK, BoxesInv, CallsInv, CallSet, ListRead
<1>2. /\ panel' = c.list /\ typed' \in [Subs -> Nat] /\ unsaved' \subseteq Subs
      /\ \A i \in DOMAIN c.list.rows :
            c.list.rows[i].id \in unsaved' \/ typed'[c.list.rows[i].id] = c.list.rows[i].pool
  <2>1. Draws(c.list)
    BY DEF ListRead
  <2> QED
    BY <1>1, <2>1, DrawsKeeps
<1>3. DrawnRight'
  BY <1>1, <1>2 DEF DrawnRight, BoxesTrue, OnePool
<1>4. /\ GoesOn(c) /\ UNCHANGED <<server, waiting, busy, panelLeft, miscounted>>
      /\ behind' = IF c.alone THEN behind \ {"rows"} ELSE behind
  BY DEF ListRead
<1>5. UNCHANGED <<config, restartDue>> /\ Listing' = Listing
  BY <1>4 DEF server, Listing, Place
<1>6. "rows" \notin behind => calls = {c} /\ c.kind # "mount"
  BY <1>1 DEF PanelIInv, ListedInv, RowsKnown
<1>7. "rows" \notin behind' => panel' = Listing
  BY <1>1, <1>2, <1>4 DEF ListTrue
<1>8. "restart" \notin behind => calls = {c} /\ (c.kind = "mount" => waiting = restartDue)
  BY DEF PanelIInv, RestartInv, RestartKnown
<1>9. /\ waiting' \in BOOLEAN /\ miscounted' = FALSE /\ behind' \subseteq Both
      /\ config' \in ConfigOf /\ restartDue' \in BOOLEAN /\ panelLeft' \in LeftOf
      /\ behind' \subseteq behind
  BY <1>1, <1>4, <1>5 DEF PanelIInv, PanelTypeOK
<1>10. CASE c.kind = "mount"
  <2>1. Completes(c)
    BY <1>4, <1>10 DEF GoesOn
  <2>2. \A x \in calls \ {c} : x.alone => x.kind = "mount" /\ c.kind = "mount"
    BY OthersAre
  <2>3. ASSUME "rows" \notin behind', NEW x \in calls \ {c}
        PROVE  x.stage = "status" /\ calls \ {c} = {x}
    <3>1. c.alone
      BY <1>4, <1>6, <1>10, <2>3
    <3>2. /\ x.stage # "post" /\ x.stage # "subs"
          /\ \A y \in calls \ {c} : y.stage # "post" /\ y.stage # "subs"
      BY <1>1, <3>1, OthersAre
    <3>3. x.stage = "status" /\ \A y \in calls \ {c} : y.stage = "status"
      BY <3>2 DEF PanelIInv, PanelTypeOK, CallSet
    <3>4. \A y \in calls \ {c} : y = x
      BY <3>1, <3>3, OthersAre
    <3> QED
      BY <3>3, <3>4
  <2>4. "restart" \notin behind' => waiting' = restartDue /\ calls \ {c} = {}
    BY <1>4, <1>8, <1>10
  <2> QED
    BY <1>3, <1>4, <1>7, <1>9, <1>10, <2>1, <2>2, <2>3, <2>4, EndKeeps
<1>11. CASE c.kind # "mount"
  <2>1. PICK d : d = [c EXCEPT !.stage = "status", !.at = "out"]
    OBVIOUS
  <2>2. /\ d \in CallSet /\ d.kind = c.kind /\ d.ids = c.ids /\ d.before = c.before
        /\ d.alone = c.alone /\ d.list = c.list /\ d.stage = "status" /\ d.at = "out"
        /\ d.sure = c.sure /\ d.grew = c.grew
    BY <1>1, <2>1 DEF CallSet
  <2>3. Proceeds(c, d)
    BY <1>4, <1>11, <2>1 DEF GoesOn
  <2>4. behind \subseteq behind' \/ calls = {c}
    BY <1>4, <1>11, OthersAre
  <2>5. "rows" \notin behind' => RowsKnown(d)'
    BY <1>7, <2>2, <1>5 DEF RowsKnown
  <2>6. RestartKnown(d)'
    BY <1>11, <2>2 DEF RestartKnown
  <2>7. ListTrue(d)' /\ StatusTrue(d)'
    BY <2>2 DEF ListTrue, StatusTrue
  <2>8. FollowTrue(d)'
    <3> SUFFICES ASSUME c.kind = "follow", c.alone, c.sure
                 PROVE  Appeared(d) = c.grew
      BY <2>2 DEF FollowTrue, Appeared
    <3>1. Cardinality(Added(c)) = c.grew /\ c.list = Listing
      BY <1>1 DEF FollowTrue, ListTrue
    <3>2. IdsOf(Listing.rows) = ToSet(config.order)
      BY <1>1, ListingIs
    <3> QED
      BY <2>2, <3>1, <3>2 DEF Appeared, Added
  <2> QED
    BY <1>1, <1>3, <1>4, <1>9, <1>11, <2>2, <2>3, <2>4, <2>5, <2>6, <2>7, <2>8, TurnKeeps
<1> QED
  BY <1>10, <1>11

LEMMA ListFailedKeeps ==
    ASSUME PanelIInv, NEW c \in calls, ListFailed(c)
    PROVE  PanelIInv'
<1>1. /\ PanelTypeOK /\ c \in CallSet /\ c.at = "failed" /\ c.stage = "subs"
      /\ OnePool(c.list) /\ FollowTrue(c)
  BY DEF PanelIInv, PanelTypeOK, BoxesInv, CallsInv, ListFailed
<1>2. /\ GoesOn(c) /\ UNCHANGED server
      /\ UNCHANGED <<panel, waiting, typed, busy, panelLeft, behind, unsaved, miscounted>>
  BY DEF ListFailed, pageState, excuses
<1>3. UNCHANGED <<config, restartDue>> /\ Listing' = Listing
  BY <1>2 DEF server, Listing, Place
<1>4. DrawnRight'
  BY <1>2, StaysDrawn
<1>5. "rows" \in behind
  BY <1>1 DEF PanelIInv, ListedInv, RowsKnown
<1>6. /\ waiting' \in BOOLEAN /\ miscounted' = FALSE /\ behind' \subseteq Both
      /\ config' \in ConfigOf /\ restartDue' \in BOOLEAN /\ panelLeft' \in LeftOf
      /\ behind \subseteq behind' /\ behind' \subseteq behind
  BY <1>1, <1>2, <1>3 DEF PanelIInv, PanelTypeOK
<1>7. CASE c.kind = "mount"
  <2>1. Completes(c)
    BY <1>2, <1>7 DEF GoesOn
  <2>2. \A x \in calls \ {c} : x.alone => x.kind = "mount" /\ c.kind = "mount"
    BY OthersAre
  <2>3. "restart" \notin behind' => waiting' = restartDue /\ calls \ {c} = {}
    BY <1>2, <1>7 DEF PanelIInv, RestartInv, RestartKnown
  <2> QED
    BY <1>2, <1>4, <1>5, <1>6, <1>7, <2>1, <2>2, <2>3, EndKeeps
<1>8. CASE c.kind # "mount"
  <2>1. PICK d : d = [c EXCEPT !.stage = "status", !.at = "out"]
    OBVIOUS
  <2>2. /\ d \in CallSet /\ d.kind = c.kind /\ d.ids = c.ids /\ d.before = c.before
        /\ d.alone = c.alone /\ d.list = c.list /\ d.stage = "status" /\ d.at = "out"
    BY <1>1, <2>1 DEF CallSet
  <2>3. Proceeds(c, d)
    BY <1>2, <1>8, <2>1 DEF GoesOn
  <2>4. RestartKnown(d)'
    BY <1>8, <2>2 DEF RestartKnown
  <2>5. ListTrue(d)' /\ StatusTrue(d)'
    BY <2>2 DEF ListTrue, StatusTrue
  <2>6. FollowTrue(d)'
    BY <1>2, <1>5, <2>2 DEF FollowTrue
  <2> QED
    BY <1>1, <1>2, <1>4, <1>5, <1>6, <1>8, <2>2, <2>3, <2>4, <2>5, <2>6, TurnKeeps
<1> QED
  BY <1>7, <1>8

LEMMA StatusReadKeeps ==
    ASSUME PanelIInv, NEW c \in calls, StatusRead(c)
    PROVE  PanelIInv'
<1>1. /\ PanelTypeOK /\ c \in CallSet /\ c.stage = "status" /\ c.at \in {"back", "failed"}
      /\ StatusTrue(c) /\ FollowTrue(c)
  BY DEF PanelIInv, PanelTypeOK, CallsInv, StatusRead
<1>2. /\ Completes(c) /\ UNCHANGED <<server, panel, typed, panelLeft, unsaved>>
      /\ busy' = Nobody \/ (busy' = busy /\ c.kind \in {"reorder", "mount"})
      /\ waiting' = (IF c.at = "back" THEN c.pending ELSE waiting)
      /\ behind' = IF c.alone /\ c.at = "back" THEN behind \ {"restart"} ELSE behind
  BY DEF StatusRead, Frees
<1>3. DrawnRight'
  BY <1>2, StaysDrawn
<1>4. miscounted' = FALSE
  <2>1. ~ (c.kind = "follow" /\ c.alone /\ c.sure /\ "rows" \notin behind
             /\ Appeared(c) # c.grew)
    BY <1>1 DEF FollowTrue
  <2> QED
    BY <2>1 DEF StatusRead, PanelIInv
<1>5. waiting' \in BOOLEAN /\ behind' \subseteq behind
  BY <1>1, <1>2 DEF PanelTypeOK, CallSet
<1>6. "rows" \notin behind' => panel' = Listing /\ calls \ {c} = {}
  <2> SUFFICES ASSUME "rows" \notin behind
               PROVE  panel = Listing /\ calls = {c}
    BY <1>2
  <2> QED
    BY <1>1 DEF PanelIInv, ListedInv, RowsKnown
<1>7. ASSUME "restart" \notin behind'
      PROVE  /\ waiting' = restartDue
             /\ \A x \in calls \ {c} :
                   x.kind = "mount" /\ x.stage = "subs" /\ calls \ {c} = {x}
  <2>1. CASE "restart" \notin behind
    <3>1. RestartKnown(c) /\ calls = {c}
      BY <2>1 DEF PanelIInv, RestartInv
    <3>2. c.at = "back"
      BY <1>1, <3>1 DEF RestartKnown
    <3> QED
      BY <1>1, <1>2, <2>1, <3>1, <3>2 DEF StatusTrue
  <2>2. CASE "restart" \in behind
    <3>1. c.alone /\ c.at = "back"
      BY <1>2, <1>7, <2>2
    <3>2. waiting' = restartDue
      BY <1>1, <1>2, <3>1 DEF StatusTrue
    <3>3. \A x \in calls \ {c} : x.kind = "mount" /\ x.stage = "subs"
      <4>1. \A x \in calls \ {c} : x.kind = "mount" /\ x.stage # "post" /\ x.stage # "status"
        BY <1>1, <3>1, OthersAre
      <4> QED
        BY <4>1 DEF PanelIInv, PanelTypeOK, CallSet
    <3>4. \A x \in calls \ {c} : calls \ {c} = {x}
      <4>1. \A x \in calls \ {c}, y \in calls \ {c} : y = x
        BY <3>1, <3>3, OthersAre
      <4> QED
        BY <4>1
    <3> QED
      BY <3>2, <3>3, <3>4
  <2> QED
    BY <2>1, <2>2
<1>8. \A x \in calls \ {c} : x.alone => x.kind = "mount" /\ c.kind = "mount"
  BY OthersAre
<1> QED
  BY <1>2, <1>3, <1>4, <1>5, <1>6, <1>7, <1>8, EndKeeps

-----------------------------------------------------------------------------
(* What starts, and what happens elsewhere.                                *)

\* A call that is crossed is the same call, alone no longer.
LEMMA CrossedAre ==
    ASSUME PanelTypeOK, NEW x \in Crossed(calls)
    PROVE  \E y \in calls :
              /\ x = [y EXCEPT !.alone = FALSE] /\ x \in CallSet /\ ~x.alone
              /\ x.kind = y.kind /\ x.ids = y.ids /\ x.stage = y.stage /\ x.at = y.at
              /\ x.list = y.list /\ x.before = y.before /\ x.pending = y.pending
<1>1. PICK y \in calls : x = [y EXCEPT !.alone = FALSE]
  BY DEF Crossed
<1>2. y \in CallSet
  BY DEF PanelTypeOK
<1> QED
  BY <1>1, <1>2 DEF CallSet

LEMMA CrossedBy ==
    ASSUME PanelTypeOK, NEW y \in calls
    PROVE  \E x \in Crossed(calls) : x.kind = y.kind
<1>1. y \in CallSet
  BY DEF PanelTypeOK
<1>2. PICK x : x = [y EXCEPT !.alone = FALSE]
  OBVIOUS
<1> QED
  BY <1>1, <1>2 DEF CallSet, Crossed

LEMMA CrossedMounts ==
    ASSUME PanelTypeOK, AloneInv, NEW x \in Crossed(calls), NEW z \in Crossed(calls)
    PROVE  /\ ~x.alone /\ (x.kind = "mount" => x.stage # "post")
           /\ x.kind = "mount" /\ z.kind = "mount" /\ x.stage = z.stage => x = z
<1>1. PICK v \in calls : /\ x = [v EXCEPT !.alone = FALSE] /\ ~x.alone
                         /\ x.kind = v.kind /\ x.stage = v.stage
  BY CrossedAre
<1>2. PICK w \in calls : /\ z = [w EXCEPT !.alone = FALSE]
                         /\ z.kind = w.kind /\ z.stage = w.stage
  BY CrossedAre
<1> QED
  BY <1>1, <1>2 DEF AloneInv

\* Crossing the calls and leaving the page as it is says nothing that was not so,
\* but of what has changed elsewhere.
LEMMA ElsewhereKeeps ==
    ASSUME PanelIInv, NEW part \in SUBSET Both, Elsewhere(part),
           config' \in ConfigOf, restartDue' \in BOOLEAN,
           "rows" \in part \/ UNCHANGED config,
           "restart" \in part \/ UNCHANGED restartDue
    PROVE  PanelIInv'
<1> USE DEF PanelIInv
<1>1. /\ calls' = Crossed(calls) /\ behind' = behind \cup part
      /\ UNCHANGED <<panel, waiting, typed, busy, unsaved, miscounted>>
  BY DEF Elsewhere, pageState
<1>2. \A x \in calls' : \E y \in calls :
              /\ x = [y EXCEPT !.alone = FALSE] /\ x \in CallSet /\ ~x.alone
              /\ x.kind = y.kind /\ x.ids = y.ids /\ x.stage = y.stage /\ x.at = y.at
              /\ x.list = y.list /\ x.before = y.before /\ x.pending = y.pending
  BY <1>1, CrossedAre
<1>3. DrawnRight'
  BY <1>1, StaysDrawn
<1>4. PanelTypeOK'
  <2>1. panelLeft' \in LeftOf
    BY DEF Elsewhere, PanelSpends, PanelTypeOK, LeftOf
  <2>2. \A x \in calls' : x \in CallSet /\ (x.kind \in OneSub => x.ids # <<>>)
    BY <1>2 DEF PanelTypeOK
  <2> QED
    BY <1>1, <1>3, <2>1, <2>2 DEF PanelTypeOK, DrawnRight
<1>5. BusyInv'
  <2> SUFFICES ASSUME busy # Nobody
               PROVE  \E x \in calls' : x.kind \notin {"reorder", "mount"}
    BY <1>1 DEF BusyInv
  <2>1. PICK y \in calls : y.kind \notin {"reorder", "mount"}
    BY DEF BusyInv
  <2> QED
    BY <1>1, <2>1, CrossedBy
<1>6. AloneInv'
  <2> SUFFICES ASSUME NEW x \in calls', NEW z \in calls'
               PROVE  /\ x.kind = "mount" => x.stage # "post"
                      /\ x.kind = "mount" /\ z.kind = "mount" /\ x.stage = z.stage => x = z
                      /\ ~x.alone
    BY DEF AloneInv
  <2> QED
    BY <1>1, CrossedMounts
<1>7. BoxesInv'
  <2>1. \A x \in calls' : OnePool(x.list) /\ OnePool(x.before)
    BY <1>2 DEF BoxesInv
  <2>2. OnePool(panel)' /\ BoxesTrue'
    BY <1>3 DEF DrawnRight
  <2> QED
    BY <2>1, <2>2 DEF BoxesInv, OnePool
<1>8. ListedInv'
  <2> SUFFICES ASSUME "rows" \notin behind'
               PROVE  /\ calls' = {} => panel' = Listing'
                      /\ \A x \in calls' : RowsKnown(x)' /\ calls' = {x}
    BY DEF ListedInv
  <2>1. "rows" \notin behind /\ Listing' = Listing
    BY <1>1 DEF Listing, Place
  <2>2. calls' = {} => panel' = Listing'
    <3>1. calls' = {} => calls = {}
      BY <1>1, CrossedBy
    <3> QED
      BY <1>1, <2>1, <3>1 DEF ListedInv
  <2>3. ASSUME NEW x \in calls'
        PROVE  RowsKnown(x)' /\ calls' = {x}
    <3>1. PICK y \in calls :
              /\ x = [y EXCEPT !.alone = FALSE]
              /\ x.kind = y.kind /\ x.ids = y.ids /\ x.stage = y.stage /\ x.at = y.at
              /\ x.before = y.before
      BY <1>2
    <3>2. RowsKnown(y) /\ calls = {y}
      BY <2>1 DEF ListedInv
    <3>3. RowsKnown(x)'
      BY <1>1, <2>1, <3>1, <3>2 DEF RowsKnown, DragDrawn
    <3> QED
      BY <1>1, <3>1, <3>2, <3>3 DEF Crossed
  <2> QED
    BY <2>2, <2>3
<1>9. RestartInv'
  <2> SUFFICES ASSUME "restart" \notin behind'
               PROVE  /\ calls' = {} => waiting' = restartDue'
                      /\ \A x \in calls' : RestartKnown(x)' /\ calls' = {x}
    BY DEF RestartInv
  <2>1. "restart" \notin behind /\ restartDue' = restartDue
    BY <1>1
  <2>2. calls' = {} => waiting' = restartDue'
    <3>1. calls' = {} => calls = {}
      BY <1>1, CrossedBy
    <3> QED
      BY <1>1, <2>1, <3>1 DEF RestartInv
  <2>3. ASSUME NEW x \in calls'
        PROVE  RestartKnown(x)' /\ calls' = {x}
    <3>1. PICK y \in calls :
              /\ x = [y EXCEPT !.alone = FALSE]
              /\ x.kind = y.kind /\ x.stage = y.stage /\ x.at = y.at
      BY <1>2
    <3>2. RestartKnown(y) /\ calls = {y}
      BY <2>1 DEF RestartInv
    <3>3. RestartKnown(x)'
      BY <1>1, <2>1, <3>1, <3>2 DEF RestartKnown
    <3> QED
      BY <1>1, <3>1, <3>2, <3>3 DEF Crossed
  <2> QED
    BY <2>2, <2>3
<1>10. CallsInv'
  <2> SUFFICES ASSUME NEW x \in calls'
               PROVE  ListTrue(x)' /\ StatusTrue(x)' /\ FollowTrue(x)'
    BY DEF CallsInv
  <2>1. PICK y \in calls :
            /\ ~x.alone /\ x.stage = y.stage /\ x.at = y.at /\ x.list = y.list
            /\ x.pending = y.pending
    BY <1>2
  <2>2. ListTrue(y) /\ StatusTrue(y)
    BY DEF CallsInv
  <2>3. ListTrue(x)'
    BY <1>1, <2>1, <2>2 DEF ListTrue, Listing, Place
  <2>4. StatusTrue(x)'
    BY <1>1, <2>1, <2>2 DEF StatusTrue
  <2>5. FollowTrue(x)'
    BY <2>1 DEF FollowTrue
  <2> QED
    BY <2>3, <2>4, <2>5
<1>11. ~miscounted'
  BY <1>1
<1> QED
  BY <1>4, <1>5, <1>6, <1>7, <1>8, <1>9, <1>10, <1>11

LEMMA ConfigChangesKeeps ==
    ASSUME PanelIInv, ConfigChanges
    PROVE  PanelIInv'
<1>1. config \in ConfigOf /\ restartDue \in BOOLEAN
  BY DEF PanelIInv, PanelTypeOK
<1>2. config' \in ConfigOf
  <2>1. CASE config' = [config EXCEPT !.queueOn = ~@]
    BY <1>1, <2>1 DEF ConfigOf
  <2>2. ASSUME NEW s \in ToSet(config.order), config' = [config EXCEPT !.order = Unlisted(s)]
        PROVE  config' \in ConfigOf
    <3>1. PICK i : i = CHOOSE k \in DOMAIN config.order : config.order[k] = s
      OBVIOUS
    <3>2. i \in DOMAIN config.order
      BY <3>1 DEF ToSet
    <3>3. Unlisted(s) \in Seq(Subs)
      BY <1>1, <3>1, <3>2, RemoveAtType DEF ConfigOf, Unlisted
    <3> QED
      BY <1>1, <2>2, <3>3 DEF ConfigOf
  <2> QED
    BY <2>1, <2>2 DEF ConfigChanges
<1>3. Elsewhere({"rows"}) /\ UNCHANGED restartDue
  BY DEF ConfigChanges
<1>4. {"rows"} \in SUBSET Both /\ "rows" \in {"rows"} /\ restartDue' \in BOOLEAN
  BY <1>1, <1>3 DEF Both
<1> QED
  BY <1>2, <1>3, <1>4, ElsewhereKeeps

LEMMA RestartChangesKeeps ==
    ASSUME PanelIInv, RestartChanges
    PROVE  PanelIInv'
<1>1. config \in ConfigOf /\ restartDue \in BOOLEAN
  BY DEF PanelIInv, PanelTypeOK
<1>2. Elsewhere({"restart"}) /\ UNCHANGED config /\ restartDue' = ~restartDue
  BY DEF RestartChanges
<1>3. {"restart"} \in SUBSET Both /\ "restart" \in {"restart"}
  BY DEF Both
<1> QED
  BY <1>1, <1>2, <1>3, ElsewhereKeeps

\* A new call finds the page current if it is the only one and nothing is behind; a
\* drag has moved rows that are those of the list.
LEMMA SentKeeps ==
    ASSUME PanelIInv, NEW kind \in CallKinds \ {"mount"}, NEW ids \in Seq(Subs), NEW num \in Nat,
           Sends(kind, ids, num), kind \in OneSub => ids # <<>>,
           busy' = busy \/ kind # "reorder",
           kind = "reorder" =>
               /\ ids = [i \in DOMAIN panel'.rows |-> panel'.rows[i].id]
               /\ \A i \in DOMAIN panel'.rows :
                     \E j \in DOMAIN panel.rows : panel'.rows[i] = panel.rows[j],
           panel' = [panel EXCEPT !.rows = panel'.rows],
           kind # "reorder" => panel' = panel,
           DrawnRight'
    PROVE  PanelIInv'
<1> USE DEF PanelIInv
<1>1. PICK r : r = Request(panelLeft.calls, kind, ids, num, "post", calls = {})
  OBVIOUS
<1>2. /\ calls' = Crossed(calls) \cup {r} /\ behind' = (IF calls = {} THEN behind ELSE Both)
      /\ UNCHANGED <<config, restartDue, waiting, miscounted>> /\ Listing' = Listing
  BY <1>1 DEF Sends, server, Listing, Place
<1>3. /\ r.kind = kind /\ r.ids = ids /\ r.stage = "post" /\ r.at = "out" /\ r.list = panel
      /\ r.before = panel /\ r.sure = ("rows" \notin behind) /\ r.alone = (calls = {})
  BY <1>1 DEF Request
<1>4. r \in CallSet
  <2>1. panelLeft.calls \in Nat /\ panel \in PanelOf
    BY DEF PanelTypeOK, LeftOf
  <2>2. r = [n |-> panelLeft.calls, kind |-> kind, ids |-> ids, num |-> num,
             stage |-> "post", at |-> "out", list |-> panel, pending |-> FALSE,
             before |-> panel, sure |-> "rows" \notin behind, grew |-> 0,
             alone |-> calls = {}]
    BY <1>1 DEF Request
  <2> QED
    BY <2>1, <2>2 DEF CallSet
<1>5. \A x \in Crossed(calls) : \E y \in calls :
              /\ x = [y EXCEPT !.alone = FALSE] /\ x \in CallSet /\ ~x.alone
              /\ x.kind = y.kind /\ x.ids = y.ids /\ x.stage = y.stage /\ x.at = y.at
              /\ x.list = y.list /\ x.before = y.before /\ x.pending = y.pending
  BY CrossedAre
<1>6. PanelTypeOK'
  <2>1. panelLeft' \in LeftOf
    BY DEF Sends, PanelSpends, PanelTypeOK, LeftOf
  <2>2. \A x \in calls' : x \in CallSet /\ (x.kind \in OneSub => x.ids # <<>>)
    BY <1>2, <1>3, <1>4, <1>5 DEF PanelTypeOK
  <2>3. behind' \subseteq Both
    BY <1>2 DEF PanelTypeOK
  <2> QED
    BY <1>2, <2>1, <2>2, <2>3 DEF PanelTypeOK, DrawnRight
<1>7. BusyInv'
  <2>1. CASE kind # "reorder"
    BY <1>2, <1>3, <2>1 DEF BusyInv
  <2>2. CASE kind = "reorder"
    <3> SUFFICES ASSUME busy # Nobody
                 PROVE  \E x \in calls' : x.kind \notin {"reorder", "mount"}
      BY <2>2 DEF BusyInv
    <3>1. PICK y \in calls : y.kind \notin {"reorder", "mount"}
      BY DEF BusyInv
    <3> QED
      BY <1>2, <3>1, CrossedBy
  <2> QED
    BY <2>1, <2>2
<1>8. AloneInv'
  <2>1. r.kind # "mount" /\ (r.alone => calls' = {r})
    BY <1>2, <1>3 DEF Crossed
  <2>2. \A x \in Crossed(calls) : ~x.alone /\ (x.kind = "mount" => x.stage # "post")
    BY CrossedMounts
  <2>3. \A x, z \in Crossed(calls) :
            x.kind = "mount" /\ z.kind = "mount" /\ x.stage = z.stage => x = z
    BY CrossedMounts
  <2> QED
    BY <1>2, <2>1, <2>2, <2>3 DEF AloneInv
<1>9. BoxesInv'
  <2>1. \A x \in calls' : OnePool(x.list) /\ OnePool(x.before)
    BY <1>2, <1>3, <1>5 DEF BoxesInv
  <2>2. OnePool(panel)' /\ BoxesTrue'
    BY DEF DrawnRight
  <2> QED
    BY <2>1, <2>2 DEF BoxesInv, OnePool
<1>10. ListedInv'
  <2> SUFFICES ASSUME "rows" \notin behind'
               PROVE  calls' = {r} /\ RowsKnown(r)'
    BY DEF ListedInv
  <2>1. calls = {} /\ "rows" \notin behind
    BY <1>2 DEF Both
  <2>2. panel = Listing /\ calls' = {r}
    BY <1>2, <2>1 DEF ListedInv, Crossed
  <2>3. CASE kind # "reorder"
    BY <1>2, <1>3, <2>2, <2>3 DEF RowsKnown
  <2>4. CASE kind = "reorder"
    BY <1>2, <1>3, <2>2, <2>4 DEF RowsKnown, DragDrawn
  <2> QED
    BY <2>2, <2>3, <2>4
<1>11. RestartInv'
  <2> SUFFICES ASSUME "restart" \notin behind'
               PROVE  calls' = {r} /\ RestartKnown(r)'
    BY DEF RestartInv
  <2>1. calls = {} /\ "restart" \notin behind
    BY <1>2 DEF Both
  <2>2. waiting = restartDue /\ calls' = {r}
    BY <1>2, <2>1 DEF RestartInv, Crossed
  <2> QED
    BY <1>2, <1>3, <2>2 DEF RestartKnown
<1>12. CallsInv'
  <2>1. ListTrue(r)' /\ StatusTrue(r)'
    BY <1>3 DEF ListTrue, StatusTrue
  <2>2. FollowTrue(r)'
    <3> SUFFICES ASSUME calls = {}, "rows" \notin behind
                 PROVE  ToSet(config.order) = IdsOf(panel.rows)
      BY <1>2, <1>3 DEF FollowTrue
    <3> QED
      BY ListingIs DEF ListedInv
  <2>3. ASSUME NEW x \in Crossed(calls)
        PROVE  ListTrue(x)' /\ StatusTrue(x)' /\ FollowTrue(x)'
    <3>1. ~x.alone /\ behind' = Both
      BY <1>2, <1>5
    <3> QED
      BY <3>1 DEF ListTrue, StatusTrue, FollowTrue, Both
  <2> QED
    BY <1>2, <2>1, <2>2, <2>3 DEF CallsInv
<1>13. ~miscounted'
  BY <1>2
<1> QED
  BY <1>6, <1>7, <1>8, <1>9, <1>10, <1>11, <1>12, <1>13

\* The page's actions that send one of its mutations and leave the rows as they are.
LEMMA MutatesKeeps ==
    ASSUME PanelIInv, NEW kind \in CallKinds \ {"mount", "reorder"}, NEW ids \in Seq(Subs),
           NEW num \in Nat, NEW key, Mutates(kind, ids, num, key),
           kind \in OneSub => ids # <<>>, DrawnRight'
    PROVE  PanelIInv'
<1>1. Sends(kind, ids, num) /\ panel' = panel
  BY DEF Mutates
<1>2. panel' = [panel EXCEPT !.rows = panel'.rows]
  BY <1>1 DEF PanelIInv, PanelTypeOK, PanelOf
<1> QED
  BY <1>1, <1>2, SentKeeps

LEMMA PlainKeeps ==
    ASSUME PanelIInv, NEW kind \in CallKinds \ {"mount", "reorder"}, NEW ids \in Seq(Subs),
           NEW num \in Nat, NEW key, Mutates(kind, ids, num, key), Boxes,
           kind \in OneSub => ids # <<>>
    PROVE  PanelIInv'
<1>1. UNCHANGED <<panel, typed, unsaved>>
  BY DEF Mutates, Boxes
<1>2. DrawnRight'
  BY <1>1, StaysDrawn
<1> QED
  BY <1>2, MutatesKeeps

LEMMA PageKeeps ==
    ASSUME PanelIInv,
           \/ RemoveRow \/ ThrowSwitch \/ ResolveNow \/ UnskipRow \/ UnfollowGame \/ FollowGames
           \/ \E s \in Subs : CardToggles(s)
           \/ \E s \in OfGame : CardFollows(s)
    PROVE  PanelIInv'
<1>1. IdsOf(panel.rows) \subseteq Subs /\ panel.skipped \subseteq Subs /\ <<>> \in Seq(Subs)
  <2>1. panel \in PanelOf /\ \A i \in DOMAIN panel.rows : panel.rows[i] \in Row
    BY RowPlaces DEF PanelIInv, PanelTypeOK, PanelOf
  <2> QED
    BY <2>1, IdsAre DEF PanelOf, Row
<1>2. CASE RemoveRow
  <2>1. PICK s \in Subs : Mutates("remove", <<s>>, 0, s) /\ Boxes
    BY <1>1, <1>2 DEF RemoveRow
  <2>2. "remove" \in CallKinds \ {"mount", "reorder"}
    BY DEF CallKinds, OneSub
  <2>3. <<s>> \in Seq(Subs) /\ <<s>> # <<>>
    BY <1>1
  <2> QED
    BY <2>1, <2>2, <2>3, PlainKeeps
<1>3. CASE ThrowSwitch
  <2>1. PICK num \in Nat : Mutates("queue", <<>>, num, "panel") /\ Boxes
    BY <1>3 DEF ThrowSwitch
  <2>2. "queue" \in CallKinds \ {"mount", "reorder"} /\ "queue" \notin OneSub
    BY DEF CallKinds, OneSub
  <2> QED
    BY <1>1, <2>1, <2>2, PlainKeeps
<1>4. CASE ResolveNow
  <2>1. Mutates("resolve", <<>>, 0, "panel") /\ Boxes
    BY <1>4 DEF ResolveNow
  <2>2. "resolve" \in CallKinds \ {"mount", "reorder"} /\ "resolve" \notin OneSub
    BY DEF CallKinds, OneSub
  <2> QED
    BY <1>1, <2>1, <2>2, PlainKeeps
<1>5. CASE UnskipRow
  <2>1. PICK s \in Subs : Mutates("unskip", <<s>>, 0, s) /\ Boxes
    BY <1>1, <1>5 DEF UnskipRow
  <2>2. "unskip" \in CallKinds \ {"mount", "reorder"}
    BY DEF CallKinds, OneSub
  <2>3. <<s>> \in Seq(Subs) /\ <<s>> # <<>>
    BY <1>1
  <2> QED
    BY <2>1, <2>2, <2>3, PlainKeeps
<1>6. CASE UnfollowGame
  <2>1. Mutates("unfollow", <<>>, 0, "followed") /\ Boxes
    BY <1>6 DEF UnfollowGame
  <2>2. "unfollow" \in CallKinds \ {"mount", "reorder"} /\ "unfollow" \notin OneSub
    BY DEF CallKinds, OneSub
  <2> QED
    BY <1>1, <2>1, <2>2, PlainKeeps
<1>7. CASE FollowGames \/ \E s \in OfGame : CardFollows(s)
  <2>1. PICK key : Mutates("follow", <<>>, 0, key) /\ Boxes
    BY <1>7 DEF FollowGames, CardFollows
  <2>2. "follow" \in CallKinds \ {"mount", "reorder"} /\ "follow" \notin OneSub
    BY DEF CallKinds, OneSub
  <2> QED
    BY <1>1, <2>1, <2>2, PlainKeeps
<1>8. CASE \E s \in Subs : CardToggles(s)
  <2>1. PICK s \in Subs : CardToggles(s)
    BY <1>8
  <2>2. PICK kind : /\ kind = IF s \in IdsOf(panel.rows) THEN "remove" ELSE "subscribe"
                    /\ Mutates(kind, <<s>>, 0, s) /\ Boxes
    BY <2>1 DEF CardToggles
  <2>3. kind \in CallKinds \ {"mount", "reorder"}
    BY <2>2 DEF CallKinds, OneSub
  <2>4. <<s>> \in Seq(Subs) /\ <<s>> # <<>>
    OBVIOUS
  <2> QED
    BY <2>2, <2>3, <2>4, PlainKeeps
<1> QED
  BY <1>2, <1>3, <1>4, <1>5, <1>6, <1>7, <1>8

LEMMA TypesPoolSizeKeeps ==
    ASSUME PanelIInv, TypesPoolSize
    PROVE  PanelIInv'
<1>1. PICK i \in DOMAIN panel.rows, n \in Sizes :
          /\ Mutates("pool-size", <<panel.rows[i].id>>, n, panel.rows[i].id)
          /\ typed' = [typed EXCEPT ![panel.rows[i].id] = n]
          /\ unsaved' = unsaved \cup {panel.rows[i].id}
  BY DEF TypesPoolSize
<1>2. PICK s : s = panel.rows[i].id
  OBVIOUS
<1>3. panel \in PanelOf /\ \A j \in DOMAIN panel.rows : panel.rows[j] \in Row
  BY RowPlaces DEF PanelIInv, PanelTypeOK, PanelOf
<1>4. s \in Subs /\ <<s>> \in Seq(Subs) /\ <<s>> # <<>> /\ n \in Nat
  BY <1>2, <1>3 DEF Row, Sizes
<1>5. DrawnRight'
  <2>1. panel' = panel
    BY <1>1 DEF Mutates
  <2>2. typed' \in [Subs -> Nat] /\ unsaved' \subseteq Subs
    BY <1>1, <1>2, <1>4 DEF PanelIInv, PanelTypeOK
  <2>3. OnePool(panel)'
    BY <2>1 DEF PanelIInv, BoxesInv, OnePool
  <2>4. BoxesTrue'
    <3> SUFFICES ASSUME NEW j \in DOMAIN panel.rows, panel.rows[j].id \notin unsaved'
                 PROVE  typed'[panel.rows[j].id] = panel.rows[j].pool
      BY <2>1 DEF BoxesTrue
    <3>1. /\ panel.rows[j].id # s /\ panel.rows[j].id \notin unsaved
          /\ panel.rows[j].id \in Subs
      BY <1>1, <1>2, <1>3 DEF Row
    <3>2. typed'[panel.rows[j].id] = typed[panel.rows[j].id]
      BY <1>1, <1>2, <3>1 DEF PanelIInv, PanelTypeOK
    <3> QED
      BY <3>1, <3>2 DEF PanelIInv, BoxesInv, BoxesTrue
  <2> QED
    BY <1>3, <2>1, <2>2, <2>3, <2>4 DEF DrawnRight
<1>6. "pool-size" \in CallKinds \ {"mount", "reorder"}
  BY DEF CallKinds, OneSub
<1> QED
  BY <1>1, <1>2, <1>4, <1>5, <1>6, MutatesKeeps

LEMMA DragsKeeps ==
    ASSUME PanelIInv, NEW from \in DOMAIN panel.rows, NEW to \in DOMAIN panel.rows,
           Drags(from, to)
    PROVE  PanelIInv'
<1>1. /\ panel \in PanelOf /\ panel.rows \in Seq(Row) /\ OnePool(panel) /\ BoxesTrue
      /\ typed \in [Subs -> Nat] /\ unsaved \subseteq Subs
  BY DEF PanelIInv, PanelTypeOK, PanelOf, BoxesInv
<1>2. PICK moved : moved = InsertAt(RemoveAt(panel.rows, from), to, panel.rows[from])
  OBVIOUS
<1>3. /\ moved \in Seq(Row)
      /\ \A i \in DOMAIN moved : \E j \in DOMAIN panel.rows : moved[i] = panel.rows[j]
  <2>1. PICK drawn \in Seq(Row) : drawn = panel.rows
    BY <1>1
  <2> QED
    BY <1>2, <2>1, MovedRows
<1>4. PICK ids : ids = [i \in DOMAIN moved |-> moved[i].id]
  OBVIOUS
<1>5. /\ Sends("reorder", ids, 0) /\ panel' = [panel EXCEPT !.rows = moved]
      /\ UNCHANGED <<busy, typed, unsaved>>
  BY <1>2, <1>4 DEF Drags, Boxes
<1>6. panel'.rows = moved /\ panel' \in PanelOf /\ panel' = [panel EXCEPT !.rows = panel'.rows]
  BY <1>1, <1>3, <1>5 DEF PanelOf
<1>7. ids \in Seq(Subs)
  <2>1. \A i \in DOMAIN moved : ids[i] \in Subs
    <3>1. \A i \in DOMAIN moved : moved[i] \in Row
      BY <1>3, RowPlaces
    <3> QED
      BY <1>4, <3>1 DEF Row
  <2>2. ids = [i \in DOMAIN moved |-> ids[i]]
    BY <1>4
  <2> QED
    BY <1>3, <2>1, <2>2, RowByRow
<1>8. DrawnRight'
  <2>1. OnePool(panel)'
    <3> SUFFICES ASSUME NEW i \in DOMAIN moved, NEW j \in DOMAIN moved,
                        moved[i].id = moved[j].id
                 PROVE  moved[i].pool = moved[j].pool
      BY <1>6 DEF OnePool
    <3>1. PICK k \in DOMAIN panel.rows : moved[i] = panel.rows[k]
      BY <1>3
    <3>2. PICK l \in DOMAIN panel.rows : moved[j] = panel.rows[l]
      BY <1>3
    <3> QED
      BY <1>1, <3>1, <3>2 DEF OnePool
  <2>2. BoxesTrue'
    BY <1>1, <1>3, <1>5, <1>6 DEF BoxesTrue
  <2> QED
    BY <1>1, <1>5, <1>6, <2>1, <2>2 DEF DrawnRight
<1>9. "reorder" \in CallKinds \ {"mount"} /\ "reorder" \notin OneSub /\ 0 \in Nat
  BY DEF CallKinds, OneSub
<1>10. /\ ids = [i \in DOMAIN panel'.rows |-> panel'.rows[i].id]
       /\ \A i \in DOMAIN panel'.rows :
             \E j \in DOMAIN panel.rows : panel'.rows[i] = panel.rows[j]
  BY <1>3, <1>4, <1>6
<1> QED
  BY <1>5, <1>6, <1>7, <1>8, <1>9, <1>10, SentKeeps

LEMMA PanelIInvInit ==
    ASSUME PanelAssumption, PanelInit
    PROVE  PanelIInv
<1>1. panel = [rows |-> <<>>, queueOn |-> FALSE, followed |-> FALSE, skipped |-> {}]
  BY DEF PanelInit
<1>2. panel \in PanelOf /\ OnePool(panel) /\ DOMAIN panel.rows = {}
  <2>1. <<>> \in Seq(Row) /\ DOMAIN <<>> = {}
    OBVIOUS
  <2> QED
    BY <1>1, <2>1 DEF PanelOf, OnePool
<1>3. calls = {Request(0, "mount", <<>>, 0, stage, TRUE) : stage \in {"status", "subs"}}
  BY DEF PanelInit
<1>4. \A c \in calls :
          /\ c \in CallSet /\ c.kind = "mount" /\ c.stage \in {"status", "subs"}
          /\ c.at = "out" /\ c.list = panel /\ c.before = panel /\ c.alone
  <2> SUFFICES ASSUME NEW c \in calls
               PROVE  /\ c \in CallSet /\ c.kind = "mount" /\ c.stage \in {"status", "subs"}
                      /\ c.at = "out" /\ c.list = panel /\ c.before = panel /\ c.alone
    OBVIOUS
  <2>1. PICK stage \in {"status", "subs"} : c = Request(0, "mount", <<>>, 0, stage, TRUE)
    BY <1>3
  <2>2. c = [n |-> 0, kind |-> "mount", ids |-> <<>>, num |-> 0, stage |-> stage,
             at |-> "out", list |-> panel, pending |-> FALSE, before |-> panel,
             sure |-> "rows" \notin behind, grew |-> 0, alone |-> TRUE]
    BY <2>1 DEF Request
  <2>3. "mount" \in CallKinds /\ <<>> \in Seq(Subs)
    BY DEF CallKinds
  <2> QED
    BY <1>2, <2>2, <2>3 DEF CallSet
<1>5. \A c, d \in calls : c.stage = d.stage => c = d
  <2> SUFFICES ASSUME NEW c \in calls, NEW d \in calls, c.stage = d.stage
               PROVE  c = d
    OBVIOUS
  <2>1. PICK v : c = Request(0, "mount", <<>>, 0, v, TRUE)
    BY <1>3
  <2>2. PICK w : d = Request(0, "mount", <<>>, 0, w, TRUE)
    BY <1>3
  <2>3. v = w
    BY <2>1, <2>2 DEF Request
  <2> QED
    BY <2>1, <2>2, <2>3
<1>6. PanelTypeOK
  <2>1. config \in ConfigOf
    BY DEF PanelInit, PanelAssumption, ConfigOf
  <2>2. panelLeft \in LeftOf
    BY DEF PanelInit, PanelAssumption, LeftOf
  <2>3. \A c \in calls : c \in CallSet /\ (c.kind \in OneSub => c.ids # <<>>)
    BY <1>4 DEF OneSub
  <2> QED
    BY <1>2, <2>1, <2>2, <2>3 DEF PanelInit, PanelTypeOK
<1>7. BusyInv /\ ~miscounted
  BY DEF PanelInit, BusyInv
<1>8. AloneInv
  BY <1>4, <1>5 DEF AloneInv
<1>9. BoxesInv
  BY <1>2, <1>4 DEF BoxesInv, BoxesTrue
<1>10. ListedInv /\ RestartInv
  BY DEF PanelInit, Both, ListedInv, RestartInv
<1>11. CallsInv
  BY <1>4 DEF CallsInv, ListTrue, StatusTrue, FollowTrue
<1> QED
  BY <1>6, <1>7, <1>8, <1>9, <1>10, <1>11 DEF PanelIInv

LEMMA PanelIInvNext ==
    ASSUME PanelAssumption, PanelIInv, [PanelNext]_panelVars
    PROVE  PanelIInv'
<1>1. CASE \/ RemoveRow \/ ThrowSwitch \/ ResolveNow \/ UnskipRow \/ UnfollowGame
           \/ FollowGames
           \/ \E s \in Subs : CardToggles(s)
           \/ \E s \in OfGame : CardFollows(s)
  BY <1>1, PageKeeps
<1>2. CASE TypesPoolSize
  BY <1>2, TypesPoolSizeKeeps
<1>3. CASE \E from, to \in DOMAIN panel.rows : Drags(from, to)
  BY <1>3, DragsKeeps
<1>4. ASSUME NEW c \in calls,
             \/ Handled(c) \/ TurnedDown(c) \/ ListAsked(c) \/ StatusAsked(c) \/ Lost(c)
             \/ PostDone(c) \/ PostFailed(c) \/ ListRead(c) \/ ListFailed(c) \/ StatusRead(c)
      PROVE  PanelIInv'
  BY <1>4, HandledKeeps, TurnedDownKeeps, ListAskedKeeps, StatusAskedKeeps, LostKeeps,
     PostDoneKeeps, PostFailedKeeps, ListReadKeeps, ListFailedKeeps, StatusReadKeeps
<1>5. CASE ConfigChanges
  BY <1>5, ConfigChangesKeeps
<1>6. CASE RestartChanges
  BY <1>6, RestartChangesKeeps
<1>7. CASE UNCHANGED panelVars
  <2>1. /\ UNCHANGED <<config, restartDue, panel, waiting, typed, busy, calls, panelLeft>>
        /\ UNCHANGED <<behind, unsaved, miscounted>> /\ Listing' = Listing
    BY <1>7 DEF panelVars, server, pageState, excuses, Listing, Place
  <2>2. PanelTypeOK' /\ BusyInv' /\ AloneInv' /\ ~miscounted'
    BY <2>1 DEF PanelIInv, PanelTypeOK, BusyInv, AloneInv
  <2>3. BoxesInv'
    BY <2>1 DEF PanelIInv, BoxesInv, BoxesTrue, OnePool
  <2>4. ListedInv'
    BY <2>1 DEF PanelIInv, ListedInv, RowsKnown, DragDrawn
  <2>5. RestartInv'
    BY <2>1 DEF PanelIInv, RestartInv, RestartKnown
  <2>6. CallsInv'
    BY <2>1 DEF PanelIInv, CallsInv, ListTrue, StatusTrue, FollowTrue, Added, Appeared
  <2> QED
    BY <2>2, <2>3, <2>4, <2>5, <2>6 DEF PanelIInv
<1> QED
  BY <1>1, <1>2, <1>3, <1>4, <1>5, <1>6, <1>7 DEF PanelNext

LEMMA PanelIInvImplies ==
    ASSUME PanelIInv
    PROVE  QuietPageIsCurrent
<1>1. ~miscounted /\ (calls = {} => busy = Nobody)
  BY DEF PanelIInv, BusyInv
<1>2. calls = {} /\ "restart" \notin behind => waiting = restartDue
  BY DEF PanelIInv, RestartInv
<1>3. calls = {} /\ "rows" \notin behind => panel = Listing
  BY DEF PanelIInv, ListedInv
<1>4. ASSUME panel = Listing, NEW s \in ToSet(config.order) \ unsaved
      PROVE  typed[s] = config.pool[s]
  <2>1. /\ DOMAIN Listing.rows = DOMAIN config.order
        /\ \A i \in DOMAIN config.order :
              Listing.rows[i] = [id |-> config.order[i], place |-> Place(i),
                                 pool |-> config.pool[config.order[i]]]
    BY ListingIs DEF PanelIInv
  <2>2. PICK i \in DOMAIN config.order : config.order[i] = s
    BY DEF ToSet
  <2>3. i \in DOMAIN panel.rows /\ panel.rows[i].id = s /\ panel.rows[i].pool = config.pool[s]
    <3>1. Listing.rows[i] = [id |-> s, place |-> Place(i), pool |-> config.pool[s]]
      BY <2>1, <2>2
    <3> QED
      BY <1>4, <2>1, <3>1
  <2> QED
    BY <1>4, <2>3 DEF PanelIInv, BoxesInv, BoxesTrue
<1> QED
  BY <1>1, <1>2, <1>3, <1>4 DEF QuietPageIsCurrent

\* The state of the panel and of its calls stays of its types.
THEOREM PanelIsTyped == PanelSpec => []PanelTypeOK
<1>1. PanelInit => PanelIInv
  BY PanelIInvInit, PanelAssumption
<1>2. PanelIInv /\ [PanelNext]_panelVars => PanelIInv'
  BY PanelIInvNext, PanelAssumption
<1>3. PanelIInv => PanelTypeOK
  BY DEF PanelIInv
<1> QED
  BY <1>1, <1>2, <1>3, PTL DEF PanelSpec

\* Once its calls have come back the Drops page says what the server has, but for what
\* it had no chance to learn (Drops.tsx: mutate, follow, reorder), whatever the
\* subscriptions, and however many calls cross, fail or are lost.
THEOREM QuietPageStaysCurrent == PanelSpec => []QuietPageIsCurrent
<1>1. PanelInit => PanelIInv
  BY PanelIInvInit, PanelAssumption
<1>2. PanelIInv /\ [PanelNext]_panelVars => PanelIInv'
  BY PanelIInvNext, PanelAssumption
<1>3. PanelIInv => QuietPageIsCurrent
  BY PanelIInvImplies
<1> QED
  BY <1>1, <1>2, <1>3, PTL DEF PanelSpec

=============================================================================
