----------------------------- MODULE DraftPages ------------------------------
(***************************************************************************)
(* The pages that edit a draft of the whole config, Settings and Streamers *)
(* (frontend routes), against the draft the backend stages and the file    *)
(* (backend http/server.ts: /api/config and persistUsername), while a      *)
(* sign-in and the drops engine write the same file.                       *)
(*                                                                         *)
(* Applying is two calls, each handled and answered apart.  What a config  *)
(* means to the miner is Launch; how it is restarted is Supervisor.        *)
(***************************************************************************)
EXTENDS Naturals, Sequences, FiniteSets, SequencesExt

CONSTANTS
    Tabs,
    Logins,     \* channels a user may add, and NewOwned, one the engine may
    NewOwned,
    FirstFile,  \* the file at the beginning, [name, miner, rows]
    NewName,    \* the account a sign-in ends with
    Budgets     \* bounds: how much of each thing one behaviour may do

VARIABLES
    file,       \* config.json
    staged,     \* backend: the staged config, or Nothing
    tab,        \* of each tab: [saved, draft, phase, sent, told]
    lookups,    \* the additions being looked up: [tab, login, draft]
    left,       \* what of its budget a behaviour has left
    held,       \* history: what the file has held, but for the name
    confirmed,  \* history: the name the last sign-in ended with
    excused     \* history: tabs whose applies crossed another's, and stale names

vars == <<file, staged, tab, lookups, left, held, confirmed, excused>>

Nothing == [name |-> "nothing", miner |-> 0, rows |-> <<>>]
Row(login, owned, on) == [login |-> login, owned |-> owned, on |-> on]
LoginsOf(rows) == {r.login : r \in ToSet(rows)}
Anonymous(c)   == [c EXCEPT !.name = "any"]
Spends(what)   == left[what] > 0 /\ left' = [left EXCEPT ![what] = @ - 1]

Changes(t, new) == tab' = [tab EXCEPT ![t] = new]

-----------------------------------------------------------------------------
(* Editing.                                                                *)

\* GET /api/config
Current == IF staged # Nothing THEN staged ELSE file

Opened(c) == [saved |-> c, draft |-> c, phase |-> "idle", sent |-> c, told |-> "nothing"]

Backend == UNCHANGED <<file, staged, held, confirmed, excused>>
Edits(t, draft) ==
    /\ Spends("edits")
    /\ Changes(t, [tab[t] EXCEPT !.draft = draft])
    /\ UNCHANGED lookups /\ Backend

Loads(t) ==
    /\ tab[t].phase = "idle" /\ Spends("loads")
    /\ Changes(t, Opened(Current))
    /\ lookups' = {l \in lookups : l.tab # t}
    /\ Backend

\* Settings: a field of the miner's.
SetsField(t) == Edits(t, [tab[t].draft EXCEPT !.miner = 1 - @])

\* Streamers: toggle(), on any row that is the user's own.
TogglesRow(t, i) ==
    /\ ~tab[t].draft.rows[i].owned
    /\ Edits(t, [tab[t].draft EXCEPT !.rows[i].on = ~@])

RemovesRow(t, i) ==
    /\ ~tab[t].draft.rows[i].owned
    /\ Edits(t, [tab[t].draft EXCEPT !.rows = RemoveAt(@, i)])

\* arrayMove()
Moved(s, from, to) == InsertAt(RemoveAt(s, from), to, s[from])

\* handleDragEnd(): the user's rows are moved among themselves and put back
\* into the slots they had.
Dragged(rows, from, to) ==
    LET manual == SelectSeq(rows, LAMBDA r : ~r.owned)
        moved  == Moved(manual, from, to)
        Nth(i) == Cardinality({j \in 1..i : ~rows[j].owned})
    IN  [i \in DOMAIN rows |-> IF rows[i].owned THEN rows[i] ELSE moved[Nth(i)]]

ManualCount(rows) == Len(SelectSeq(rows, LAMBDA r : ~r.owned))

Drags(t, from, to) ==
    /\ from # to /\ {from, to} \subseteq 1..ManualCount(tab[t].draft.rows)
    /\ Edits(t, [tab[t].draft EXCEPT !.rows = Dragged(@, from, to)])

\* add(): the lookup is awaited with the draft of the moment it was asked.
Adds(t, login) ==
    /\ login \notin LoginsOf(tab[t].draft.rows)
    /\ Spends("edits")
    /\ lookups' = lookups \cup {[tab |-> t, login |-> login, draft |-> tab[t].draft]}
    /\ UNCHANGED tab /\ Backend

LookupAnswers(l) ==
    /\ lookups' = lookups \ {l}
    /\ \/ Changes(l.tab, [tab[l.tab] EXCEPT
             !.draft = [l.draft EXCEPT !.rows = Append(@, Row(l.login, FALSE, TRUE))]])
       \/ UNCHANGED tab       \* no such user, or the lookup failed
    /\ UNCHANGED left /\ Backend

\* countChanges(): what the bar says is pending on a page.
PendingInSettings(t)  == tab[t].saved # tab[t].draft
PendingInStreamers(t) == tab[t].saved.rows # tab[t].draft.rows

-----------------------------------------------------------------------------
(* Applying.                                                               *)

Applies(t) ==
    /\ tab[t].phase = "idle" /\ (PendingInSettings(t) \/ PendingInStreamers(t))
    /\ Spends("applies")
    /\ Changes(t, [tab[t] EXCEPT !.phase = "put", !.sent = tab[t].draft, !.told = "nothing"])
    /\ UNCHANGED <<file, staged, lookups, held, confirmed>>
    /\ excused' = excused \cup
         IF \E u \in Tabs \ {t} : tab[u].phase # "idle" THEN Tabs ELSE {}

\* PUT /api/config: a draft of before a sign-in brings its old name along.
PutHandled(t) ==
    /\ tab[t].phase = "put"
    /\ staged' = tab[t].sent
    /\ Changes(t, [tab[t] EXCEPT !.phase = "post"])
    /\ excused' = excused
         \cup (IF tab[t].sent.name # confirmed THEN {"name"} ELSE {})
         \cup {u \in Tabs \ {t} : tab[u].told = "pending"}
    /\ UNCHANGED <<file, lookups, left, held, confirmed>>

\* POST /api/config/apply: the file cannot be written, and the draft is kept.
SaveFails(t) ==
    /\ tab[t].phase = "post" /\ staged # Nothing /\ Spends("faults")
    /\ Changes(t, [tab[t] EXCEPT !.phase = "idle", !.told = "pending"])
    /\ UNCHANGED <<file, staged, lookups, held, confirmed, excused>>

\* The file is written; then the miner is restarted, or that fails.
Saved(t, told) ==
    /\ tab[t].phase = "post"
    /\ IF staged = Nothing THEN UNCHANGED <<file, held>>
       ELSE file' = staged /\ held' = held \cup {Anonymous(staged)}
    /\ staged' = Nothing
    /\ Changes(t, [tab[t] EXCEPT !.phase = "reply", !.told = told])
    /\ excused' = excused \cup {u \in Tabs \ {t} : tab[u].told = "pending"}
    /\ UNCHANGED <<lookups, confirmed>>

Applied(t) == Saved(t, "applied") /\ UNCHANGED left
RestartFails(t) == staged # Nothing /\ Saved(t, "saved, not restarted") /\ Spends("faults")

\* apply() goes on: what was sent is what is saved, and later edits stay pending.
Returns(t) ==
    /\ tab[t].phase = "reply"
    /\ Changes(t, [tab[t] EXCEPT !.phase = "idle",
                                 !.saved = IF tab[t].told = "applied" THEN tab[t].sent ELSE @])
    /\ UNCHANGED <<lookups, left>> /\ Backend

\* A call or its reply is lost: the page only says so.
CallLost(t) ==
    /\ tab[t].phase \in {"put", "post", "reply"} /\ Spends("faults")
    /\ Changes(t, [tab[t] EXCEPT !.phase = "idle", !.told = "failed"])
    /\ UNCHANGED lookups /\ Backend

-----------------------------------------------------------------------------
(* Other writers.                                                          *)

\* Mutant: the staged draft keeps the name it has.
StagedAsItWas == staged

\* persistUsername(): the file and the staged draft get the name.
StagedRenamed == IF staged = Nothing THEN staged ELSE [staged EXCEPT !.name = NewName]

SignsIn ==
    /\ Spends("others") /\ file.name # NewName
    /\ file' = [file EXCEPT !.name = NewName]
    /\ staged' = StagedRenamed
    /\ confirmed' = NewName
    /\ UNCHANGED <<tab, lookups, held, excused>>

\* A pass of the engine adds a row of its own, or takes those it has away.
EnginePasses ==
    /\ Spends("others")
    /\ file' \in {[file EXCEPT !.rows = SelectSeq(@, LAMBDA r : ~r.owned)]} \cup
          (IF NewOwned \in LoginsOf(file.rows) THEN {}
           ELSE {[file EXCEPT !.rows = Append(@, Row(NewOwned, TRUE, TRUE))]})
    /\ held' = held \cup {Anonymous(file')}
    /\ UNCHANGED <<staged, tab, lookups, confirmed, excused>>

Init ==
    /\ file = FirstFile /\ staged = Nothing
    /\ tab = [t \in Tabs |-> Opened(file)]
    /\ lookups = {} /\ left \in Budgets
    /\ held = {Anonymous(file)} /\ confirmed = file.name /\ excused = {}

Next ==
    \/ \E t \in Tabs :
          \/ Loads(t) \/ SetsField(t) \/ Applies(t)
          \/ \E i \in DOMAIN tab[t].draft.rows : TogglesRow(t, i) \/ RemovesRow(t, i)
          \/ \E i, j \in DOMAIN tab[t].draft.rows : Drags(t, i, j)
          \/ \E login \in Logins : Adds(t, login)
          \/ PutHandled(t) \/ SaveFails(t) \/ Applied(t) \/ RestartFails(t) \/ Returns(t)
          \/ CallLost(t)
    \/ \E l \in lookups : LookupAnswers(l)
    \/ SignsIn \/ EnginePasses

Spec == Init /\ [][Next]_vars

-----------------------------------------------------------------------------
\* What a page shows as saved the file did hold, or it was staged when the page
\* was opened, whatever failed between; only the applies of two tabs may take
\* one for the other (server.ts:539-545, Settings.tsx: apply).
SavedWasHeld ==
    \A t \in Tabs \ excused :
        tab[t].told = "applied" /\ tab[t].phase = "idle" => Anonymous(tab[t].sent) \in held

\* What could not be written is still pending, as the page is told, until
\* another apply replaces it.
PendingIsStaged ==
    \A t \in Tabs \ excused :
        tab[t].told = "pending" => Anonymous(staged) = Anonymous(tab[t].sent)

\* The name of the last sign-in stays in the file, unless a page that was opened
\* before it applies its draft (server.ts:416-418).
NameStays == "name" \notin excused => file.name = confirmed

\* No draft has a channel twice or moves a row of the engine's: whichever way
\* its rows are dragged, they are the same rows and the owned ones in place.
RowsAreKept ==
    \A t \in Tabs :
        LET rows == tab[t].draft.rows
        IN  /\ Cardinality(LoginsOf(rows)) = Len(rows)
            /\ \A i, j \in 1..ManualCount(rows) :
                  /\ ToSet(Dragged(rows, i, j)) = ToSet(rows)
                  /\ \A k \in DOMAIN rows : rows[k].owned => Dragged(rows, i, j)[k] = rows[k]

DraftsAreSafe == SavedWasHeld /\ PendingIsStaged /\ NameStays /\ RowsAreKept

=============================================================================
