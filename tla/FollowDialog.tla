---------------------------- MODULE FollowDialog ----------------------------
(***************************************************************************)
(* Following games: the dialog that searches Twitch's categories and       *)
(* gathers picks over several searches (frontend FollowGamesDialog.tsx),   *)
(* the search behind it (backend twitch/categories.ts), and the route that *)
(* looks each pick up again before it saves it.                            *)
(*                                                                         *)
(* The hazards are answers that come late: of a search that was typed over, *)
(* of lookups during which another tab followed or unfollowed the same      *)
(* game, and a failure that would read as "no such game".                   *)
(***************************************************************************)
EXTENDS Integers, Sequences, FiniteSets, SequencesExt

CONSTANTS
    Queries,      \* what is typed, long enough to be searched
    Named,        \* of each query, Twitch's matches by name
    Exact,        \* of each query, at most one game whose id it is
    MaxResults,   \* MAX_RESULTS
    MaxIds,       \* ids the route takes in one call
    DialogBudgets \* what may happen in a behaviour; each bounds a counter

VARIABLES
    dialog,     \* [opened, query, debounced, picked, saving, failed]
    search,     \* what the dialog shows: [state, of, games]
    asked,      \* searches that are out: [of, live]
    known,      \* the page's list of followed games
    twitch,     \* the games there are
    followed,   \* the config's followedGames, in order
    followCalls,\* follow calls: [ids, by, stage, found]
    removed,    \* history: games unfollowed since the dialog's last confirm
    dialogLeft  \* what remains of the budget

dialogVars == <<dialog, search, asked, known, twitch, followed, followCalls, removed,
                dialogLeft>>

Empty == ""
Games == UNION {ToSet(Named[q]) \cup Exact[q] : q \in Queries}

ASSUME FollowDialogAssumption ==
    /\ Empty \notin Queries
    /\ MaxResults \in Nat \ {0} /\ MaxIds \in Nat
    /\ \A q \in Queries :
        /\ Named[q] \in Seq(Games) /\ IsInjective(Named[q])
        /\ \A g, h \in Exact[q] : g = h

DialogSpends(what) == dialogLeft[what] > 0 /\ dialogLeft' = [dialogLeft EXCEPT ![what] = @ - 1]

-----------------------------------------------------------------------------
(* The search.                                                             *)

\* The list without these games, in its order (a filter).
Without(list, games) ==
    LET kept[n \in 0..Len(list)] ==
            IF n = 0 THEN <<>>
            ELSE IF list[n] \in games THEN kept[n - 1]
            ELSE Append(kept[n - 1], list[n])
    IN  kept[Len(list)]

\* find: the game whose id was typed comes first, and once.
Find(q) ==
    LET exact == SetToSeq(Exact[q])
        found == exact \o Without(Named[q], Exact[q])
    IN  SubSeq(found, 1, IF Len(found) > MaxResults THEN MaxResults ELSE Len(found))

Types ==
    /\ dialog.opened /\ DialogSpends("words")
    /\ \E q \in (Queries \cup {Empty}) \ {dialog.query} :
        dialog' = [dialog EXCEPT !.query = q]
    /\ UNCHANGED <<search, asked, known, twitch, followed, followCalls, removed>>

\* The effect on a query that has settled: the search before it is dropped.
Settles ==
    /\ dialog.debounced # dialog.query
    /\ dialog' = [dialog EXCEPT !.debounced = dialog.query]
    /\ LET older == {[a EXCEPT !.live = FALSE] : a \in asked}
           q     == dialog.query
       IN  /\ asked' = IF q = Empty THEN older ELSE older \cup {[of |-> q, live |-> TRUE]}
           /\ search' = [state |-> IF q = Empty THEN "short" ELSE "loading",
                         of |-> q, games |-> <<>>]
    /\ UNCHANGED <<known, twitch, followed, followCalls, removed, dialogLeft>>

\* live: no later search has been made.
Heeded(a) == a.live

SearchAnswers ==
    /\ \E a \in asked :
        /\ asked' = asked \ {a}
        /\ search' = IF Heeded(a) THEN [state |-> "done", of |-> a.of, games |-> Find(a.of)]
                     ELSE search
    /\ UNCHANGED <<dialog, known, twitch, followed, followCalls, removed, dialogLeft>>

\* Twitch cannot be asked: a 502, and never an empty list.
SearchFails ==
    /\ DialogSpends("faults")
    /\ \E a \in asked :
        /\ asked' = asked \ {a}
        /\ search' = IF Heeded(a) THEN [search EXCEPT !.state = "error", !.games = <<>>]
                     ELSE search
    /\ UNCHANGED <<dialog, known, twitch, followed, followCalls, removed>>

-----------------------------------------------------------------------------
(* The dialog.                                                             *)

Opens ==
    /\ ~dialog.opened /\ DialogSpends("visits")
    /\ dialog' = [dialog EXCEPT !.opened = TRUE]
    /\ UNCHANGED <<search, asked, known, twitch, followed, followCalls, removed>>

\* toggle: a result that is not followed, as far as the page knows, or a pill.
Toggles ==
    /\ dialog.opened /\ DialogSpends("picks")
    /\ \E g \in (ToSet(search.games) \ known) \cup dialog.picked :
        dialog' = [dialog EXCEPT !.picked = IF g \in @ THEN @ \ {g} ELSE @ \cup {g}]
    /\ UNCHANGED <<search, asked, known, twitch, followed, followCalls, removed>>

\* close(): the words and the picks go, whatever is under way.
Shut(d) == [d EXCEPT !.opened = FALSE, !.query = Empty, !.picked = {}, !.failed = FALSE]

DialogCloses ==
    /\ dialog.opened /\ dialog' = Shut(dialog)
    /\ UNCHANGED <<search, asked, known, twitch, followed, followCalls, removed, dialogLeft>>

Call(ids, by) == [ids |-> ids, by |-> by, stage |-> "sent", found |-> {}]

\* confirm(): the button is inert without picks, and while it saves.
Confirms ==
    /\ dialog.opened /\ dialog.picked # {} /\ ~dialog.saving
    /\ dialog' = [dialog EXCEPT !.saving = TRUE, !.failed = FALSE]
    /\ followCalls' = followCalls \cup {Call(dialog.picked, "dialog")}
    /\ removed' = {}
    /\ UNCHANGED <<search, asked, known, twitch, followed, dialogLeft>>

\* It is saved: the page reads its list again and the dialog closes.  Or it is not,
\* and the dialog stays with its picks.
Returns ==
    \E f \in followCalls :
        /\ f.by = "dialog" /\ f.stage \in {"done", "failed"}
        /\ followCalls' = followCalls \ {f}
        /\ known' = IF f.stage = "done" THEN ToSet(followed) ELSE known
        /\ dialog' = LET freed == [dialog EXCEPT !.saving = FALSE]
                     IN  IF f.stage = "done" THEN Shut(freed) ELSE [freed EXCEPT !.failed = TRUE]
        /\ UNCHANGED <<search, asked, twitch, followed, removed, dialogLeft>>

-----------------------------------------------------------------------------
(* The route.                                                              *)

CallBecomes(f, g) == followCalls' = (followCalls \ {f}) \cup {g}

\* Of the ids, those that are not followed yet are looked up on Twitch, together.
LooksUp ==
    \E f \in followCalls :
        /\ f.stage = "sent"
        /\ CallBecomes(f, IF Cardinality(f.ids) > MaxIds THEN [f EXCEPT !.stage = "failed"]
                          ELSE [f EXCEPT !.stage = "looking",
                                         !.found = (f.ids \ ToSet(followed)) \cap twitch])
        /\ UNCHANGED <<dialog, search, asked, known, twitch, followed, removed, dialogLeft>>

\* One lookup fails: nothing is saved.
LookupFails ==
    /\ DialogSpends("faults")
    /\ \E f \in followCalls :
        f.stage = "looking" /\ CallBecomes(f, [f EXCEPT !.stage = "failed"])
    /\ UNCHANGED <<dialog, search, asked, known, twitch, followed, removed>>

\* Mutant: what was not followed when the lookups began.
AddedAsLookedUp(f) == f.found

\* What is saved: the config is read again, as another call may have saved since.
Added(f) == f.found \ ToSet(followed)

Saves ==
    \E f \in followCalls :
        /\ f.stage = "looking"
        /\ followed' = followed \o SetToSeq(Added(f))
        /\ CallBecomes(f, [f EXCEPT !.stage = "done"])
        /\ UNCHANGED <<dialog, search, asked, known, twitch, removed, dialogLeft>>

\* Another tab follows a game, or unfollows one.
FollowedElsewhere ==
    /\ DialogSpends("elsewhere")
    /\ \E g \in Games : followCalls' = followCalls \cup {Call({g}, "another")}
    /\ UNCHANGED <<dialog, search, asked, known, twitch, followed, removed>>

UnfollowedElsewhere ==
    /\ DialogSpends("elsewhere")
    /\ \E g \in ToSet(followed) :
        /\ followed' = Without(followed, {g})
        /\ removed' = removed \cup {g}
    /\ UNCHANGED <<dialog, search, asked, known, twitch, followCalls>>

\* Twitch withdraws a game between the search and the follow.
GameGoes ==
    /\ DialogSpends("gone")
    /\ \E g \in twitch : twitch' = twitch \ {g}
    /\ UNCHANGED <<dialog, search, asked, known, followed, followCalls, removed>>

DialogInit ==
    /\ dialogLeft \in DialogBudgets
    /\ dialog = [opened |-> FALSE, query |-> Empty, debounced |-> Empty, picked |-> {},
                 saving |-> FALSE, failed |-> FALSE]
    /\ search = [state |-> "short", of |-> Empty, games |-> <<>>]
    /\ asked = {} /\ known = {} /\ twitch = Games
    /\ followed = <<>> /\ followCalls = {} /\ removed = {}

DialogNext ==
    \/ Types \/ Settles \/ SearchAnswers \/ SearchFails
    \/ Opens \/ Toggles \/ DialogCloses \/ Confirms \/ Returns
    \/ LooksUp \/ LookupFails \/ Saves
    \/ FollowedElsewhere \/ UnfollowedElsewhere \/ GameGoes

DialogSpec == DialogInit /\ [][DialogNext]_dialogVars

-----------------------------------------------------------------------------
(* What following may do.                                                  *)

\* The results are those of the words they stand under, however late an older search
\* answers; "No matching games" is only said of words that match none, and a game
\* whose id was typed is not pushed out by the names.
SearchIsHonest ==
    /\ search.state = "done" =>
        /\ search.of = dialog.debounced
        /\ search.games = <<>> => Named[search.of] = <<>> /\ Exact[search.of] = {}
        /\ Exact[search.of] \subseteq ToSet(search.games)
        /\ IsInjective(search.games)
    /\ search.state = "loading" => \E a \in asked : a.live /\ a.of = search.of

\* No game is followed twice, whatever two tabs follow at once.
FollowedOnce == IsInjective(followed)

\* A follow that the dialog is told has worked left every game it was for followed,
\* unless Twitch no longer has it or somebody unfollowed it meanwhile.
FollowIsDone ==
    \A f \in followCalls : f.by = "dialog" /\ f.stage = "done" =>
        f.ids \cap twitch \subseteq ToSet(followed) \cup removed

FollowsAreHonest == SearchIsHonest /\ FollowedOnce /\ FollowIsDone

=============================================================================
