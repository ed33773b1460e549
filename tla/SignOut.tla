------------------------------ MODULE SignOut ------------------------------
(***************************************************************************)
(* SignIn with a history variable that tells whether the last thing the    *)
(* user asked for is a sign-out, and whether it has completed.  A pending  *)
(* restart that fires (PendingFires) is not asked for.                     *)
(***************************************************************************)
EXTENDS SignIn

VARIABLE out    \* "begun" or "done": nothing was asked for since the sign-out

UserAsks ==
    \/ SignsIn
    \/ \E name \in Accounts : Applies(name)
    \/ \E kind \in {"start", "stop", "restart"} : AsksMiner(kind)

RunsOn ==
    \/ \E a \in Attempts : LoginHelper(a) \/ LoginEvents(a)
    \/ Escalates \/ Services \/ ApplyGoesOn \/ DropsCookies \/ DropsHelper \/ Rejected

\* A boot with a session, as only a session can be signed out of.
HistoryInit == Init /\ loggedIn /\ out = "no"

HistoryNext ==
    \/ UserAsks /\ out' = "no"
    \/ SignsOut /\ out' = "begun"
    \/ /\ RunsOn
       /\ out' = IF leaving # "no" /\ leaving' = "no" /\ out = "begun" THEN "done" ELSE out

HistorySpec == HistoryInit /\ [][HistoryNext]_<<vars, out>>

\* Login.tsx:190-191 tells the user that signing out stops the miner and that
\* they "will have to sign in again to resume mining": what was under way when
\* they signed out does not start it again, or mark them as signed in.
SignOutHolds ==
    out = "done" => ~loggedIn /\ (ops = <<>> => miner = NoMiner)

=============================================================================
