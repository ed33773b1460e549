------------------------------ MODULE MCLinks ------------------------------
(***************************************************************************)
(* Three links whose two ends have to agree although they fail, in one run *)
(* of TLC: the backend's client and the Python helper, the store and the   *)
(* stream it follows by polls and events, the tab and its connection.      *)
(* They share no state: a behaviour is one of one of them, while the       *)
(* others stay as they began.                                              *)
(***************************************************************************)
EXTENDS HelperClient, Sessions, LivePage

CONSTANT Links   \* those a run is about

VARIABLE link

all == <<link, clientVars, vars, pageVars>>

LinksInit ==
    /\ link \in Links
    /\ ClientInit /\ Init /\ PageInit
    /\ link = "page" \/ cookie      \* a page that is not running has one beginning

\* Only link l takes a step.
Only(l) ==
    /\ link = l /\ link' = l
    /\ IF l = "client" THEN TRUE ELSE UNCHANGED clientVars
    /\ IF l = "store" THEN TRUE ELSE UNCHANGED vars
    /\ IF l = "page" THEN TRUE ELSE UNCHANGED pageVars

LinksNext ==
    \/ Only("client") /\ ClientNext
    \/ Only("store") /\ Next
    \/ Only("page") /\ PageNext

\* ClientFairness, Fairness and PageFairness, of the link that is running.
LinksFairness ==
    /\ WF_clientVars(link = "client" /\ (ExitArrives \/ SpawnErrorArrives))
    /\ WF_clientVars(link = "client" /\ \E k \in Calls : GraceExpires(k))
    /\ WF_vars(link = "store" /\ Tick)
    /\ WF_vars(link = "store" /\ (Boot \/ Ring))
    /\ WF_vars(link = "store" /\ (Ask \/ LookUp \/ Apply))
    /\ WF_pageVars(link = "page" /\ StreamStep)
    /\ WF_pageVars(link = "page" /\ (GraceFires \/ ReconnectFires))
    /\ WF_pageVars(link = "page" /\ ProbeStep)
    /\ WF_pageVars(link = "page" /\ ComesUp)

LinksSpec == LinksInit /\ [][LinksNext]_all /\ LinksFairness

-----------------------------------------------------------------------------

\* In a behaviour of the store it ends up with the balance and the stream that
\* Twitch has, whatever was lost, delayed or overtaken (StoreCatchesUp).
StoreFollows == link = "store" => StoreCatchesUp

=============================================================================
