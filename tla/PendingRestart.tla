--------------------------- MODULE PendingRestart ---------------------------
(***************************************************************************)
(* A restart the drops engine wants, held back so that a human can veto    *)
(* it: PendingRestart (drops/pendingRestart.ts) with what it tells the     *)
(* user's devices (notify/sources/restart.ts, notify/notifier.ts) and the  *)
(* single-use token in the Cancel button (notify/actions.ts).  A proposal  *)
(* is a number; restart() is a call of the supervisor that ends later, so  *)
(* a new proposal may be made while the last one's restart is under way.   *)
(* Time is counted down, never up: dueIn is what is left of a deadline.    *)
(***************************************************************************)
EXTENDS Naturals, FiniteSets

CONSTANTS Devices,       \* the destinations of notifications
          Reasons,       \* why the engine wants a restart
          NoReason,
          Short, Long,   \* RESTART_DEFERRAL_MS and NOTIFIED_DEFERRAL_MS
          MaxProposals   \* bound on the proposals made

ASSUME DeferralAssumption ==
  /\ Short \in Nat \ {0}
  /\ Long \in Nat \ {0}

ASSUME ProposalsAssumption == MaxProposals \in Nat

ASSUME ReasonAssumption == NoReason \notin Reasons

VARIABLES
  made,      \* the number of proposals made so far
  timer,     \* the timer field: the proposal that is pending, or None
  dueIn,     \* what is left until dueAt
  reason,
  armed,     \* the timeouts Node will call back: who armed it, what is left
  firing,    \* the proposals whose restart() is under way; None for one
             \* that was forced with nothing pending
  tokens,    \* the tokens that can be redeemed: for which proposal, until when
  enabled,   \* the destinations switched on
  quiet,     \* the destinations that do not want the kind now
  tagged,    \* who received the latest notification tagged restart
  told,      \* history: who received the notification of each proposal
  outcome,   \* history: what became of each proposal
  decided,   \* history: who decided last, and about which proposal
  sent       \* history: the last notification published

pendingVars == <<made, timer, dueIn, reason, armed, firing>>
noteVars == <<tokens, tagged, told, sent>>
prefVars == <<enabled, quiet>>
vars == <<pendingVars, noteVars, prefVars, outcome, decided>>

None == 0
Proposals == 1 .. MaxProposals
Delay == 0 .. (Short + Long)

Outcome == {"none", "pending", "cancelled", "restarting", "restarted", "failed", "dropped"}

(* One millisecond, or one minute, less. *)
Less(d) == IF d = 0 THEN 0 ELSE d - 1

-----------------------------------------------------------------------------
(* Notifications. *)

Wanting == enabled \ quiet

(* A phone in a pocket needs longer than the dashboard's banner. *)
Deferral == IF Wanting = {} THEN Short ELSE Long

(* A follow-up goes to whoever got the latest notification of its tag,      *)
(* whatever their preferences now say.                                      *)
Recipients(followUp) == IF followUp THEN enabled \cap tagged ELSE Wanting

Publish(n, kind) ==
  LET followUp == kind # "pending"
      to == Recipients(followUp)
  IN  /\ sent' = [about |-> n, kind |-> kind, to |-> to]
      /\ tagged' = IF followUp THEN tagged ELSE to
      /\ told' = IF followUp THEN told ELSE [told EXCEPT ![n] = to]

(* Minting sweeps the tokens that have expired. *)
Minted(n, d) == {t \in tokens : t.dueIn > 0} \cup {[for |-> n, dueIn |-> d]}

-----------------------------------------------------------------------------
(* The deferral. *)

(* Mutant: the handle is forgotten without a clearTimeout. *)
LeftArmed(timeouts) == timeouts

(* clearTimeout: the timeouts that remain once the pending one is cleared. *)
Cleared(timeouts) == {a \in timeouts : a.for # timer}

Clear(timeouts) ==
  /\ timer' = None
  /\ dueIn' = 0
  /\ reason' = NoReason
  /\ armed' = Cleared(timeouts)

(* Mutant: a renewal starts the deferral over. *)
StartedOver == [dueIn |-> Deferral, armed |-> {[for |-> timer, left |-> Deferral]}]

(* A second proposal neither stacks a timeout nor moves the deadline. *)
Renewed == [dueIn |-> dueIn, armed |-> armed]

Renew(r) ==
  /\ timer # None
  /\ reason' = r
  /\ dueIn' = Renewed.dueIn
  /\ armed' = Renewed.armed
  /\ UNCHANGED <<made, timer, firing, noteVars, prefVars, outcome, decided>>

(* Two deadlines are never the same instant: the code tells proposals apart *)
(* by their dueAt, in milliseconds.                                         *)
DistinctDeadline(d) == \A t \in tokens : t.dueIn # d

Propose(r) ==
  LET n == made + 1 IN
  /\ timer = None
  /\ made < MaxProposals
  /\ DistinctDeadline(Deferral)
  /\ made' = n
  /\ timer' = n
  /\ dueIn' = Deferral
  /\ reason' = r
  /\ armed' = armed \cup {[for |-> n, left |-> Deferral]}
  /\ outcome' = [outcome EXCEPT ![n] = "pending"]
  /\ tokens' = Minted(n, Deferral)
  /\ Publish(n, "pending")
  /\ UNCHANGED <<firing, prefVars, decided>>

(* cancel(via).  With nothing pending it only announces so. *)
CancelPending(via, n) ==
  /\ Clear(armed)
  /\ decided' = [by |-> via, about |-> n]
  /\ IF timer = None
     THEN UNCHANGED <<outcome, tagged, told, sent>>
     ELSE /\ outcome' = [outcome EXCEPT ![timer] = "cancelled"]
          /\ Publish(timer, "cancelled")
  /\ UNCHANGED <<made, firing, prefVars>>

CancelOnDashboard == CancelPending("dashboard", timer) /\ UNCHANGED tokens

(* fire(), up to the call of restart(): the pending state is cleared first. *)
(* It restarts the miner whether or not anything was pending.               *)
Fire(by, n, timeouts) ==
  /\ Clear(timeouts)
  /\ decided' = [by |-> by, about |-> n]
  /\ firing' = firing \cup {timer}
  /\ outcome' = IF timer = None THEN outcome ELSE [outcome EXCEPT ![timer] = "restarting"]
  /\ UNCHANGED <<made, noteVars, prefVars>>

TimerFires(a) ==
  /\ a \in armed
  /\ a.left = 0
  /\ Fire("timer", a.for, armed \ {a})

FireNow == Fire("now", timer, armed)

(* restart() resolves or throws; either way the told devices hear of it,  *)
(* unless nothing was pending (wasPending).                               *)
RestartEnds(n, ok) ==
  /\ n \in firing
  /\ firing' = firing \ {n}
  /\ IF n = None
     THEN UNCHANGED <<outcome, tagged, told, sent>>
     ELSE /\ outcome' = [outcome EXCEPT ![n] = IF ok THEN "restarted" ELSE "failed"]
          /\ Publish(n, IF ok THEN "restarted" ELSE "failed")
  /\ UNCHANGED <<made, timer, dueIn, reason, armed, tokens, prefVars, decided>>

(* Mutant: a token cancels whatever is pending. *)
CancelsAny(t) == t.dueIn > 0 /\ timer # None

(* What a token may cancel: the restart that is pending, if it is due when  *)
(* the notification said.                                                   *)
Cancels(t) == t.dueIn > 0 /\ timer # None /\ dueIn = t.dueIn

(* A tap on Cancel.  The token is used up whatever it does. *)
Redeem(t) ==
  /\ t \in tokens
  /\ tokens' = tokens \ {t}
  /\ IF Cancels(t)
     THEN CancelPending("notification", t.for)
     ELSE UNCHANGED <<pendingVars, tagged, told, sent, prefVars, outcome, decided>>

-----------------------------------------------------------------------------
(* The surroundings. *)

Tick ==
  /\ dueIn' = Less(dueIn)
  /\ armed' = {[for |-> a.for, left |-> Less(a.left)] : a \in armed}
  /\ tokens' = {[for |-> t.for, dueIn |-> Less(t.dueIn)] : t \in tokens}
  /\ UNCHANGED <<made, timer, reason, firing, tagged, told, sent, prefVars, outcome, decided>>

(* The user switches a device on or off, or its quiet hours begin or end. *)
Prefer(d) ==
  /\ \/ enabled' = (IF d \in enabled THEN enabled \ {d} ELSE enabled \cup {d}) /\ UNCHANGED quiet
     \/ quiet' = (IF d \in quiet THEN quiet \ {d} ELSE quiet \cup {d}) /\ UNCHANGED enabled
  /\ UNCHANGED <<pendingVars, noteVars, outcome, decided>>

(* The backend restarts: all of this lives in memory, the preferences do not. *)
BackendRestarts ==
  /\ timer' = None
  /\ dueIn' = 0
  /\ reason' = NoReason
  /\ armed' = {}
  /\ firing' = {}
  /\ tokens' = {}
  /\ tagged' = {}
  /\ outcome' = [n \in Proposals |->
                   IF outcome[n] \in {"pending", "restarting"} THEN "dropped" ELSE outcome[n]]
  /\ UNCHANGED <<made, told, sent, prefVars, decided>>

Init ==
  /\ made = 0
  /\ timer = None
  /\ dueIn = 0
  /\ reason = NoReason
  /\ armed = {}
  /\ firing = {}
  /\ tokens = {}
  /\ enabled \in SUBSET Devices
  /\ quiet = {}
  /\ tagged = {}
  /\ told = [n \in Proposals |-> {}]
  /\ outcome = [n \in Proposals |-> "none"]
  /\ decided = [by |-> "nobody", about |-> None]
  /\ sent = [about |-> None, kind |-> "pending", to |-> {}]

Next ==
  \/ \E r \in Reasons : Propose(r)
  \/ \E r \in Reasons : Renew(r)
  \/ CancelOnDashboard
  \/ FireNow
  \/ \E a \in armed : TimerFires(a)
  \/ \E n \in firing, ok \in BOOLEAN : RestartEnds(n, ok)
  \/ \E t \in tokens : Redeem(t)
  \/ Tick
  \/ \E d \in Devices : Prefer(d)
  \/ BackendRestarts

Spec == Init /\ [][Next]_vars

(* Time passes, Node runs a timeout that is due, and restart() ends. *)
Fairness ==
  /\ WF_vars(Tick)
  /\ WF_vars(\E a \in armed : TimerFires(a))
  /\ \A n \in Proposals : WF_vars(\E ok \in BOOLEAN : RestartEnds(n, ok))

FairSpec == Spec /\ Fairness

-----------------------------------------------------------------------------
(* Types: a timeout, a token and a notification each name a proposal made. *)
Timeout == [for : Proposals, left : Delay]
Token == [for : Proposals, dueIn : Delay]

TypeOK ==
  /\ made \in 0 .. MaxProposals
  /\ timer \in 0 .. made
  /\ dueIn \in Delay
  /\ reason \in Reasons \cup {NoReason}
  /\ armed \subseteq Timeout
  /\ firing \subseteq 0 .. made
  /\ tokens \subseteq Token
  /\ enabled \subseteq Devices
  /\ quiet \subseteq Devices
  /\ tagged \subseteq Devices
  /\ told \in [Proposals -> SUBSET Devices]
  /\ outcome \in [Proposals -> Outcome]
  /\ decided \in [by : {"nobody", "dashboard", "notification", "now", "timer"},
                  about : 0 .. MaxProposals]
  /\ sent \in [about : 0 .. MaxProposals, kind : Outcome, to : SUBSET Devices]

(* The miner is restarted for the proposal that is pending, by its own       *)
(* timeout not before the deadline the user was given, or because the user   *)
(* presses "now".  Only that also restarts it with nothing pending: a second *)
(* press, or one of a page that has not heard of a veto yet (fireNow(),      *)
(* http/server.ts:1160).                                                     *)
AsksForRestart ==
  (decided' # decided /\ decided'.by = "timer") \/ firing' \ firing # {}

FiresWhatIsDue ==
  AsksForRestart =>
    /\ decided'.about = timer
    /\ \A n \in firing' \ firing : n = timer
    /\ timer = None => decided'.by = "now"
    /\ timer # None => outcome[timer] = "pending"
    /\ decided'.by # "now" => decided'.by = "timer" /\ dueIn = 0

OnlyDueProposalsRestart == [][FiresWhatIsDue]_vars

(* What became of a proposal does not change: one that was vetoed never      *)
(* restarts the miner, and one that restarts it cannot be reported vetoed    *)
(* while restart() is still under way (drops/pendingRestart.ts, fire).       *)
Follows(now, next) ==
  \/ now = next
  \/ now = "none" /\ next = "pending"
  \/ now = "pending" /\ next \in {"cancelled", "restarting", "dropped"}
  \/ now = "restarting" /\ next \in {"restarted", "failed", "dropped"}

KeepsOutcomes == \A n \in Proposals : Follows(outcome[n], outcome'[n])

VetoIsFinal == [][KeepsOutcomes]_vars

(* Unless the user presses "now", the miner restarts for a proposal that is   *)
(* due; and for no proposal twice, nor for one that was vetoed.               *)
RestartsAreWanted == OnlyDueProposalsRestart /\ VetoIsFinal

(* The Cancel button of a notification vetoes the restart it announced and   *)
(* no other (notify/actions.ts, "an old token can never cancel it").         *)
CancelsItsOwn ==
  (decided' # decided /\ decided'.by = "notification")
    => timer # None /\ decided'.about = timer

TokenCancelsItsRestart == [][CancelsItsOwn]_vars

(* As long as no newer restart has been announced, how a restart ended is    *)
(* told to exactly the devices that were told of it and are still on,        *)
(* whatever their preferences have become (notify/notifier.ts, tagged).      *)
TellsTheTold ==
  (sent' # sent /\ sent'.kind # "pending" /\ sent'.about = made)
    => sent'.to = told[made] \cap enabled

FollowUpsGoToTheTold == [][TellsTheTold]_vars

(* A notification stands for one restart, on the device that shows it.        *)
TokensKnowTheirRestart == TokenCancelsItsRestart /\ FollowUpsGoToTheTold

(* However often the engine renews its proposal, a restart that was proposed *)
(* is vetoed or carried out (or the backend restarts).                       *)
EveryProposalResolves ==
  \A n \in Proposals :
    (outcome[n] = "pending") ~> (outcome[n] \in {"cancelled", "restarted", "failed", "dropped"})

=============================================================================
