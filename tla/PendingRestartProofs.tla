------------------------ MODULE PendingRestartProofs ------------------------
(***************************************************************************)
(* PendingRestart keeps its promises for any deferrals, devices and number *)
(* of proposals.  The invariant: at most one timeout is armed, that of the *)
(* pending proposal and with exactly what is left of its deadline; only    *)
(* the pending proposal has the outcome "pending" and only those in        *)
(* restart() the outcome "restarting"; a live token shows the deadline of  *)
(* the pending proposal if and only if it is its token; and the tag names  *)
(* the devices told of the last proposal while that one is open.           *)
(*                                                                         *)
(* The second half is about Doorbell, the other line on which a message    *)
(* may be lost: what the dashboard is told of the miner.                   *)
(***************************************************************************)
EXTENDS PendingRestart, Doorbell, FiniteSetTheorems, SequenceTheorems, TLAPS

ArmedInv ==
  /\ armed = IF timer = None THEN {} ELSE {[for |-> timer, left |-> dueIn]}
  /\ timer = None => dueIn = 0

OutcomeInv ==
  \A n \in Proposals :
    /\ outcome[n] = "pending" <=> n = timer
    /\ outcome[n] = "restarting" <=> n \in firing
    /\ n > made => outcome[n] = "none"

TokenInv ==
  \A t \in tokens :
    /\ t.for <= made
    /\ t.for = timer => t.dueIn = dueIn
    /\ t.for # timer => t.dueIn = 0 \/ t.dueIn # dueIn

TaggedInv ==
  (made > 0 /\ outcome[made] \in {"pending", "restarting"}) => tagged = told[made]

IInv == TypeOK /\ ArmedInv /\ OutcomeInv /\ TokenInv /\ TaggedInv

USE DeferralAssumption, ProposalsAssumption, ReasonAssumption

(* Nothing is pending, told or minted at the start. *)
LEMMA InitIInv == Init => IInv
<1>. SUFFICES ASSUME Init PROVE IInv
  OBVIOUS
<1>1. TypeOK
  BY DEF Init, TypeOK, Proposals, None, Outcome, Delay
<1>2. ArmedInv /\ OutcomeInv /\ TokenInv /\ TaggedInv
  BY DEF Init, ArmedInv, OutcomeInv, TokenInv, TaggedInv, Proposals, None
<1>. QED BY <1>1, <1>2 DEF IInv

(* A deferral is a delay of at least one tick. *)
LEMMA DeferralType == Deferral \in Delay \ {0}
BY DEF Deferral, Delay

(* Every step keeps the types. *)
LEMMA TypeStep == TypeOK /\ [Next]_vars => TypeOK'
<1>. SUFFICES ASSUME TypeOK, [Next]_vars PROVE TypeOK'
  OBVIOUS
<1>. USE DEF TypeOK, Outcome, None
<1>1. ASSUME NEW r \in Reasons, Propose(r) PROVE TypeOK'
  <2>1. made + 1 \in Proposals
    BY <1>1 DEF Propose, Proposals
  <2>2. made' \in 0 .. MaxProposals /\ timer' \in 0 .. made' /\ firing' \subseteq 0 .. made'
    BY <1>1, <2>1 DEF Propose, Proposals
  <2>3. dueIn' \in Delay /\ armed' \subseteq Timeout
    BY <1>1, <2>1, DeferralType DEF Propose, Timeout
  <2>4. tokens' \subseteq Token
    BY <1>1, <2>1, DeferralType DEF Propose, Minted, Token
  <2>5. /\ tagged' \subseteq Devices
        /\ told' \in [Proposals -> SUBSET Devices]
        /\ sent' \in [about : 0 .. MaxProposals, kind : Outcome, to : SUBSET Devices]
    BY <1>1, <2>1 DEF Propose, Publish, Recipients, Wanting, Proposals
  <2>6. outcome' \in [Proposals -> Outcome]
    BY <1>1, <2>1 DEF Propose
  <2>7. /\ reason' \in Reasons \cup {NoReason} /\ enabled' \subseteq Devices
        /\ quiet' \subseteq Devices
        /\ decided' \in [by : {"nobody", "dashboard", "notification", "now", "timer"},
                         about : 0 .. MaxProposals]
    BY <1>1 DEF Propose, prefVars
  <2>. QED BY <2>2, <2>3, <2>4, <2>5, <2>6, <2>7
<1>2. ASSUME NEW r \in Reasons, Renew(r) PROVE TypeOK'
  BY <1>2 DEF Renew, Renewed, noteVars, prefVars
<1>3. ASSUME NEW via \in {"dashboard", "notification"}, NEW n \in 0 .. MaxProposals,
             CancelPending(via, n), tokens' \subseteq tokens
      PROVE  TypeOK'
  <2>1. made' = made /\ timer' = 0 /\ dueIn' = 0 /\ reason' = NoReason /\ firing' = firing
        /\ armed' \subseteq armed /\ enabled' = enabled /\ quiet' = quiet
    BY <1>3 DEF CancelPending, Clear, Cleared, prefVars
  <2>2. /\ tagged' \subseteq Devices
        /\ told' \in [Proposals -> SUBSET Devices]
        /\ sent' \in [about : 0 .. MaxProposals, kind : Outcome, to : SUBSET Devices]
        /\ outcome' \in [Proposals -> Outcome]
    BY <1>3 DEF CancelPending, Publish, Recipients, Wanting, Proposals
  <2>3. decided' = [by |-> via, about |-> n]
    BY <1>3 DEF CancelPending
  <2>4. 0 \in Delay
    BY DEF Delay
  <2>5. tokens' \subseteq Token
    BY <1>3
  <2>. QED BY <2>1, <2>2, <2>3, <2>4, <2>5
<1>4. ASSUME NEW by \in {"now", "timer"}, NEW n \in 0 .. MaxProposals, NEW timeouts \in SUBSET armed,
             Fire(by, n, timeouts)
      PROVE  TypeOK'
  <2>1. made' = made /\ timer' = 0 /\ dueIn' = 0 /\ reason' = NoReason
        /\ armed' \subseteq armed /\ enabled' = enabled /\ quiet' = quiet
        /\ tokens' = tokens /\ tagged' = tagged /\ told' = told /\ sent' = sent
    BY <1>4 DEF Fire, Clear, Cleared, prefVars, noteVars
  <2>2. firing' \subseteq 0 .. made /\ outcome' \in [Proposals -> Outcome]
    BY <1>4 DEF Fire
  <2>3. decided' = [by |-> by, about |-> n]
    BY <1>4 DEF Fire
  <2>4. 0 \in Delay
    BY DEF Delay
  <2>. QED BY <2>1, <2>2, <2>3, <2>4
<1>5. ASSUME NEW n \in firing, NEW ok \in BOOLEAN, RestartEnds(n, ok) PROVE TypeOK'
  <2>1. n = 0 \/ n \in Proposals
    BY DEF Proposals
  <2>2. /\ tagged' \subseteq Devices
        /\ told' \in [Proposals -> SUBSET Devices]
        /\ sent' \in [about : 0 .. MaxProposals, kind : Outcome, to : SUBSET Devices]
        /\ outcome' \in [Proposals -> Outcome]
    BY <1>5, <2>1 DEF RestartEnds, Publish, Recipients, Wanting, Proposals
  <2>. QED BY <1>5, <2>2 DEF RestartEnds, prefVars
<1>6. ASSUME NEW t \in tokens, Redeem(t) PROVE TypeOK'
  <2>1. CASE Cancels(t)
    <3>1. t.for \in 0 .. MaxProposals
      BY DEF Token, Proposals
    <3>. QED BY <1>6, <2>1, <1>3, <3>1 DEF Redeem
  <2>2. CASE ~Cancels(t)
    BY <1>6, <2>2 DEF Redeem, pendingVars, prefVars
  <2>. QED BY <2>1, <2>2
<1>7. CASE Tick
  <2>1. \A d \in Delay : Less(d) \in Delay
    BY DEF Less, Delay
  <2>2. armed' \subseteq Timeout /\ tokens' \subseteq Token /\ dueIn' \in Delay
    BY <1>7, <2>1 DEF Tick, Timeout, Token
  <2>. QED BY <1>7, <2>2 DEF Tick, prefVars
<1>8. ASSUME NEW d \in Devices, Prefer(d) PROVE TypeOK'
  BY <1>8 DEF Prefer, pendingVars, noteVars
<1>9. CASE BackendRestarts
  BY <1>9 DEF BackendRestarts, prefVars, Delay
<1>10. CASE UNCHANGED vars
  BY <1>10 DEF vars, pendingVars, noteVars, prefVars
<1>11. CASE CancelOnDashboard
  <2>1. timer \in 0 .. MaxProposals
    OBVIOUS
  <2>. QED BY <1>11, <1>3, <2>1 DEF CancelOnDashboard
<1>12. CASE FireNow
  <2>1. timer \in 0 .. MaxProposals
    OBVIOUS
  <2>. QED BY <1>12, <1>4, <2>1 DEF FireNow
<1>13. ASSUME NEW a \in armed, TimerFires(a) PROVE TypeOK'
  <2>1. a.for \in 0 .. MaxProposals
    BY DEF Timeout, Proposals
  <2>. QED BY <1>13, <1>4, <2>1 DEF TimerFires
<1>. QED BY <1>1, <1>2, <1>5, <1>6, <1>7, <1>8, <1>9, <1>10, <1>11, <1>12, <1>13 DEF Next

(* Clearing leaves nothing pending and nothing armed, whichever timeouts     *)
(* Node still held.                                                          *)
LEMMA ClearStep ==
  ASSUME ArmedInv, NEW timeouts \in SUBSET armed, Clear(timeouts)
  PROVE  timer' = None /\ dueIn' = 0 /\ armed' = {}
BY DEF ArmedInv, Clear, Cleared, None

(* A step that forgets what is pending keeps the tokens apart. *)
LEMMA TokensWhenCleared ==
  ASSUME TypeOK, TokenInv, timer' = None, dueIn' = 0, tokens' \subseteq tokens, made' = made
  PROVE  TokenInv'
BY DEF TypeOK, TokenInv, Token, Proposals, None, Delay

(* The veto, from the dashboard or with a token. *)
LEMMA CancelStep ==
  ASSUME IInv, NEW via, NEW n, CancelPending(via, n), tokens' \subseteq tokens
  PROVE  ArmedInv' /\ OutcomeInv' /\ TokenInv' /\ TaggedInv'
<1>. USE DEF None
<1>1. timer' = 0 /\ dueIn' = 0 /\ armed' = {}
  BY ClearStep DEF IInv, CancelPending
<1>2. made' = made /\ firing' = firing
  BY DEF CancelPending
<1>3. ArmedInv'
  BY <1>1 DEF ArmedInv
<1>4. TokenInv'
  BY <1>1, <1>2, TokensWhenCleared DEF IInv
<1>5. outcome' = IF timer = 0 THEN outcome ELSE [outcome EXCEPT ![timer] = "cancelled"]
  BY DEF CancelPending
<1>6. OutcomeInv'
  BY <1>1, <1>2, <1>5 DEF OutcomeInv, IInv, TypeOK, Proposals
<1>7. tagged' = tagged /\ told' = told
  BY DEF CancelPending, Publish
<1>8. TaggedInv'
  BY <1>2, <1>5, <1>7 DEF TaggedInv, IInv, TypeOK, Proposals
<1>. QED BY <1>3, <1>4, <1>6, <1>8

(* The call of restart(), by the timeout or by the user. *)
LEMMA FireStep ==
  ASSUME IInv, NEW by, NEW n, NEW timeouts \in SUBSET armed, Fire(by, n, timeouts)
  PROVE  ArmedInv' /\ OutcomeInv' /\ TokenInv' /\ TaggedInv'
<1>. USE DEF None
<1>1. timer' = 0 /\ dueIn' = 0 /\ armed' = {}
  BY ClearStep DEF IInv, Fire
<1>2. made' = made /\ tokens' = tokens /\ tagged' = tagged /\ told' = told
  BY DEF Fire, noteVars
<1>3. ArmedInv'
  BY <1>1 DEF ArmedInv
<1>4. TokenInv'
  BY <1>1, <1>2, TokensWhenCleared DEF IInv
<1>5. CASE timer = 0
  <2>1. outcome' = outcome /\ firing' = firing \cup {0} /\ 0 \notin Proposals
    BY <1>5 DEF Fire, Proposals
  <2>2. OutcomeInv' /\ TaggedInv'
    BY <1>1, <1>2, <1>5, <2>1 DEF OutcomeInv, TaggedInv, IInv
  <2>. QED BY <1>3, <1>4, <2>2
<1>6. CASE timer # 0
  <2>1. timer \in Proposals /\ timer \in 1 .. made
    BY <1>6 DEF IInv, TypeOK, Proposals
  <2>2. outcome' = [outcome EXCEPT ![timer] = "restarting"] /\ firing' = firing \cup {timer}
    BY <1>6 DEF Fire
  <2>3. OutcomeInv'
    BY <1>1, <1>2, <2>1, <2>2 DEF OutcomeInv, IInv, TypeOK, Proposals
  <2>4. outcome[timer] = "pending"
    BY <2>1 DEF OutcomeInv, IInv
  <2>5. TaggedInv'
    BY <1>2, <2>1, <2>2, <2>4 DEF TaggedInv, IInv, TypeOK, Proposals
  <2>. QED BY <1>3, <1>4, <2>3, <2>5
<1>. QED BY <1>5, <1>6

(* Every step keeps the invariant. *)
LEMMA StepIInv == IInv /\ [Next]_vars => IInv'
<1>. SUFFICES ASSUME IInv, [Next]_vars PROVE ArmedInv' /\ OutcomeInv' /\ TokenInv' /\ TaggedInv'
  BY TypeStep DEF IInv
<1>. USE DEF None
<1>1. ASSUME NEW r \in Reasons, Propose(r)
      PROVE  ArmedInv' /\ OutcomeInv' /\ TokenInv' /\ TaggedInv'
  <2>1. /\ made + 1 \in Proposals /\ made' = made + 1 /\ timer' = made + 1
        /\ dueIn' = Deferral /\ timer = 0 /\ firing' = firing /\ made \in Nat
    BY <1>1 DEF Propose, IInv, TypeOK, Proposals
  <2>2. ArmedInv'
    BY <1>1, <2>1 DEF Propose, ArmedInv, IInv
  <2>3. outcome' = [outcome EXCEPT ![made + 1] = "pending"]
    BY <1>1 DEF Propose
  <2>4. OutcomeInv'
    BY <2>1, <2>3 DEF OutcomeInv, IInv, TypeOK, Proposals
  <2>5. ASSUME NEW t \in tokens'
        PROVE  /\ t.for <= made'
               /\ t.for = timer' => t.dueIn = dueIn'
               /\ t.for # timer' => t.dueIn = 0 \/ t.dueIn # dueIn'
    <3>1. CASE t \in tokens
      <4>1. t.for \in Nat /\ t.for <= made
        BY <3>1 DEF IInv, TokenInv, TypeOK, Token, Proposals
      <4>2. t.dueIn # Deferral
        BY <1>1, <3>1 DEF Propose, DistinctDeadline
      <4>. QED BY <2>1, <4>1, <4>2
    <3>2. CASE t = [for |-> made + 1, dueIn |-> Deferral]
      BY <2>1, <3>2
    <3>. QED BY <1>1, <3>1, <3>2 DEF Propose, Minted
  <2>6. tagged' = Wanting /\ told' = [told EXCEPT ![made + 1] = Wanting]
    BY <1>1 DEF Propose, Publish, Recipients
  <2>7. TaggedInv'
    BY <2>1, <2>6 DEF TaggedInv, IInv, TypeOK
  <2>. QED BY <2>2, <2>4, <2>5, <2>7 DEF TokenInv
<1>2. ASSUME NEW r \in Reasons, Renew(r)
      PROVE  ArmedInv' /\ OutcomeInv' /\ TokenInv' /\ TaggedInv'
  BY <1>2 DEF Renew, Renewed, noteVars, IInv, ArmedInv, OutcomeInv, TokenInv, TaggedInv
<1>3. CASE CancelOnDashboard
  BY <1>3, CancelStep DEF CancelOnDashboard
<1>4. CASE FireNow
  BY <1>4, FireStep DEF FireNow
<1>5. ASSUME NEW a \in armed, TimerFires(a)
      PROVE  ArmedInv' /\ OutcomeInv' /\ TokenInv' /\ TaggedInv'
  BY <1>5, FireStep DEF TimerFires
<1>6. ASSUME NEW n \in firing, NEW ok \in BOOLEAN, RestartEnds(n, ok)
      PROVE  ArmedInv' /\ OutcomeInv' /\ TokenInv' /\ TaggedInv'
  <2>0. CASE n = 0
    BY <1>6, <2>0
    DEF RestartEnds, IInv, ArmedInv, OutcomeInv, TokenInv, TaggedInv, Proposals, prefVars
  <2> SUFFICES ASSUME n # 0
               PROVE  ArmedInv' /\ OutcomeInv' /\ TokenInv' /\ TaggedInv'
    BY <2>0
  <2>1. n \in Proposals /\ outcome[n] = "restarting"
    BY DEF IInv, TypeOK, OutcomeInv, Proposals
  <2>2. /\ made' = made /\ timer' = timer /\ dueIn' = dueIn /\ armed' = armed
        /\ tokens' = tokens /\ firing' = firing \ {n}
    BY <1>6 DEF RestartEnds
  <2>3. outcome' = [outcome EXCEPT ![n] = IF ok THEN "restarted" ELSE "failed"]
    BY <1>6 DEF RestartEnds
  <2>4. tagged' = tagged /\ told' = told
    BY <1>6 DEF RestartEnds, Publish
  <2>5. ArmedInv' /\ TokenInv'
    BY <2>2 DEF IInv, ArmedInv, TokenInv
  <2>6. \A m \in Proposals : m # n => outcome'[m] = outcome[m]
    BY <2>3 DEF IInv, TypeOK
  <2>7. outcome'[n] \in {"restarted", "failed"}
    BY <2>1, <2>3 DEF IInv, TypeOK
  <2>8. OutcomeInv'
    BY <2>1, <2>2, <2>6, <2>7 DEF OutcomeInv, IInv
  <2>9. TaggedInv'
    BY <2>2, <2>4, <2>6, <2>7 DEF TaggedInv, IInv, TypeOK, Proposals
  <2>. QED BY <2>5, <2>8, <2>9
<1>7. ASSUME NEW t \in tokens, Redeem(t)
      PROVE  ArmedInv' /\ OutcomeInv' /\ TokenInv' /\ TaggedInv'
  <2>1. CASE Cancels(t)
    BY <1>7, <2>1, CancelStep DEF Redeem
  <2>2. CASE ~Cancels(t)
    BY <1>7, <2>2
    DEF Redeem, pendingVars, IInv, ArmedInv, OutcomeInv, TokenInv, TaggedInv
  <2>. QED BY <2>1, <2>2
<1>8. CASE Tick
  <2>1. /\ made' = made /\ timer' = timer /\ dueIn' = Less(dueIn)
        /\ firing' = firing /\ outcome' = outcome /\ tagged' = tagged /\ told' = told
    BY <1>8 DEF Tick
  <2>2. OutcomeInv' /\ TaggedInv'
    BY <2>1 DEF IInv, OutcomeInv, TaggedInv
  <2>3. ArmedInv'
    <3>1. CASE timer = 0
      BY <1>8, <2>1, <3>1 DEF Tick, IInv, ArmedInv, Less
    <3>2. CASE timer # 0
      <4>1. armed = {[for |-> timer, left |-> dueIn]}
        BY <3>2 DEF IInv, ArmedInv
      <4>2. armed' = {[for |-> timer, left |-> Less(dueIn)]}
        BY <1>8, <4>1 DEF Tick
      <4>. QED BY <2>1, <3>2, <4>2 DEF ArmedInv
    <3>. QED BY <3>1, <3>2
  <2>4. ASSUME NEW t \in tokens'
        PROVE  /\ t.for <= made'
               /\ t.for = timer' => t.dueIn = dueIn'
               /\ t.for # timer' => t.dueIn = 0 \/ t.dueIn # dueIn'
    <3>1. PICK s \in tokens : t = [for |-> s.for, dueIn |-> Less(s.dueIn)]
      BY <1>8 DEF Tick
    <3>2. s.dueIn \in Nat /\ dueIn \in Nat
      BY DEF IInv, TypeOK, Token, Delay
    <3>3. /\ s.for <= made
          /\ s.for = timer => s.dueIn = dueIn
          /\ s.for # timer => s.dueIn = 0 \/ s.dueIn # dueIn
      BY DEF IInv, TokenInv
    <3>4. t.for = s.for /\ t.dueIn = Less(s.dueIn)
      BY <3>1
    <3>. QED BY <2>1, <3>2, <3>3, <3>4 DEF Less
  <2>. QED BY <2>2, <2>3, <2>4 DEF TokenInv
<1>9. ASSUME NEW d \in Devices, Prefer(d)
      PROVE  ArmedInv' /\ OutcomeInv' /\ TokenInv' /\ TaggedInv'
  BY <1>9 DEF Prefer, pendingVars, noteVars, IInv, ArmedInv, OutcomeInv, TokenInv, TaggedInv
<1>10. CASE BackendRestarts
  <2>1. timer' = 0 /\ dueIn' = 0 /\ armed' = {} /\ firing' = {} /\ tokens' = {} /\ made' = made
    BY <1>10 DEF BackendRestarts
  <2>2. \A n \in Proposals :
          outcome'[n] = IF outcome[n] \in {"pending", "restarting"} THEN "dropped" ELSE outcome[n]
    BY <1>10 DEF BackendRestarts
  <2>3. OutcomeInv'
    BY <2>1, <2>2 DEF IInv, OutcomeInv, Proposals
  <2>4. made > 0 => outcome'[made] \notin {"pending", "restarting"}
    BY <2>2 DEF IInv, TypeOK, Proposals
  <2>. QED BY <2>1, <2>3, <2>4 DEF ArmedInv, TokenInv, TaggedInv
<1>11. CASE UNCHANGED vars
  BY <1>11 DEF vars, pendingVars, noteVars, IInv, ArmedInv, OutcomeInv, TokenInv, TaggedInv
<1>. QED BY <1>1, <1>2, <1>3, <1>4, <1>5, <1>6, <1>7, <1>8, <1>9, <1>10, <1>11 DEF Next

LEMMA Invariance == Spec => []IInv
<1>. QED BY InitIInv, StepIInv, PTL DEF Spec

-----------------------------------------------------------------------------
(* The types hold for any deferrals, devices and number of proposals. *)
THEOREM TypeCorrect == Spec => []TypeOK
<1>1. IInv => TypeOK
  BY DEF IInv
<1>. QED BY <1>1, Invariance, PTL

(* No stale timeout ever restarts the miner: one that fires is that of the   *)
(* pending proposal, at its deadline; and what is restarted with nothing     *)
(* pending, the user has forced.                                             *)
THEOREM NoStaleTimeout == Spec => OnlyDueProposalsRestart
<1>1. IInv /\ [Next]_vars => [FiresWhatIsDue]_vars
  <2>. SUFFICES ASSUME IInv, Next, AsksForRestart
                PROVE  /\ decided'.about = timer
                       /\ \A n \in firing' \ firing : n = timer
                       /\ timer = None => decided'.by = "now"
                       /\ timer # None => outcome[timer] = "pending"
                       /\ decided'.by # "now" => decided'.by = "timer" /\ dueIn = 0
    BY DEF FiresWhatIsDue
  <2>0. timer # None => outcome[timer] = "pending"
    BY DEF IInv, TypeOK, OutcomeInv, Proposals, None
  <2>1. CASE \E a \in armed : TimerFires(a)
    <3>1. PICK a \in armed : TimerFires(a)
      BY <2>1
    <3>2. decided' = [by |-> "timer", about |-> a.for] /\ a.left = 0
          /\ firing' = firing \cup {timer}
      BY <3>1 DEF TimerFires, Fire
    <3>3. timer # None /\ a = [for |-> timer, left |-> dueIn]
      BY DEF IInv, ArmedInv
    <3>. QED BY <2>0, <3>2, <3>3
  <2>2. CASE FireNow
    <3>1. decided' = [by |-> "now", about |-> timer] /\ firing' = firing \cup {timer}
      BY <2>2 DEF FireNow, Fire
    <3>. QED BY <2>0, <3>1
  <2>3. CASE CancelOnDashboard \/ \E t \in tokens : Redeem(t)
    <3>1. firing' = firing
      BY <2>3 DEF CancelOnDashboard, Redeem, CancelPending, pendingVars
    <3>2. decided'.by \in {"dashboard", "notification"} \/ decided' = decided
      BY <2>3 DEF CancelOnDashboard, Redeem, CancelPending
    <3>. QED BY <3>1, <3>2 DEF AsksForRestart
  <2>4. CASE \/ \E r \in Reasons : Propose(r) \/ Renew(r)
             \/ \E n \in firing, ok \in BOOLEAN : RestartEnds(n, ok)
             \/ Tick
             \/ \E d \in Devices : Prefer(d)
             \/ BackendRestarts
    BY <2>4
    DEF Propose, Renew, RestartEnds, Tick, Prefer, BackendRestarts, AsksForRestart, pendingVars
  <2>. QED BY <2>1, <2>2, <2>3, <2>4 DEF Next
<1>. QED BY <1>1, Invariance, PTL DEF Spec, OnlyDueProposalsRestart

(* A token vetoes the proposal it was minted for and no other, given that no *)
(* two deadlines coincide (DistinctDeadline).                                *)
THEOREM TokensAreNotMistaken == Spec => TokenCancelsItsRestart
<1>1. IInv /\ [Next]_vars => [CancelsItsOwn]_vars
  <2>. SUFFICES ASSUME IInv, Next, decided' # decided, decided'.by = "notification"
                PROVE  timer # None /\ decided'.about = timer
    BY DEF CancelsItsOwn
  <2>1. CASE \E t \in tokens : Redeem(t)
    <3>1. PICK t \in tokens : Redeem(t)
      BY <2>1
    <3>2. Cancels(t) /\ decided' = [by |-> "notification", about |-> t.for]
      BY <3>1 DEF Redeem, CancelPending
    <3>3. t.dueIn # 0 /\ timer # None /\ dueIn = t.dueIn
      BY <3>2 DEF Cancels, IInv, TypeOK, Token, Delay
    <3>4. t.for = timer
      BY <3>3 DEF IInv, TokenInv
    <3>. QED BY <3>2, <3>3, <3>4
  <2>2. CASE CancelOnDashboard \/ FireNow \/ \E a \in armed : TimerFires(a)
    <3>1. ~CancelOnDashboard
      BY DEF CancelOnDashboard, CancelPending
    <3>2. ~FireNow
      BY DEF FireNow, Fire
    <3>3. ASSUME NEW a \in armed, TimerFires(a) PROVE FALSE
      BY <3>3 DEF TimerFires, Fire
    <3>. QED BY <2>2, <3>1, <3>2, <3>3
  <2>3. CASE \/ \E r \in Reasons : Propose(r) \/ Renew(r)
             \/ \E n \in firing, ok \in BOOLEAN : RestartEnds(n, ok)
             \/ Tick
             \/ \E d \in Devices : Prefer(d)
             \/ BackendRestarts
    BY <2>3 DEF Propose, Renew, RestartEnds, Tick, Prefer, BackendRestarts
  <2>. QED BY <2>1, <2>2, <2>3 DEF Next
<1>. QED BY <1>1, Invariance, PTL DEF Spec, TokenCancelsItsRestart

(* Once vetoed, a proposal never restarts the miner; once restart() was      *)
(* called for it, it can no longer be vetoed.                                *)
THEOREM VetoHolds == Spec => VetoIsFinal
<1>1. IInv /\ [Next]_vars => [KeepsOutcomes]_vars
  <2>. SUFFICES ASSUME IInv, Next, NEW n \in Proposals
                PROVE  Follows(outcome[n], outcome'[n])
    BY DEF KeepsOutcomes
  <2>. USE DEF Follows, None
  <2>1. ASSUME NEW r \in Reasons, Propose(r) PROVE Follows(outcome[n], outcome'[n])
    <3>1. outcome' = [outcome EXCEPT ![made + 1] = "pending"]
      BY <2>1 DEF Propose
    <3>2. outcome[made + 1] = "none"
      BY <2>1 DEF Propose, IInv, TypeOK, OutcomeInv, Proposals
    <3>. QED BY <3>1, <3>2 DEF IInv, TypeOK
  <2>2. ASSUME NEW via, NEW m, CancelPending(via, m) PROVE Follows(outcome[n], outcome'[n])
    BY <2>2 DEF CancelPending, IInv, TypeOK, OutcomeInv
  <2>3. ASSUME NEW by, NEW m, NEW timeouts, Fire(by, m, timeouts)
        PROVE  Follows(outcome[n], outcome'[n])
    BY <2>3 DEF Fire, IInv, TypeOK, OutcomeInv
  <2>4. ASSUME NEW m \in firing, NEW ok \in BOOLEAN, RestartEnds(m, ok)
        PROVE  Follows(outcome[n], outcome'[n])
    <3>0. CASE m = 0
      BY <2>4, <3>0 DEF RestartEnds
    <3> SUFFICES ASSUME m # 0 PROVE Follows(outcome[n], outcome'[n])
      BY <3>0
    <3>1. m \in Proposals /\ outcome[m] = "restarting"
      BY DEF IInv, TypeOK, OutcomeInv, Proposals
    <3>2. outcome' = [outcome EXCEPT ![m] = IF ok THEN "restarted" ELSE "failed"]
      BY <2>4 DEF RestartEnds
    <3>. QED BY <3>1, <3>2 DEF IInv, TypeOK
  <2>5. ASSUME NEW t \in tokens, Redeem(t) PROVE Follows(outcome[n], outcome'[n])
    BY <2>2, <2>5 DEF Redeem
  <2>6. CASE BackendRestarts
    BY <2>6 DEF BackendRestarts
  <2>7. CASE \/ \E r \in Reasons : Renew(r)
             \/ Tick
             \/ \E d \in Devices : Prefer(d)
    BY <2>7 DEF Renew, Tick, Prefer
  <2>8. CASE CancelOnDashboard \/ FireNow \/ \E a \in armed : TimerFires(a)
    BY <2>2, <2>3, <2>8 DEF CancelOnDashboard, FireNow, TimerFires
  <2>. QED BY <2>1, <2>4, <2>5, <2>6, <2>7, <2>8 DEF Next
<1>. QED BY <1>1, Invariance, PTL DEF Spec, VetoIsFinal

(* The outcome of the newest restart announced reaches exactly the devices   *)
(* that were told of it and are still switched on.                           *)
THEOREM OutcomesAreTold == Spec => FollowUpsGoToTheTold
<1>1. IInv /\ [Next]_vars => [TellsTheTold]_vars
  <2>. SUFFICES ASSUME IInv, Next, sent' # sent, sent'.kind # "pending", sent'.about = made
                PROVE  sent'.to = told[made] \cap enabled
    BY DEF TellsTheTold
  <2>. USE DEF None
  <2>1. ASSUME NEW n \in Proposals, NEW kind \in Outcome \ {"pending"}, Publish(n, kind),
               outcome[n] \in {"pending", "restarting"}
        PROVE  sent'.to = told[made] \cap enabled
    <3>1. sent' = [about |-> n, kind |-> kind, to |-> enabled \cap tagged]
      BY <2>1 DEF Publish, Recipients
    <3>2. made = n /\ made > 0
      BY <3>1 DEF Proposals
    <3>3. tagged = told[made]
      BY <2>1, <3>2 DEF IInv, TaggedInv
    <3>. QED BY <3>1, <3>3
  <2>2. ASSUME NEW via, NEW m, CancelPending(via, m) PROVE sent'.to = told[made] \cap enabled
    <3>1. timer # 0 /\ Publish(timer, "cancelled")
      BY <2>2 DEF CancelPending
    <3>2. timer \in Proposals
      BY <3>1 DEF IInv, TypeOK, Proposals
    <3>3. outcome[timer] = "pending"
      BY <3>2 DEF IInv, OutcomeInv
    <3>. QED BY <2>1, <3>1, <3>2, <3>3 DEF Outcome
  <2>3. ASSUME NEW n \in firing, NEW ok \in BOOLEAN, RestartEnds(n, ok)
        PROVE  sent'.to = told[made] \cap enabled
    <3>0. n # 0
      BY <2>3 DEF RestartEnds
    <3>1. n \in Proposals /\ outcome[n] = "restarting"
      BY <3>0 DEF IInv, TypeOK, OutcomeInv, Proposals
    <3>2. Publish(n, IF ok THEN "restarted" ELSE "failed")
      BY <2>3, <3>0 DEF RestartEnds
    <3>3. (IF ok THEN "restarted" ELSE "failed") \in Outcome \ {"pending"}
      BY DEF Outcome
    <3>. QED BY <2>1, <3>1, <3>2, <3>3
  <2>4. ASSUME NEW r \in Reasons, Propose(r) PROVE FALSE
    BY <2>4 DEF Propose, Publish
  <2>5. CASE CancelOnDashboard \/ \E t \in tokens : Redeem(t)
    BY <2>2, <2>5 DEF CancelOnDashboard, Redeem
  <2>6. CASE \/ \E r \in Reasons : Renew(r)
             \/ FireNow
             \/ \E a \in armed : TimerFires(a)
             \/ Tick
             \/ \E d \in Devices : Prefer(d)
             \/ BackendRestarts
    BY <2>6 DEF Renew, FireNow, TimerFires, Fire, Tick, Prefer, BackendRestarts, noteVars
  <2>. QED BY <2>3, <2>4, <2>5, <2>6 DEF Next
<1>. QED BY <1>1, Invariance, PTL DEF Spec, FollowUpsGoToTheTold

(* Unless the user presses "now", the miner restarts for a proposal that is   *)
(* due; and for no proposal twice, nor for one that was vetoed.               *)
THEOREM WantedRestartsOnly == Spec => RestartsAreWanted
BY NoStaleTimeout, VetoHolds DEF RestartsAreWanted

(* A notification stands for one restart, on the device that shows it.        *)
THEOREM NotificationsAreFaithful == Spec => TokensKnowTheirRestart
BY TokensAreNotMistaken, OutcomesAreTold DEF TokensKnowTheirRestart

-----------------------------------------------------------------------------
(* What the miner tells (Doorbell): what its variables hold.               *)

Events ==
    [type : {"CHANGING_WATCH_SLOTS"}, run : Nat, watching : SUBSET Channels, last : Nat]
    \cup [type : {"GAIN_FOR_WATCH", "STREAMER_ONLINE", "STREAMER_OFFLINE"}, run : Nat,
          streamer : Channels]

IsCard(card) ==
    /\ card = [login |-> card.login, isOnline |-> card.isOnline, watching |-> card.watching,
               at |-> card.at, painted |-> card.painted]
    /\ card.login \in Channels /\ card.watching \in BOOLEAN /\ card.at \in Nat

BellTypes ==
    /\ minute \in Nat /\ left \in [Efforts -> Nat]
    /\ truth = [live |-> truth.live, lit |-> truth.lit, dark |-> truth.dark]
    /\ truth.live \subseteq Channels
    /\ truth.lit \in [Channels -> Int] /\ truth.dark \in [Channels -> Int]
    /\ miner = [up |-> miner.up, slots |-> miner.slots, watching |-> miner.watching,
                due |-> miner.due]
    /\ miner.up \in BOOLEAN /\ miner.slots \subseteq Channels
    /\ miner.watching \subseteq Channels /\ miner.due \subseteq Channels
    /\ queue \in Seq(Events) /\ wire \subseteq Events
    /\ verdict \in [Channels -> SUBSET [online : BOOLEAN, ts : Nat]]
    /\ gain = [c \in Channels |-> gain[c]]
    /\ \A card \in cards : IsCard(card)

LEMMA WatchedOrNot ==
    ASSUME NEW c, NEW online, NEW slots, NEW gains
    PROVE  IsWatched(c, online, slots, gains) \in BOOLEAN
BY DEF IsWatched

LEMMA RederivedIsCard ==
    ASSUME NEW card, IsCard(card), NEW slots, NEW gains
    PROVE  LET new == Rederived(card, slots, gains) IN
           /\ IsCard(new)
           /\ new.login = card.login /\ new.isOnline = card.isOnline /\ new.at = card.at
           /\ new.painted = card.painted
           /\ new.watching = IsWatched(card.login, card.isOnline, slots, gains)
<1>1. PICK watching \in BOOLEAN : watching = IsWatched(card.login, card.isOnline, slots, gains)
  BY WatchedOrNot
<1>2. Rederived(card, slots, gains) = [card EXCEPT !.watching = watching]
  BY <1>1 DEF Rederived
<1>3. PICK new : new = [card EXCEPT !.watching = watching]
  OBVIOUS
<1>4. /\ new = [login |-> card.login, isOnline |-> card.isOnline, watching |-> watching,
                at |-> card.at, painted |-> card.painted]
      /\ new.login = card.login /\ new.isOnline = card.isOnline /\ new.at = card.at
      /\ new.painted = card.painted /\ new.watching = watching
  BY <1>3 DEF IsCard
<1>5. IsCard(new)
  BY <1>4 DEF IsCard
<1> QED
  BY <1>1, <1>2, <1>3, <1>4, <1>5

LEMMA DerivedIsCard ==
    ASSUME minute \in Nat, NEW c \in Channels, NEW online, NEW watching \in BOOLEAN,
           watching = IsWatched(c, online, watchSlots, gain), NEW painted \in BOOLEAN, NEW card,
           card = [login |-> c, isOnline |-> online, watching |-> watching, at |-> minute,
                   painted |-> painted]
    PROVE  /\ IsCard(card) /\ card.at = minute
           /\ card.login = c /\ card.isOnline = online /\ card.painted = painted
           /\ card.watching = IsWatched(card.login, card.isOnline, watchSlots, gain)
<1>1. /\ card.login = c /\ card.isOnline = online /\ card.at = minute
      /\ card.painted = painted /\ card.watching = watching
  OBVIOUS
<1> QED
  BY <1>1 DEF IsCard

\* What a poll or a frame without one derives.
LEMMA DerivedCards ==
    ASSUME minute \in Nat, Answers \/ Paints
    PROVE  \A card \in cards' :
              /\ IsCard(card) /\ card.at = minute
              /\ card.watching = IsWatched(card.login, card.isOnline, watchSlots, gain)
              /\ Answers => ~card.painted
              /\ Paints => card.isOnline = Judged(card.login)
<1>1. CASE Answers
  <2> SUFFICES ASSUME NEW card \in cards'
               PROVE  /\ IsCard(card) /\ card.at = minute /\ ~card.painted
                      /\ card.watching = IsWatched(card.login, card.isOnline, watchSlots, gain)
                      /\ Paints => card.isOnline = Judged(card.login)
    OBVIOUS
  <2>1. PICK c \in Channels : card = Card(c, {c \in UNION poll}, watchSlots, gain, FALSE)
    BY <1>1 DEF Answers
  <2>2. ~Paints
    BY <1>1 DEF Answers, Paints
  <2>3. PICK online : online = {c \in UNION poll}
    OBVIOUS
  <2>4. PICK watching \in BOOLEAN : watching = IsWatched(c, online, watchSlots, gain)
    BY WatchedOrNot
  <2>5. card = [login |-> c, isOnline |-> online, watching |-> watching, at |-> minute,
                painted |-> FALSE]
    BY <2>1, <2>3, <2>4 DEF Card
  <2>6. PICK painted \in BOOLEAN : painted = FALSE
    OBVIOUS
  <2>7. card = [login |-> c, isOnline |-> online, watching |-> watching, at |-> minute,
                painted |-> painted]
    BY <2>5, <2>6
  <2> QED
    BY <2>2, <2>4, <2>6, <2>7, DerivedIsCard
<1>2. CASE Paints
  <2> SUFFICES ASSUME NEW card \in cards'
               PROVE  /\ IsCard(card) /\ card.at = minute
                      /\ card.watching = IsWatched(card.login, card.isOnline, watchSlots, gain)
                      /\ card.isOnline = Judged(card.login)
    BY <1>2 DEF Answers, Paints
  <2>1. PICK c \in Channels : card = Card(c, Judged(c), watchSlots, gain, TRUE)
    BY <1>2 DEF Paints
  <2>2. PICK online : online = Judged(c)
    OBVIOUS
  <2>3. PICK watching \in BOOLEAN : watching = IsWatched(c, online, watchSlots, gain)
    BY WatchedOrNot
  <2>4. card = [login |-> c, isOnline |-> online, watching |-> watching, at |-> minute,
                painted |-> TRUE]
    BY <2>1, <2>2, <2>3 DEF Card
  <2>5. PICK painted \in BOOLEAN : painted = TRUE
    OBVIOUS
  <2>6. card = [login |-> c, isOnline |-> online, watching |-> watching, at |-> minute,
                painted |-> painted]
    BY <2>4, <2>5
  <2> QED
    BY <2>2, <2>3, <2>6, DerivedIsCard
<1> QED
  BY <1>1, <1>2

LEMMA SpendTakesOne ==
    ASSUME left \in [Efforts -> Nat], NEW what \in Efforts, Spend(what)
    PROVE  /\ left' \in [Efforts -> Nat] /\ left'[what] = left[what] - 1
           /\ \A other \in Efforts \ {what} : left'[other] = left[other]
BY DEF Spend

LEMMA PutKeeps ==
    ASSUME queue \in Seq(Events), NEW p \in Events, Put(p)
    PROVE  /\ queue' \in Seq(Events) /\ Len(queue) \in Nat
           /\ ~Kept => queue' = queue
           /\ Kept => /\ queue' = Append(queue, p) /\ Len(queue') = Len(queue) + 1
                      /\ queue'[Len(queue) + 1] = p
                      /\ \A i \in 1..Len(queue) : queue'[i] = queue[i]
<1>1. Len(queue) \in Nat
  BY LenProperties
<1>2. CASE Kept
  <2>1. queue' = Append(queue, p)
    BY <1>2 DEF Put, Kept
  <2> QED
    BY <1>1, <1>2, <2>1, AppendProperties
<1>3. CASE ~Kept
  BY <1>1, <1>3 DEF Put, Kept
<1> QED
  BY <1>2, <1>3

LEMMA TailKeeps ==
    ASSUME queue \in Seq(Events), queue # <<>>
    PROVE  /\ Head(queue) \in Events /\ Tail(queue) \in Seq(Events) /\ Head(queue) = queue[1]
           /\ Len(queue) \in Nat \ {0} /\ Len(Tail(queue)) = Len(queue) - 1
           /\ \A i \in 1..Len(Tail(queue)) : Tail(queue)[i] = queue[i + 1]
<1>1. Len(queue) \in Nat \ {0}
  BY EmptySeq, LenProperties
<1> QED
  BY <1>1, HeadTailProperties

LEMMA TypesStart == ASSUME DoorbellAssumption, BellInit PROVE BellTypes
<1>1. queue \in Seq(Events)
  BY EmptySeq DEF BellInit
<1> QED
  BY <1>1 DEF BellInit, BellTypes, DoorbellAssumption, Cold

LEMMA TypesStep == ASSUME DoorbellAssumption, BellTypes, [BellNext]_bellVars PROVE BellTypes'
<1> USE DEF BellTypes, record
<1> "changes" \in Efforts /\ "gains" \in Efforts /\ "lost" \in Efforts /\ "starts" \in Efforts
    /\ "flips" \in Efforts /\ "minutes" \in Efforts /\ "polls" \in Efforts /\ "reports" \in Efforts
  BY DEF Efforts
<1>1. CASE ChangesSlots
  <2>1. left' \in [Efforts -> Nat]
    BY <1>1, SpendTakesOne DEF ChangesSlots
  <2>2. PICK slots \in SUBSET truth.live :
           /\ miner' = [miner EXCEPT !.slots = slots,
                          !.watching = Announced(slots \ miner.slots, miner.slots \ slots)]
           /\ Put([type |-> "CHANGING_WATCH_SLOTS", run |-> left.starts,
                   watching |-> Announced(slots \ miner.slots, miner.slots \ slots),
                   last |-> left.changes])
    BY <1>1 DEF ChangesSlots
  <2>3. PICK announced : announced = Announced(slots \ miner.slots, miner.slots \ slots)
    OBVIOUS
  <2>4. announced \subseteq Channels
    BY <2>3 DEF Announced
  <2>5. /\ miner'.up = miner.up /\ miner'.slots = slots /\ miner'.watching = announced
        /\ miner'.due = miner.due
        /\ miner' = [up |-> miner.up, slots |-> slots, watching |-> announced, due |-> miner.due]
    BY <2>2, <2>3
  <2>6. [type |-> "CHANGING_WATCH_SLOTS", run |-> left.starts, watching |-> announced,
         last |-> left.changes] \in Events
    BY <2>4 DEF Events
  <2>7. queue' \in Seq(Events)
    BY <2>2, <2>3, <2>6, PutKeeps
  <2> QED
    BY <1>1, <2>1, <2>4, <2>5, <2>7 DEF ChangesSlots
<1>2. CASE GainsPoints
  <2>1. left' \in [Efforts -> Nat]
    BY <1>2, SpendTakesOne DEF GainsPoints
  <2>2. PICK c \in Channels : Put([type |-> "GAIN_FOR_WATCH", run |-> left.starts,
                                   streamer |-> c])
    BY <1>2 DEF GainsPoints
  <2>3. queue' \in Seq(Events)
    BY <2>2, PutKeeps DEF Events
  <2> QED
    BY <1>2, <2>1, <2>3 DEF GainsPoints
<1>3. CASE Reports
  <2>1. left' \in [Efforts -> Nat]
    BY <1>3, SpendTakesOne DEF Reports
  <2>2. PICK c \in miner.due :
           /\ Put([type |-> IF c \in truth.live THEN "STREAMER_ONLINE" ELSE "STREAMER_OFFLINE",
                   run |-> left.starts, streamer |-> c])
           /\ miner' = [miner EXCEPT !.due = @ \ {c}]
    BY <1>3 DEF Reports
  <2>3. queue' \in Seq(Events)
    BY <2>2, PutKeeps DEF Events
  <2>4. /\ miner'.up = miner.up /\ miner'.slots = miner.slots
        /\ miner'.watching = miner.watching /\ miner'.due = miner.due \ {c}
        /\ miner' = [up |-> miner.up, slots |-> miner.slots, watching |-> miner.watching,
                     due |-> miner.due \ {c}]
    BY <2>2
  <2> QED
    BY <1>3, <2>1, <2>3, <2>4 DEF Reports
<1>4. CASE Posts
  <2>1. Head(queue) \in Events /\ Tail(queue) \in Seq(Events)
    BY <1>4, TailKeeps DEF Posts
  <2> QED
    BY <1>4, <2>1 DEF Posts
<1>5. CASE PostFails
  <2>1. left' \in [Efforts -> Nat]
    BY <1>5, SpendTakesOne DEF PostFails
  <2> QED
    BY <1>5, <2>1 DEF PostFails
<1>6. CASE Rings
  <2>1. PICK p \in wire :
           /\ gain' = TakenGain(p) /\ verdict' = TakenVerdict(p) /\ wire' = wire \ {p}
           /\ cards' = IF undrawn THEN cards
                       ELSE {IF p.type = "CHANGING_WATCH_SLOTS" \/ card.login = p.streamer
                             THEN Rederived(card, watchSlots', gain') ELSE card : card \in cards}
    BY <1>6 DEF Rings
  <2>2. gain' = [c \in Channels |-> gain'[c]]
    BY <2>1 DEF TakenGain
  <2>3. verdict' \in [Channels -> SUBSET [online : BOOLEAN, ts : Nat]]
    <3>1. PICK online \in BOOLEAN : online = (p.type = "STREAMER_ONLINE")
      OBVIOUS
    <3>2. verdict' \in {verdict, [verdict EXCEPT ![p.streamer] =
                                     {[online |-> online, ts |-> minute]}]}
      BY <2>1, <3>1 DEF TakenVerdict
    <3>3. {[online |-> online, ts |-> minute]} \in SUBSET [online : BOOLEAN, ts : Nat]
      OBVIOUS
    <3> QED
      BY <3>2, <3>3
  <2>4. \A card \in cards' : \E was \in cards : card \in {was, Rederived(was, watchSlots', gain')}
    BY <2>1
  <2>5. UNCHANGED <<truth, miner, queue, minute, left>>
    BY <1>6 DEF Rings
  <2>6. \A card \in cards' : IsCard(card)
    <3>1. ASSUME NEW was \in cards
          PROVE  IsCard(Rederived(was, watchSlots', gain'))
      <4>1. IsCard(was)
        OBVIOUS
      <4> QED
        BY <4>1, RederivedIsCard
    <3> QED
      BY <2>4, <3>1
  <2> QED
    BY <2>1, <2>2, <2>3, <2>5, <2>6
<1>7. CASE Asks
  <2>1. left' \in [Efforts -> Nat]
    BY <1>7, SpendTakesOne DEF Asks
  <2> QED
    BY <1>7, <2>1 DEF Asks
<1>8. CASE Answers \/ Paints
  <2>1. UNCHANGED <<truth, miner, queue, wire, minute, left, verdict, gain>>
    BY <1>8 DEF Answers, Paints
  <2>2. \A card \in cards' : IsCard(card)
    BY <1>8, DerivedCards
  <2> QED
    BY <2>1, <2>2
<1>9. CASE AnswersNobody \/ ExitIsHeard
  BY <1>9 DEF AnswersNobody, ExitIsHeard
<1>10. CASE MinerStarts
  <2>1. left' \in [Efforts -> Nat]
    BY <1>10, SpendTakesOne DEF MinerStarts
  <2>2. queue' \in Seq(Events)
    BY <1>10, EmptySeq DEF MinerStarts
  <2>3. miner' = [up |-> TRUE, slots |-> {}, watching |-> {}, due |-> Channels]
    BY <1>10 DEF MinerStarts, Cold
  <2>4. UNCHANGED <<truth, wire, record, cards, minute>>
    BY <1>10 DEF MinerStarts
  <2> QED
    BY <2>1, <2>2, <2>3, <2>4
<1>11. CASE MinerEnds
  <2>1. queue' \in Seq(Events)
    BY <1>11, EmptySeq DEF MinerEnds
  <2>2. miner' = [up |-> FALSE, slots |-> {}, watching |-> {}, due |-> {}]
    BY <1>11 DEF MinerEnds, Cold
  <2> QED
    BY <1>11, <2>1, <2>2 DEF MinerEnds
<1>12. CASE StreamFlips
  <2>1. left' \in [Efforts -> Nat]
    BY <1>12, SpendTakesOne DEF StreamFlips
  <2>2. \E c \in Channels : \E live \in SUBSET Channels :
           /\ truth' = [live |-> live, lit |-> [truth.lit EXCEPT ![c] = minute],
                        dark |-> [truth.dark EXCEPT ![c] = minute]]
           /\ miner' = IF miner.up THEN [miner EXCEPT !.due = @ \cup {c}] ELSE miner
    <3>1. PICK c \in Channels :
             LET live == IF c \in truth.live THEN truth.live \ {c} ELSE truth.live \cup {c} IN
             /\ truth' = [live |-> live, lit |-> [truth.lit EXCEPT ![c] = minute],
                          dark |-> [truth.dark EXCEPT ![c] = minute]]
             /\ miner' = IF miner.up THEN [miner EXCEPT !.due = @ \cup {c}] ELSE miner
      BY <1>12 DEF StreamFlips
    <3>2. (IF c \in truth.live THEN truth.live \ {c} ELSE truth.live \cup {c}) \in SUBSET Channels
      OBVIOUS
    <3> QED
      BY <3>1, <3>2
  <2>3. \E due \in SUBSET Channels :
           miner' = [up |-> miner.up, slots |-> miner.slots, watching |-> miner.watching,
                     due |-> due]
    <3>1. PICK c \in Channels :
             miner' = IF miner.up THEN [miner EXCEPT !.due = @ \cup {c}] ELSE miner
      BY <2>2
    <3>2. CASE miner.up
      <4>1. miner' = [miner EXCEPT !.due = miner.due \cup {c}]
        BY <3>1, <3>2
      <4>2. miner' = [up |-> miner.up, slots |-> miner.slots, watching |-> miner.watching,
                      due |-> miner.due \cup {c}]
        BY <4>1
      <4> QED
        BY <4>2
    <3>3. CASE ~miner.up
      BY <3>1, <3>3
    <3> QED
      BY <3>2, <3>3
  <2>4. /\ truth' = [live |-> truth'.live, lit |-> truth'.lit, dark |-> truth'.dark]
        /\ truth'.live \subseteq Channels
        /\ truth'.lit \in [Channels -> Int] /\ truth'.dark \in [Channels -> Int]
    BY <2>2
  <2>5. /\ miner' = [up |-> miner'.up, slots |-> miner'.slots, watching |-> miner'.watching,
                     due |-> miner'.due]
        /\ miner'.up = miner.up /\ miner'.slots = miner.slots
        /\ miner'.watching = miner.watching /\ miner'.due \subseteq Channels
    BY <2>3
  <2>6. UNCHANGED <<queue, wire, record, cards, minute>>
    BY <1>12 DEF StreamFlips
  <2> QED
    BY <2>1, <2>4, <2>5, <2>6
<1>13. CASE Passes
  <2>1. left' \in [Efforts -> Nat]
    BY <1>13, SpendTakesOne DEF Passes
  <2>2. minute' = minute + 1 /\ minute' \in Nat
    BY <1>13 DEF Passes
  <2>3. truth' = [live |-> truth.live,
                  lit  |-> [c \in Channels |-> IF c \in truth.live THEN minute'
                                               ELSE truth.lit[c]],
                  dark |-> [c \in Channels |-> IF c \in truth.live THEN truth.dark[c]
                                               ELSE minute']]
    BY <1>13 DEF Passes
  <2>4. /\ truth' = [live |-> truth'.live, lit |-> truth'.lit, dark |-> truth'.dark]
        /\ truth'.live \subseteq Channels
        /\ truth'.lit \in [Channels -> Int] /\ truth'.dark \in [Channels -> Int]
    BY <2>2, <2>3
  <2>5. UNCHANGED <<miner, queue, wire, record, cards>>
    BY <1>13 DEF Passes
  <2> QED
    BY <2>1, <2>2, <2>4, <2>5
<1>14. CASE UNCHANGED bellVars
  BY <1>14 DEF bellVars
<1> QED
  BY <1>1, <1>2, <1>3, <1>4, <1>5, <1>6, <1>7, <1>8, <1>9, <1>10, <1>11, <1>12, <1>13, <1>14
  DEF BellNext

\* The events that are on their way.
Flying == wire \cup {queue[i] : i \in 1..Len(queue)}

LEMMA PutFlies ==
    ASSUME queue \in Seq(Events), NEW p \in Events, Put(p), wire' = wire
    PROVE  Flying' = IF Kept THEN Flying \cup {p} ELSE Flying
<1>1. CASE Kept
  <2>1. /\ Len(queue) \in Nat /\ Len(queue') = Len(queue) + 1 /\ queue'[Len(queue) + 1] = p
        /\ \A i \in 1..Len(queue) : queue'[i] = queue[i]
    BY <1>1, PutKeeps
  <2>2. \A i : i \in 1..Len(queue') <=> i \in 1..Len(queue) \/ i = Len(queue) + 1
    BY <2>1
  <2>3. \A i \in 1..Len(queue') : queue'[i] \in {queue[j] : j \in 1..Len(queue)} \cup {p}
    BY <2>1, <2>2
  <2>4. \A i \in 1..Len(queue) : queue[i] \in {queue'[j] : j \in 1..Len(queue')}
    BY <2>1, <2>2
  <2>5. p \in {queue'[j] : j \in 1..Len(queue')}
    BY <2>1, <2>2
  <2>6. {queue'[i] : i \in 1..Len(queue')} = {queue[i] : i \in 1..Len(queue)} \cup {p}
    BY <2>3, <2>4, <2>5
  <2> QED
    BY <1>1, <2>6 DEF Flying
<1>2. CASE ~Kept
  BY <1>2, PutKeeps DEF Flying
<1> QED
  BY <1>1, <1>2

LEMMA PostFlies ==
    ASSUME queue \in Seq(Events), Posts
    PROVE  Flying' = Flying
<1>1. queue # <<>> /\ wire' = wire \cup {Head(queue)} /\ queue' = Tail(queue)
  BY DEF Posts
<1>2. /\ Head(queue) = queue[1] /\ Len(queue) \in Nat \ {0} /\ Len(queue') = Len(queue) - 1
      /\ \A i \in 1..Len(queue') : queue'[i] = queue[i + 1]
  BY <1>1, TailKeeps
<1>3. \A i \in 1..Len(queue) : i = 1 \/ (i - 1 \in 1..Len(queue') /\ (i - 1) + 1 = i)
  BY <1>2
<1>4. \A i \in 1..Len(queue') : i + 1 \in 1..Len(queue)
  BY <1>2
<1>5. \A i \in 1..Len(queue) : queue[i] \in {Head(queue)} \cup {queue'[j] : j \in 1..Len(queue')}
  <2> SUFFICES ASSUME NEW i \in 1..Len(queue), i # 1
               PROVE  queue[i] \in {queue'[j] : j \in 1..Len(queue')}
    BY <1>2
  <2>1. i - 1 \in 1..Len(queue') /\ (i - 1) + 1 = i
    BY <1>3
  <2>2. queue'[i - 1] = queue[i]
    BY <1>2, <2>1
  <2> QED
    BY <2>1, <2>2
<1>6. \A i \in 1..Len(queue') : queue'[i] \in {queue[j] : j \in 1..Len(queue)}
  BY <1>2, <1>4
<1>7. Head(queue) \in {queue[j] : j \in 1..Len(queue)}
  BY <1>2
<1> QED
  BY <1>1, <1>5, <1>6, <1>7 DEF Flying

\* Nothing flies from an empty queue.
LEMMA EmptyFlies == ASSUME queue' = <<>> PROVE Flying' = wire'
<1>1. Len(queue') = 0
  OBVIOUS
<1>2. 1..Len(queue') = {}
  BY <1>1
<1> QED
  BY <1>2 DEF Flying

-----------------------------------------------------------------------------
(* A miner that has ended.                                                 *)

EndInv == (miner.up => heard) /\ EndedWatchesNothing

LEMMA EndStarts == BellInit => EndInv
BY DEF BellInit, EndInv, EndedWatchesNothing, Cold

LEMMA EndStep == ASSUME BellTypes, EndInv, [BellNext]_bellVars PROVE EndInv'
<1> USE DEF EndInv, EndedWatchesNothing
<1>1. CASE ChangesSlots
  <2>1. miner.up /\ heard' = heard
    BY <1>1 DEF ChangesSlots
  <2> QED
    BY <2>1
<1>2. CASE \/ GainsPoints \/ Posts \/ Asks \/ Answers \/ AnswersNobody \/ Paints \/ Passes
           \/ UNCHANGED bellVars
  BY <1>2 DEF GainsPoints, Posts, Asks, Answers, AnswersNobody, Paints, Passes, bellVars
<1>3. CASE Reports \/ StreamFlips
  <2>1. UNCHANGED <<heard, watchSlots, fate>>
    BY <1>3 DEF Reports, StreamFlips
  <2>2. miner'.up = miner.up
    <3>1. \/ miner' = miner
          \/ \E due : miner' = [miner EXCEPT !.due = due]
      BY <1>3 DEF Reports, StreamFlips
    <3> QED
      BY <3>1 DEF BellTypes
  <2> QED
    BY <2>1, <2>2
<1>4. CASE PostFails
  BY <1>4 DEF PostFails, Ours
<1>5. CASE Rings
  <2>1. PICK p \in wire :
           /\ watchSlots' = TakenSlots(p)
           /\ fate' = IF p.type = "CHANGING_WATCH_SLOTS" /\ ~Ours(p) THEN "late" ELSE fate
    BY <1>5 DEF Rings
  <2>2. UNCHANGED <<miner, heard>>
    BY <1>5 DEF Rings
  <2> QED
    BY <2>1, <2>2 DEF TakenSlots, Ours
<1>6. CASE MinerStarts
  BY <1>6 DEF MinerStarts, Running
<1>7. CASE MinerEnds
  BY <1>7 DEF MinerEnds, Cold
<1>8. CASE ExitIsHeard
  BY <1>8 DEF ExitIsHeard, Running
<1> QED
  BY <1>1, <1>2, <1>3, <1>4, <1>5, <1>6, <1>7, <1>8 DEF BellNext

-----------------------------------------------------------------------------
(* What was so, and when.                                                  *)

TruthIsDated ==
    \A c \in Channels :
        /\ truth.lit[c] <= minute /\ truth.dark[c] <= minute
        /\ c \in truth.live => truth.lit[c] = minute
        /\ c \notin truth.live => truth.dark[c] = minute

EventIsDated(p) ==
    /\ p.type = "STREAMER_ONLINE" => truth.lit[p.streamer] = minute
    /\ p.type = "STREAMER_OFFLINE" => truth.dark[p.streamer] = minute

EventsAreDated == \A p \in Flying : EventIsDated(p)

VerdictsAreDated ==
    \A c \in Channels : \A v \in verdict[c] :
        v.ts <= IF v.online THEN truth.lit[c] ELSE truth.dark[c]

TruthInv == TruthIsDated /\ EventsAreDated /\ VerdictsAreDated /\ PaintIsRecent

\* Time takes nothing back: what was so at some time stays so.
LEMMA TruthGrows ==
    ASSUME BellTypes, BellTypes', VerdictsAreDated, PaintIsRecent, UNCHANGED <<verdict, cards>>,
           \A c \in Channels : /\ truth.lit[c] <= truth'.lit[c]
                               /\ truth.dark[c] <= truth'.dark[c],
           DoorbellAssumption
    PROVE  VerdictsAreDated' /\ PaintIsRecent'
<1>1. /\ Trust \in Nat
      /\ \A c \in Channels : /\ truth.lit[c] \in Int /\ truth'.lit[c] \in Int
                             /\ truth.dark[c] \in Int /\ truth'.dark[c] \in Int
                             /\ \A v \in verdict[c] : v.ts \in Nat
      /\ \A card \in cards : card.login \in Channels /\ card.at \in Nat
  BY DEF BellTypes, DoorbellAssumption, IsCard
<1>2. VerdictsAreDated'
  BY <1>1 DEF VerdictsAreDated
<1>3. PaintIsRecent'
  <2> SUFFICES ASSUME NEW card \in cards, card.painted
               PROVE  /\ card.isOnline = {TRUE} => truth'.lit[card.login] >= card.at - Trust
                      /\ card.isOnline = {FALSE} => truth'.dark[card.login] >= card.at - Trust
    BY DEF PaintIsRecent
  <2>1. /\ card.isOnline = {TRUE} => truth.lit[card.login] >= card.at - Trust
        /\ card.isOnline = {FALSE} => truth.dark[card.login] >= card.at - Trust
    BY DEF PaintIsRecent
  <2>2. /\ truth.lit[card.login] >= card.at - Trust => truth'.lit[card.login] >= card.at - Trust
        /\ truth.dark[card.login] >= card.at - Trust => truth'.dark[card.login] >= card.at - Trust
    BY <1>1
  <2> QED
    BY <2>1, <2>2
<1> QED
  BY <1>2, <1>3

LEMMA TruthStarts == ASSUME DoorbellAssumption, BellInit PROVE TruthInv
<1>1. Flying = {}
  <2>1. wire = {} /\ Len(queue) = 0
    BY DEF BellInit
  <2>2. 1..Len(queue) = {}
    BY <2>1
  <2> QED
    BY <2>1, <2>2 DEF Flying
<1>2. -(Trust + 1) <= 0
  BY DEF DoorbellAssumption
<1> QED
  BY <1>1, <1>2 DEF BellInit, TruthInv, TruthIsDated, EventsAreDated, VerdictsAreDated,
     PaintIsRecent

LEMMA TruthStep ==
    ASSUME DoorbellAssumption, BellTypes, BellTypes', TruthInv, [BellNext]_bellVars
    PROVE  TruthInv'
<1> USE DEF TruthInv
<1>1. /\ minute \in Nat /\ truth.live \subseteq Channels
      /\ \A c \in Channels : truth.lit[c] \in Int /\ truth.dark[c] \in Int
      /\ queue \in Seq(Events) /\ wire \subseteq Events
      /\ left \in [Efforts -> Nat]
  BY DEF BellTypes
<1>2. ASSUME UNCHANGED <<truth, minute, verdict, cards>>, Flying' \subseteq Flying
      PROVE  TruthInv'
  <2>1. EventsAreDated'
    BY <1>2 DEF EventsAreDated, EventIsDated
  <2> QED
    BY <1>2, <2>1 DEF TruthIsDated, VerdictsAreDated, PaintIsRecent
<1>3. ASSUME NEW p \in Events, Put(p), EventIsDated(p), wire' = wire,
             UNCHANGED <<truth, minute, verdict, cards>>
      PROVE  TruthInv'
  <2>1. Flying' \subseteq Flying \cup {p}
    BY <1>1, <1>3, PutFlies
  <2>2. EventsAreDated'
    BY <1>3, <2>1 DEF EventsAreDated, EventIsDated
  <2> QED
    BY <1>3, <2>2 DEF TruthIsDated, VerdictsAreDated, PaintIsRecent
<1>4. CASE ChangesSlots
  <2>1. PICK slots \in SUBSET truth.live :
           Put([type |-> "CHANGING_WATCH_SLOTS", run |-> left.starts,
                watching |-> Announced(slots \ miner.slots, miner.slots \ slots),
                last |-> left.changes])
    BY <1>4 DEF ChangesSlots
  <2>2. PICK announced : announced = Announced(slots \ miner.slots, miner.slots \ slots)
    OBVIOUS
  <2>3. announced \subseteq Channels
    BY <2>2 DEF Announced, BellTypes
  <2>4. left.starts \in Nat /\ left.changes \in Nat
    BY <1>1 DEF Efforts
  <2>5. PICK p \in Events : p = [type |-> "CHANGING_WATCH_SLOTS", run |-> left.starts,
                                 watching |-> announced, last |-> left.changes]
    BY <2>3, <2>4 DEF Events
  <2>6. EventIsDated(p) /\ Put(p)
    BY <2>1, <2>2, <2>5 DEF EventIsDated
  <2>7. wire' = wire /\ UNCHANGED <<truth, minute, verdict, cards>>
    BY <1>4 DEF ChangesSlots, record
  <2> QED
    BY <1>3, <2>6, <2>7
<1>5. CASE GainsPoints
  <2>1. PICK c \in Channels : Put([type |-> "GAIN_FOR_WATCH", run |-> left.starts,
                                   streamer |-> c])
    BY <1>1, <1>5 DEF GainsPoints
  <2>2. left.starts \in Nat
    BY <1>1 DEF Efforts
  <2>3. PICK p \in Events : p = [type |-> "GAIN_FOR_WATCH", run |-> left.starts, streamer |-> c]
    BY <2>2 DEF Events
  <2>4. EventIsDated(p) /\ Put(p)
    BY <2>1, <2>3 DEF EventIsDated
  <2>5. wire' = wire /\ UNCHANGED <<truth, minute, verdict, cards>>
    BY <1>5 DEF GainsPoints, record
  <2> QED
    BY <1>3, <2>4, <2>5
<1>6. CASE Reports
  <2>1. PICK c \in miner.due :
           Put([type |-> IF c \in truth.live THEN "STREAMER_ONLINE" ELSE "STREAMER_OFFLINE",
                run |-> left.starts, streamer |-> c])
    BY <1>6 DEF Reports
  <2>2. left.starts \in Nat /\ c \in Channels
    BY <1>1 DEF Efforts, BellTypes
  <2>3. PICK p \in Events :
           p = [type |-> IF c \in truth.live THEN "STREAMER_ONLINE" ELSE "STREAMER_OFFLINE",
                run |-> left.starts, streamer |-> c]
    <3>1. PICK type \in {"STREAMER_ONLINE", "STREAMER_OFFLINE"} :
             type = IF c \in truth.live THEN "STREAMER_ONLINE" ELSE "STREAMER_OFFLINE"
      OBVIOUS
    <3>2. [type |-> type, run |-> left.starts, streamer |-> c] \in Events
      BY <2>2 DEF Events
    <3> QED
      BY <3>1, <3>2
  <2>4. EventIsDated(p) /\ Put(p)
    BY <2>1, <2>2, <2>3 DEF EventIsDated, TruthIsDated
  <2>5. wire' = wire /\ UNCHANGED <<truth, minute, verdict, cards>>
    BY <1>6 DEF Reports, record
  <2> QED
    BY <1>3, <2>4, <2>5
<1>7. CASE Posts
  <2>1. Flying' = Flying
    BY <1>1, <1>7, PostFlies
  <2> QED
    BY <1>2, <1>7, <2>1 DEF Posts, record
<1>8. CASE PostFails
  <2>1. UNCHANGED <<truth, minute, verdict, cards, queue>> /\ wire' \subseteq wire
    BY <1>8 DEF PostFails, record
  <2> QED
    BY <1>2, <2>1 DEF Flying
<1>9. CASE Rings
  <2>1. PICK p \in wire :
           /\ verdict' = TakenVerdict(p) /\ wire' = wire \ {p}
           /\ cards' = IF undrawn THEN cards
                       ELSE {IF p.type = "CHANGING_WATCH_SLOTS" \/ card.login = p.streamer
                             THEN Rederived(card, watchSlots', gain') ELSE card : card \in cards}
    BY <1>9 DEF Rings
  <2>2. UNCHANGED <<truth, minute, queue>>
    BY <1>9 DEF Rings
  <2>3. EventsAreDated'
    <3>1. Flying' \subseteq Flying
      BY <2>1, <2>2 DEF Flying
    <3> QED
      BY <2>2, <3>1 DEF EventsAreDated, EventIsDated
  <2>4. VerdictsAreDated'
    <3> SUFFICES ASSUME NEW c \in Channels, NEW v \in verdict'[c]
                 PROVE  v.ts <= IF v.online THEN truth.lit[c] ELSE truth.dark[c]
      BY <2>2 DEF VerdictsAreDated
    <3>1. EventIsDated(p)
      BY <2>1 DEF EventsAreDated, Flying
    <3>2. CASE v \in verdict[c]
      BY <3>2 DEF VerdictsAreDated
    <3>3. CASE v \notin verdict[c]
      <4>1. /\ p.type \in {"STREAMER_ONLINE", "STREAMER_OFFLINE"} /\ c = p.streamer
            /\ v = [online |-> p.type = "STREAMER_ONLINE", ts |-> minute]
        <5>1. verdict \in [Channels -> SUBSET [online : BOOLEAN, ts : Nat]]
          BY DEF BellTypes
        <5> QED
          BY <2>1, <3>3, <5>1 DEF TakenVerdict
      <4>2. v.ts = minute /\ (v.online <=> p.type = "STREAMER_ONLINE")
        BY <4>1
      <4> QED
        BY <1>1, <3>1, <4>1, <4>2 DEF EventIsDated
    <3> QED
      BY <3>2, <3>3
  <2>5. PaintIsRecent'
    <3> SUFFICES ASSUME NEW card \in cards'
                 PROVE  card.painted =>
                          /\ card.isOnline = {TRUE} => truth.lit[card.login] >= card.at - Trust
                          /\ card.isOnline = {FALSE} => truth.dark[card.login] >= card.at - Trust
      BY <2>2 DEF PaintIsRecent
    <3>1. PICK was \in cards : card \in {was, Rederived(was, watchSlots', gain')}
      BY <2>1
    <3>2. IsCard(was)
      BY DEF BellTypes
    <3>3. /\ card.login = was.login /\ card.isOnline = was.isOnline /\ card.at = was.at
          /\ card.painted = was.painted
      BY <3>1, <3>2, RederivedIsCard
    <3> QED
      BY <3>3 DEF PaintIsRecent
  <2> QED
    BY <2>2, <2>3, <2>4, <2>5 DEF TruthIsDated
<1>10. CASE Asks \/ AnswersNobody \/ ExitIsHeard \/ UNCHANGED bellVars
  <2>1. UNCHANGED <<truth, minute, verdict, cards, queue, wire>>
    BY <1>10 DEF Asks, AnswersNobody, ExitIsHeard, bellVars, record
  <2> QED
    BY <1>2, <2>1 DEF Flying
<1>11. CASE Answers \/ Paints
  <2>1. UNCHANGED <<truth, minute, verdict, queue, wire>>
    BY <1>11 DEF Answers, Paints, record
  <2>2. PaintIsRecent'
    <3> SUFFICES ASSUME NEW card \in cards', card.painted
                 PROVE  /\ card.isOnline = {TRUE} => truth.lit[card.login] >= card.at - Trust
                        /\ card.isOnline = {FALSE} => truth.dark[card.login] >= card.at - Trust
      BY <2>1 DEF PaintIsRecent
    <3>1. card.at = minute /\ IsCard(card) /\ card.isOnline = Judged(card.login)
      BY <1>1, <1>11, DerivedCards
    <3>2. card.login \in Channels /\ Trust \in Nat
      BY <3>1 DEF IsCard, DoorbellAssumption
    <3>3. ASSUME NEW online \in BOOLEAN, card.isOnline = {online}
          PROVE  (IF online THEN truth.lit[card.login] ELSE truth.dark[card.login])
                    >= minute - Trust
      <4>1. online \in Judged(card.login)
        BY <3>1, <3>3
      <4>2. PICK v \in verdict[card.login] : minute - v.ts <= Trust /\ v.online = online
        BY <4>1 DEF Judged
      <4>3. v.ts \in Nat /\ v.ts <= IF online THEN truth.lit[card.login]
                                    ELSE truth.dark[card.login]
        BY <3>2, <4>2 DEF VerdictsAreDated, BellTypes
      <4> QED
        BY <1>1, <3>2, <4>2, <4>3
    <3> QED
      BY <3>1, <3>3
  <2>3. Flying' = Flying
    BY <2>1 DEF Flying
  <2> QED
    BY <2>1, <2>2, <2>3 DEF TruthIsDated, EventsAreDated, EventIsDated, VerdictsAreDated
<1>12. CASE MinerStarts \/ MinerEnds
  <2>1. queue' = <<>> /\ UNCHANGED <<truth, minute, verdict, cards, wire>>
    BY <1>12 DEF MinerStarts, MinerEnds, record
  <2>2. Flying' \subseteq Flying
    BY <2>1, EmptyFlies DEF Flying
  <2> QED
    BY <1>2, <2>1, <2>2
<1>13. CASE StreamFlips
  <2>1. PICK c \in Channels :
           LET live == IF c \in truth.live THEN truth.live \ {c} ELSE truth.live \cup {c} IN
           truth' = [live |-> live, lit |-> [truth.lit EXCEPT ![c] = minute],
                     dark |-> [truth.dark EXCEPT ![c] = minute]]
    BY <1>13 DEF StreamFlips
  <2>2. PICK live : live = IF c \in truth.live THEN truth.live \ {c} ELSE truth.live \cup {c}
    OBVIOUS
  <2>3. /\ truth'.live = live /\ truth'.lit = [truth.lit EXCEPT ![c] = minute]
        /\ truth'.dark = [truth.dark EXCEPT ![c] = minute]
    BY <2>1, <2>2
  <2>4. truth.lit \in [Channels -> Int] /\ truth.dark \in [Channels -> Int]
    BY DEF BellTypes
  <2>5. /\ truth'.lit[c] = minute /\ truth'.dark[c] = minute
        /\ \A d \in Channels \ {c} : truth'.lit[d] = truth.lit[d] /\ truth'.dark[d] = truth.dark[d]
        /\ \A d \in Channels \ {c} : d \in truth'.live <=> d \in truth.live
    BY <2>2, <2>3, <2>4
  <2>6. UNCHANGED <<minute, verdict, cards, queue, wire>>
    BY <1>13 DEF StreamFlips, record
  <2>7. TruthIsDated'
    BY <1>1, <2>5, <2>6 DEF TruthIsDated
  <2>8. EventsAreDated'
    <3>1. Flying' = Flying /\ Flying \subseteq Events
      BY <1>1, <2>6, ElementOfSeq DEF Flying
    <3>2. \A p \in Events : p.type \in {"STREAMER_ONLINE", "STREAMER_OFFLINE"} =>
             p.streamer \in Channels
      BY DEF Events
    <3> QED
      BY <2>5, <2>6, <3>1, <3>2 DEF EventsAreDated, EventIsDated
  <2>9. VerdictsAreDated' /\ PaintIsRecent'
    <3>1. \A d \in Channels : truth.lit[d] <= truth'.lit[d] /\ truth.dark[d] <= truth'.dark[d]
      BY <1>1, <2>5 DEF TruthIsDated
    <3> QED
      BY <2>6, <3>1, TruthGrows
  <2> QED
    BY <2>7, <2>8, <2>9
<1>14. CASE Passes
  <2>1. /\ queue' = <<>> /\ wire' = {} /\ minute' = minute + 1
        /\ UNCHANGED <<verdict, cards>>
        /\ truth' = [live |-> truth.live,
                     lit  |-> [c \in Channels |-> IF c \in truth.live THEN minute'
                                                  ELSE truth.lit[c]],
                     dark |-> [c \in Channels |-> IF c \in truth.live THEN truth.dark[c]
                                                  ELSE minute']]
    BY <1>14 DEF Passes, record, BellTypes
  <2>2. \A c \in Channels :
           /\ truth'.lit[c] = IF c \in truth.live THEN minute' ELSE truth.lit[c]
           /\ truth'.dark[c] = IF c \in truth.live THEN truth.dark[c] ELSE minute'
           /\ truth'.live = truth.live
    BY <2>1
  <2>3. TruthIsDated'
    BY <1>1, <2>1, <2>2 DEF TruthIsDated
  <2>4. EventsAreDated'
    BY <2>1, EmptyFlies DEF EventsAreDated
  <2>5. VerdictsAreDated' /\ PaintIsRecent'
    <3>1. \A d \in Channels : truth.lit[d] <= truth'.lit[d] /\ truth.dark[d] <= truth'.dark[d]
      BY <1>1, <2>1, <2>2 DEF TruthIsDated
    <3> QED
      BY <2>1, <3>1, TruthGrows
  <2> QED
    BY <2>3, <2>4, <2>5
<1> QED
  BY <1>4, <1>5, <1>6, <1>7, <1>8, <1>9, <1>10, <1>11, <1>12, <1>13, <1>14 DEF BellNext

-----------------------------------------------------------------------------
(* The slots the miner holds.                                              *)

IsChange(p) == p.type = "CHANGING_WATCH_SLOTS"
IsOwn(p)    == p.run = left.starts
IsNewest(p) == IsOwn(p) /\ IsChange(p) /\ p.last = left.changes + 1

\* What is on its way is of this run, or is one post of a run that is over.
RunsAreKnown ==
    /\ \A p \in wire : p.run >= left.starts
    /\ \A p, q \in wire : IsOwn(p) /\ IsOwn(q) => p = q
    /\ \A i \in 1..Len(queue) : IsOwn(queue[i])
    /\ queue # <<>> => miner.up
    /\ ~miner.up => miner.due = {}

\* The changes arrive in their order.
ChangesAreInOrder ==
    /\ \A i, j \in 1..Len(queue) :
          i < j /\ IsChange(queue[i]) /\ IsChange(queue[j]) => queue[i].last > queue[j].last
    /\ \A p \in wire : \A j \in 1..Len(queue) :
          IsOwn(p) /\ IsChange(p) /\ IsChange(queue[j]) => p.last > queue[j].last

\* The newest of them has the slots.
NewestHasTheSlots ==
    miner.up =>
        /\ miner.watching = miner.slots
        /\ \A p \in Flying : IsOwn(p) /\ IsChange(p) =>
              /\ p.last > left.changes
              /\ IsNewest(p) => p.watching = miner.slots /\ Cardinality(p.watching) <= MaxSlots

CardsAgree ==
    undrawn \/ \A card \in cards :
        card.watching <=> card.isOnline = {TRUE} /\ card.login \in miner.slots

\* Until it arrives it is on its way; once it has, nothing of this run can undo it.
SlotsAreTold ==
    /\ watchSlots = {miner.slots} /\ CardsAgree
    /\ \A p \in Flying : ~(IsOwn(p) /\ IsChange(p))

SentIsTold == miner.up /\ fate = "sent" => SlotsAreTold \/ \E p \in Flying : IsNewest(p)

SlotsInv == RunsAreKnown /\ ChangesAreInOrder /\ NewestHasTheSlots /\ SentIsTold

\* With the slots on record, a card that is derived agrees with them.
LEMMA DerivedAgree ==
    ASSUME NEW slots, NEW card, NEW gains,
           card.watching = IsWatched(card.login, card.isOnline, {slots}, gains)
    PROVE  card.watching <=> card.isOnline = {TRUE} /\ card.login \in slots
BY DEF IsWatched

\* What leaves the events, the slots and the last change's fate alone.
LEMMA QuietKeepsSlots ==
    ASSUME BellTypes, SlotsInv, UNCHANGED <<queue, wire, watchSlots, fate>>,
           miner'.up = miner.up, miner'.slots = miner.slots, miner'.watching = miner.watching,
           ~miner.up => miner'.due = miner.due,
           left'["starts"] = left["starts"], left'["changes"] = left["changes"],
           watchSlots = {miner.slots} /\ CardsAgree => CardsAgree'
    PROVE  SlotsInv'
<1>1. left'.starts = left.starts /\ left'.changes = left.changes /\ Flying' = Flying
  BY DEF Flying
<1>2. RunsAreKnown' /\ ChangesAreInOrder' /\ NewestHasTheSlots'
  BY <1>1 DEF SlotsInv, RunsAreKnown, ChangesAreInOrder, NewestHasTheSlots, IsOwn, IsNewest
<1>3. SentIsTold'
  BY <1>1 DEF SlotsInv, SentIsTold, SlotsAreTold, IsOwn, IsNewest
<1> QED
  BY <1>2, <1>3 DEF SlotsInv

\* An event that is no change of slots joins the queue.
LEMMA OtherKeepsSlots ==
    ASSUME BellTypes, SlotsInv, NEW p \in Events, Put(p), ~IsChange(p), IsOwn(p), miner.up,
           UNCHANGED <<wire, watchSlots, fate, cards, undrawn>>,
           miner'.up = miner.up, miner'.slots = miner.slots, miner'.watching = miner.watching,
           left'["starts"] = left["starts"], left'["changes"] = left["changes"]
    PROVE  SlotsInv'
<1>1. left'.starts = left.starts /\ left'.changes = left.changes
  OBVIOUS
<1>2. queue \in Seq(Events) /\ Len(queue) \in Nat
  BY LenProperties DEF BellTypes
<1>3. \/ queue' = queue /\ Flying' = Flying
      \/ /\ Len(queue') = Len(queue) + 1 /\ queue'[Len(queue) + 1] = p
         /\ \A i \in 1..Len(queue) : queue'[i] = queue[i]
         /\ Flying' = Flying \cup {p}
  BY <1>2, PutKeeps, PutFlies
<1>4. \A i \in 1..Len(queue') : \/ i \in 1..Len(queue) /\ queue'[i] = queue[i]
                               \/ queue'[i] = p
  BY <1>2, <1>3
<1>5. RunsAreKnown'
  BY <1>1, <1>4 DEF SlotsInv, RunsAreKnown, IsOwn
<1>6. ChangesAreInOrder'
  BY <1>1, <1>4 DEF SlotsInv, ChangesAreInOrder, IsOwn, IsChange
<1>7. Flying \subseteq Flying' /\ Flying' \subseteq Flying \cup {p}
  BY <1>3
<1>8. NewestHasTheSlots'
  BY <1>1, <1>7 DEF SlotsInv, NewestHasTheSlots, IsOwn, IsNewest, IsChange
<1>9. SentIsTold'
  BY <1>1, <1>7 DEF SlotsInv, SentIsTold, SlotsAreTold, IsOwn, IsNewest, IsChange, CardsAgree
<1> QED
  BY <1>5, <1>6, <1>8, <1>9 DEF SlotsInv

LEMMA ChangesSlotsKeeps ==
    ASSUME BellTypes, SlotsInv, ChangesSlots
    PROVE  SlotsInv'
<1>1. PICK slots \in SUBSET truth.live :
         /\ Cardinality(slots) <= MaxSlots
         /\ miner' = [miner EXCEPT !.slots = slots,
                        !.watching = Announced(slots \ miner.slots, miner.slots \ slots)]
         /\ Put([type |-> "CHANGING_WATCH_SLOTS", run |-> left.starts,
                 watching |-> Announced(slots \ miner.slots, miner.slots \ slots),
                 last |-> left.changes])
  BY DEF ChangesSlots
<1>2. /\ miner.up /\ wire' = wire /\ left \in [Efforts -> Nat]
      /\ fate' = IF Kept THEN "sent" ELSE "lost"
      /\ queue \in Seq(Events) /\ Len(queue) \in Nat
      /\ \A i \in 1..Len(queue) : queue[i] \in Events
  BY LenProperties, ElementOfSeq DEF ChangesSlots, BellTypes
<1>3. /\ left'.starts = left.starts /\ left'.changes = left.changes - 1
      /\ left.starts \in Nat /\ left.changes \in Nat
  <2>1. Spend("changes") /\ "changes" \in Efforts /\ "starts" \in Efforts
    BY DEF ChangesSlots, Efforts
  <2> QED
    BY <1>2, <2>1, SpendTakesOne
<1>4. Announced(slots \ miner.slots, miner.slots \ slots) = slots
  <2>1. miner.watching = miner.slots
    BY <1>2 DEF SlotsInv, NewestHasTheSlots
  <2> QED
    BY <2>1 DEF Announced
<1>5. slots \subseteq Channels
  BY DEF BellTypes
<1>6. PICK p \in Events : p = [type |-> "CHANGING_WATCH_SLOTS", run |-> left.starts,
                               watching |-> slots, last |-> left.changes]
  BY <1>3, <1>5 DEF Events
<1>7. /\ Put(p) /\ IsOwn(p) /\ IsChange(p) /\ p.last = left.changes /\ p.watching = slots
  BY <1>1, <1>4, <1>6 DEF IsOwn, IsChange
<1>8. miner'.up /\ miner'.slots = slots /\ miner'.watching = slots
  BY <1>1, <1>2, <1>4 DEF BellTypes
<1>9. \/ ~Kept /\ queue' = queue /\ Flying' = Flying
      \/ /\ Kept
         /\ Len(queue') = Len(queue) + 1 /\ queue'[Len(queue) + 1] = p
         /\ \A i \in 1..Len(queue) : queue'[i] = queue[i]
         /\ Flying' = Flying \cup {p}
  BY <1>2, <1>7, PutKeeps, PutFlies
<1>10. ASSUME NEW i \in 1..Len(queue')
       PROVE  \/ i \in 1..Len(queue) /\ queue'[i] = queue[i]
              \/ i = Len(queue) + 1 /\ queue'[i] = p
  <2>1. Len(queue') = Len(queue) \/ Len(queue') = Len(queue) + 1
    BY <1>9
  <2>2. i \in 1..Len(queue) \/ i = Len(queue) + 1
    BY <1>2, <2>1
  <2> QED
    BY <1>2, <1>9, <2>2
<1>11. ASSUME NEW q \in Flying, IsOwn(q), IsChange(q)
       PROVE  q.last > left.changes /\ q.last \in Nat
  <2>1. q.last > left.changes
    BY <1>2, <1>11 DEF SlotsInv, NewestHasTheSlots
  <2>2. q \in Events
    BY <1>2 DEF Flying, BellTypes
  <2> QED
    BY <1>11, <2>1, <2>2 DEF Events, IsChange
<1>12. RunsAreKnown'
  BY <1>2, <1>3, <1>7, <1>8, <1>10 DEF SlotsInv, RunsAreKnown, IsOwn
<1>13. ChangesAreInOrder'
  <2>1. \A i \in 1..Len(queue) : queue[i] \in Flying /\ IsOwn(queue[i])
    BY DEF Flying, SlotsInv, RunsAreKnown
  <2>2. wire \subseteq Flying
    BY DEF Flying
  <2>3. ASSUME NEW i \in 1..Len(queue'), NEW j \in 1..Len(queue'), i < j,
               IsChange(queue'[i]), IsChange(queue'[j])
        PROVE  queue'[i].last > queue'[j].last
    <3>1. i \in 1..Len(queue) /\ queue'[i] = queue[i]
      BY <1>2, <1>9, <1>10, <2>3
    <3>2. CASE j \in 1..Len(queue) /\ queue'[j] = queue[j]
      BY <2>3, <3>1, <3>2 DEF SlotsInv, ChangesAreInOrder
    <3>3. CASE queue'[j] = p
      BY <1>7, <1>11, <2>1, <2>3, <3>1, <3>3
    <3> QED
      BY <1>10, <3>2, <3>3
  <2>4. ASSUME NEW q \in wire, NEW j \in 1..Len(queue'), IsOwn(q), IsChange(q),
               IsChange(queue'[j])
        PROVE  q.last > queue'[j].last
    <3>1. CASE j \in 1..Len(queue) /\ queue'[j] = queue[j]
      BY <2>4, <3>1 DEF SlotsInv, ChangesAreInOrder
    <3>2. CASE queue'[j] = p
      BY <1>7, <1>11, <2>2, <2>4, <3>2
    <3> QED
      BY <1>10, <3>1, <3>2
  <2> QED
    BY <1>2, <1>3, <2>3, <2>4 DEF ChangesAreInOrder, IsOwn, IsChange
<1>14. NewestHasTheSlots'
  <2> SUFFICES ASSUME NEW q \in Flying', q.run = left.starts, IsChange(q)
               PROVE  /\ q.last > left.changes - 1
                      /\ q.last = (left.changes - 1) + 1 =>
                            q.watching = slots /\ Cardinality(q.watching) <= MaxSlots
    BY <1>3, <1>8 DEF NewestHasTheSlots, IsOwn, IsNewest, IsChange
  <2>1. CASE q = p
    BY <1>1, <1>3, <1>7, <2>1
  <2>2. CASE q \in Flying
    <3>1. q.last > left.changes /\ q.last \in Nat
      BY <1>11, <2>2 DEF IsOwn
    <3> QED
      BY <1>3, <3>1
  <2> QED
    BY <1>9, <2>1, <2>2
<1>15. SentIsTold'
  <2> SUFFICES ASSUME fate' = "sent"
               PROVE  \E q \in Flying' : IsNewest(q)'
    BY DEF SentIsTold
  <2>1. p \in Flying'
    BY <1>2, <1>9
  <2>2. IsNewest(p)'
    BY <1>3, <1>7 DEF IsNewest, IsOwn, IsChange
  <2> QED
    BY <2>1, <2>2
<1> QED
  BY <1>12, <1>13, <1>14, <1>15 DEF SlotsInv

LEMMA PostsKeep ==
    ASSUME BellTypes, SlotsInv, Posts
    PROVE  SlotsInv'
<1>1. /\ queue # <<>> /\ wire' = wire \cup {Head(queue)} /\ queue' = Tail(queue)
      /\ \A p \in wire : ~IsOwn(p)
      /\ UNCHANGED <<miner, watchSlots, cards, undrawn, fate, left>>
  BY DEF Posts, IsOwn
<1>2. /\ Head(queue) = queue[1] /\ Len(queue) \in Nat \ {0} /\ Len(queue') = Len(queue) - 1
      /\ \A i \in 1..Len(queue') : queue'[i] = queue[i + 1]
  BY <1>1, TailKeeps DEF BellTypes
<1>3. \A i \in 1..Len(queue') : i + 1 \in 1..Len(queue) /\ 1 < i + 1
  BY <1>2
<1>4. 1 \in 1..Len(queue) /\ IsOwn(Head(queue)) /\ miner.up
  BY <1>1, <1>2 DEF SlotsInv, RunsAreKnown
<1>5. Flying' = Flying
  BY PostFlies DEF BellTypes
<1>6. RunsAreKnown'
  <2>1. \A p \in wire' : p.run >= left.starts
    <3>1. Head(queue).run = left.starts /\ left.starts \in Nat
      BY <1>4 DEF IsOwn, BellTypes, Efforts
    <3>2. Head(queue).run >= left.starts
      BY <3>1
    <3> QED
      BY <1>1, <3>2 DEF SlotsInv, RunsAreKnown
  <2>2. \A p, q \in wire' : IsOwn(p) /\ IsOwn(q) => p = q
    BY <1>1
  <2>3. \A i \in 1..Len(queue') : IsOwn(queue'[i])
    BY <1>2, <1>3 DEF SlotsInv, RunsAreKnown
  <2> QED
    BY <1>1, <1>4, <2>1, <2>2, <2>3 DEF RunsAreKnown, IsOwn
<1>7. ChangesAreInOrder'
  <2>1. ASSUME NEW i \in 1..Len(queue'), NEW j \in 1..Len(queue'), i < j,
               IsChange(queue'[i]), IsChange(queue'[j])
        PROVE  queue'[i].last > queue'[j].last
    <3>1. i + 1 < j + 1
      BY <1>2, <2>1
    <3> QED
      BY <1>2, <1>3, <2>1, <3>1 DEF SlotsInv, ChangesAreInOrder
  <2>2. ASSUME NEW p \in wire', NEW j \in 1..Len(queue'), IsOwn(p), IsChange(p),
               IsChange(queue'[j])
        PROVE  p.last > queue'[j].last
    <3>1. p = queue[1]
      BY <1>1, <1>2, <2>2
    <3> QED
      BY <1>2, <1>3, <1>4, <2>2, <3>1 DEF SlotsInv, ChangesAreInOrder
  <2> QED
    BY <1>1, <2>1, <2>2 DEF ChangesAreInOrder, IsOwn, IsChange
<1>8. NewestHasTheSlots' /\ SentIsTold'
  BY <1>1, <1>5 DEF SlotsInv, NewestHasTheSlots, SentIsTold, SlotsAreTold, CardsAgree, IsOwn,
     IsChange, IsNewest
<1> QED
  BY <1>6, <1>7, <1>8 DEF SlotsInv

\* A post that is over, heard or not.
LEMMA WireKeeps ==
    ASSUME BellTypes, SlotsInv, NEW p \in wire, wire' = wire \ {p}, UNCHANGED <<queue, miner>>,
           left'["starts"] = left["starts"], left'["changes"] = left["changes"]
    PROVE  /\ RunsAreKnown' /\ ChangesAreInOrder' /\ NewestHasTheSlots'
           /\ Flying' \subseteq Flying /\ \A q \in Flying : q = p \/ q \in Flying'
<1>1. left'.starts = left.starts /\ left'.changes = left.changes
  OBVIOUS
<1>2. Flying' \subseteq Flying /\ \A q \in Flying : q = p \/ q \in Flying'
  BY DEF Flying
<1>3. RunsAreKnown' /\ ChangesAreInOrder'
  BY <1>1 DEF SlotsInv, RunsAreKnown, ChangesAreInOrder, IsOwn, IsChange
<1>4. NewestHasTheSlots'
  BY <1>1, <1>2 DEF SlotsInv, NewestHasTheSlots, IsOwn, IsChange, IsNewest
<1> QED
  BY <1>2, <1>3, <1>4

LEMMA PostFailsKeeps ==
    ASSUME BellTypes, SlotsInv, PostFails
    PROVE  SlotsInv'
<1>1. PICK p \in wire :
         /\ wire' = wire \ {p}
         /\ fate' = IF p.type = "CHANGING_WATCH_SLOTS" /\ Ours(p) /\ p.last = left.changes + 1
                    THEN "lost" ELSE fate
  BY DEF PostFails
<1>2. UNCHANGED <<queue, miner, watchSlots, cards, undrawn>>
  BY DEF PostFails
<1>3. left'["starts"] = left["starts"] /\ left'["changes"] = left["changes"]
  <2>1. Spend("lost") /\ {"lost", "changes", "starts"} \subseteq Efforts
    BY DEF PostFails, Efforts
  <2> QED
    BY <2>1, SpendTakesOne DEF BellTypes
<1>4. left'.starts = left.starts /\ left'.changes = left.changes
  BY <1>3
<1>5. /\ RunsAreKnown' /\ ChangesAreInOrder' /\ NewestHasTheSlots'
      /\ Flying' \subseteq Flying /\ \A q \in Flying : q = p \/ q \in Flying'
  BY <1>1, <1>2, <1>3, WireKeeps
<1>6. SentIsTold'
  <2> SUFFICES ASSUME miner.up, fate' = "sent"
               PROVE  SlotsAreTold' \/ \E q \in Flying' : IsNewest(q)'
    BY <1>2 DEF SentIsTold
  <2>1. fate = "sent" /\ ~IsNewest(p)
    BY <1>1 DEF Ours, IsNewest, IsOwn, IsChange
  <2>2. CASE SlotsAreTold
    BY <1>2, <1>4, <1>5, <2>2 DEF SlotsAreTold, CardsAgree, IsOwn, IsChange
  <2>3. CASE \E q \in Flying : IsNewest(q)
    BY <1>4, <1>5, <2>1, <2>3 DEF IsNewest, IsOwn, IsChange
  <2> QED
    BY <2>1, <2>2, <2>3 DEF SlotsInv, SentIsTold
<1> QED
  BY <1>5, <1>6 DEF SlotsInv

LEMMA RingsKeeps ==
    ASSUME DoorbellAssumption, BellTypes, SlotsInv, Rings
    PROVE  SlotsInv'
<1>1. PICK p \in wire :
         /\ watchSlots' = TakenSlots(p) /\ wire' = wire \ {p}
         /\ cards' = IF undrawn THEN cards
                     ELSE {IF p.type = "CHANGING_WATCH_SLOTS" \/ card.login = p.streamer
                           THEN Rederived(card, watchSlots', gain') ELSE card : card \in cards}
         /\ fate' = IF p.type = "CHANGING_WATCH_SLOTS" /\ ~Ours(p) THEN "late" ELSE fate
  BY DEF Rings
<1>2. UNCHANGED <<queue, miner, undrawn, left>>
  BY DEF Rings
<1>3. /\ RunsAreKnown' /\ ChangesAreInOrder' /\ NewestHasTheSlots'
      /\ Flying' \subseteq Flying /\ \A q \in Flying : q = p \/ q \in Flying'
  BY <1>1, <1>2, WireKeeps
<1>4. ASSUME watchSlots' = {miner.slots}, IsChange(p) \/ CardsAgree
      PROVE  CardsAgree'
  <2> SUFFICES ASSUME ~undrawn, NEW card \in cards'
               PROVE  card.watching <=> card.isOnline = {TRUE} /\ card.login \in miner.slots
    BY <1>2 DEF CardsAgree
  <2>1. PICK was \in cards :
           card = IF p.type = "CHANGING_WATCH_SLOTS" \/ was.login = p.streamer
                  THEN Rederived(was, watchSlots', gain') ELSE was
    BY <1>1
  <2>2. IsCard(was)
    BY DEF BellTypes
  <2>3. CASE card = Rederived(was, watchSlots', gain')
    <3>1. /\ card.login = was.login /\ card.isOnline = was.isOnline
          /\ card.watching = IsWatched(was.login, was.isOnline, watchSlots', gain')
      BY <2>2, <2>3, RederivedIsCard
    <3>2. card.watching = IsWatched(card.login, card.isOnline, {miner.slots}, gain')
      BY <1>4, <3>1
    <3> QED
      BY <3>2, DerivedAgree
  <2>4. CASE card = was /\ ~IsChange(p)
    BY <1>4, <2>4 DEF CardsAgree
  <2> QED
    BY <2>1, <2>3, <2>4 DEF IsChange
<1>5. SentIsTold'
  <2> SUFFICES ASSUME miner.up, fate' = "sent"
               PROVE  SlotsAreTold' \/ \E q \in Flying' : IsNewest(q)'
    BY <1>2 DEF SentIsTold
  <2>1. fate = "sent" /\ (IsChange(p) => IsOwn(p))
    BY <1>1 DEF Ours, IsOwn, IsChange
  <2>2. p \in Flying
    BY DEF Flying
  <2>3. CASE IsNewest(p)
    <3>1. p.watching = miner.slots /\ Cardinality(p.watching) <= MaxSlots
      BY <2>2, <2>3 DEF SlotsInv, NewestHasTheSlots, IsNewest
    <3>2. Cardinality(p.watching) <= MaxTold
      <4>1. p.watching \subseteq Channels /\ MaxSlots \in Nat /\ MaxTold \in Nat /\ MaxSlots <= MaxTold
        BY <3>1 DEF BellTypes, DoorbellAssumption
      <4>2. Cardinality(p.watching) \in Nat
        BY <4>1, FS_Subset, FS_CardinalityType DEF DoorbellAssumption
      <4> QED
        BY <3>1, <4>1, <4>2
    <3>3. watchSlots' = {miner.slots}
      BY <1>1, <2>3, <3>1, <3>2 DEF TakenSlots, IsNewest, IsChange
    <3>4. CardsAgree'
      BY <1>4, <2>3, <3>3 DEF IsNewest
    <3>5. ASSUME NEW q \in Flying', IsOwn(q), IsChange(q)
          PROVE  FALSE
      <4>1. q \notin wire'
        BY <1>1, <2>3, <3>5 DEF SlotsInv, RunsAreKnown, IsNewest
      <4>2. PICK j \in 1..Len(queue) : q = queue[j]
        BY <1>2, <3>5, <4>1 DEF Flying
      <4>3. p.last > q.last
        BY <2>3, <3>5, <4>2 DEF SlotsInv, ChangesAreInOrder, IsNewest
      <4>4. q \in Flying /\ q.last > left.changes
        BY <1>3, <3>5 DEF SlotsInv, NewestHasTheSlots
      <4>5. q \in Events
        BY <4>2, ElementOfSeq DEF BellTypes
      <4>6. q.last \in Nat /\ left.changes \in Nat /\ p.last = left.changes + 1
        BY <2>3, <3>5, <4>5 DEF Events, IsChange, IsNewest, BellTypes, Efforts
      <4> QED
        BY <4>3, <4>4, <4>6
    <3> QED
      BY <1>2, <3>3, <3>4, <3>5 DEF SlotsAreTold, IsOwn, IsChange
  <2>4. CASE SlotsAreTold
    <3>1. ~IsChange(p)
      BY <2>1, <2>2, <2>4 DEF SlotsAreTold
    <3>2. watchSlots' = {miner.slots}
      BY <1>1, <2>4, <3>1 DEF TakenSlots, SlotsAreTold, IsChange
    <3>3. CardsAgree'
      BY <1>4, <2>4, <3>2 DEF SlotsAreTold
    <3> QED
      BY <1>2, <1>3, <2>4, <3>2, <3>3 DEF SlotsAreTold, IsOwn, IsChange
  <2>5. CASE ~IsNewest(p) /\ \E q \in Flying : IsNewest(q)
    BY <1>2, <1>3, <2>5 DEF IsNewest, IsOwn, IsChange
  <2> QED
    BY <2>1, <2>3, <2>4, <2>5 DEF SlotsInv, SentIsTold
<1> QED
  BY <1>3, <1>5 DEF SlotsInv

LEMMA MinerStartsKeeps ==
    ASSUME BellTypes, SlotsInv, MinerStarts
    PROVE  SlotsInv'
<1>1. queue' = <<>> /\ fate' = "none" /\ wire' = wire
  BY DEF MinerStarts
<1>2. /\ miner'.up /\ miner'.slots = {} /\ miner'.watching = {}
  BY DEF MinerStarts, Cold
<1>3. left'.starts = left.starts - 1 /\ left.starts \in Nat
  <2>1. Spend("starts") /\ "starts" \in Efforts /\ left \in [Efforts -> Nat]
    BY DEF MinerStarts, Efforts, BellTypes
  <2> QED
    BY <2>1, SpendTakesOne
<1>4. Flying' = wire /\ 1..Len(queue') = {}
  <2>1. Len(queue') = 0
    BY <1>1
  <2> QED
    BY <1>1, <2>1, EmptyFlies
<1>5. ASSUME NEW p \in wire
      PROVE  p.run > left'.starts
  <2>1. p.run >= left.starts
    BY DEF SlotsInv, RunsAreKnown
  <2>2. p.run \in Nat
    BY DEF BellTypes, Events
  <2> QED
    BY <1>3, <2>1, <2>2
<1>6. ASSUME NEW p \in wire
      PROVE  p.run >= left'.starts /\ p.run # left'.starts
  <2>1. p.run \in Nat /\ p.run > left'.starts
    BY <1>5 DEF BellTypes, Events
  <2> QED
    BY <1>3, <2>1
<1>7. RunsAreKnown' /\ ChangesAreInOrder' /\ NewestHasTheSlots'
  BY <1>1, <1>2, <1>4, <1>6 DEF RunsAreKnown, ChangesAreInOrder, NewestHasTheSlots, IsOwn
<1>8. SentIsTold'
  BY <1>1 DEF SentIsTold
<1> QED
  BY <1>7, <1>8 DEF SlotsInv

LEMMA MinerEndsKeeps ==
    ASSUME BellTypes, SlotsInv, MinerEnds
    PROVE  SlotsInv'
<1>1. queue' = <<>> /\ UNCHANGED <<wire, left>>
  BY DEF MinerEnds
<1>2. ~miner'.up /\ miner'.due = {}
  BY DEF MinerEnds, Cold
<1>3. 1..Len(queue') = {}
  <2>1. Len(queue') = 0
    BY <1>1
  <2> QED
    BY <2>1
<1>4. RunsAreKnown' /\ ChangesAreInOrder'
  BY <1>1, <1>2, <1>3 DEF SlotsInv, RunsAreKnown, ChangesAreInOrder, IsOwn
<1>5. NewestHasTheSlots' /\ SentIsTold'
  BY <1>2 DEF NewestHasTheSlots, SentIsTold
<1> QED
  BY <1>4, <1>5 DEF SlotsInv

LEMMA ExitKeeps ==
    ASSUME BellTypes, SlotsInv, ExitIsHeard
    PROVE  SlotsInv'
<1>1. ~miner.up /\ UNCHANGED <<miner, queue, wire, left>>
  BY DEF ExitIsHeard
<1>2. RunsAreKnown' /\ ChangesAreInOrder'
  BY <1>1 DEF SlotsInv, RunsAreKnown, ChangesAreInOrder, IsOwn
<1>3. NewestHasTheSlots' /\ SentIsTold'
  BY <1>1 DEF NewestHasTheSlots, SentIsTold
<1> QED
  BY <1>2, <1>3 DEF SlotsInv

LEMMA SlotsStart == ASSUME BellInit PROVE SlotsInv
<1>1. wire = {} /\ queue = <<>> /\ ~miner.up /\ miner.due = {}
  BY DEF BellInit, Cold
<1>2. 1..Len(queue) = {}
  <2>1. Len(queue) = 0
    BY <1>1
  <2> QED
    BY <2>1
<1> QED
  BY <1>1, <1>2 DEF SlotsInv, RunsAreKnown, ChangesAreInOrder, NewestHasTheSlots, SentIsTold

LEMMA SlotsStep ==
    ASSUME DoorbellAssumption, BellTypes, BellTypes', SlotsInv, [BellNext]_bellVars
    PROVE  SlotsInv'
<1>1. /\ left \in [Efforts -> Nat]
      /\ \A what \in {"gains", "reports", "polls", "flips", "minutes"} :
            Spend(what) => left'["starts"] = left["starts"] /\ left'["changes"] = left["changes"]
  <2>1. left \in [Efforts -> Nat]
    BY DEF BellTypes
  <2>2. /\ {"gains", "reports", "polls", "flips", "minutes"} \subseteq Efforts
        /\ {"starts", "changes"} \subseteq Efforts
    BY DEF Efforts
  <2>3. ASSUME NEW what \in {"gains", "reports", "polls", "flips", "minutes"}, Spend(what)
        PROVE  left'["starts"] = left["starts"] /\ left'["changes"] = left["changes"]
    <3>1. what \in Efforts /\ what # "starts" /\ what # "changes"
      BY <2>2
    <3> QED
      BY <2>1, <2>2, <2>3, <3>1, SpendTakesOne
  <2> QED
    BY <2>1, <2>3
<1>2. left.starts \in Nat
  BY <1>1 DEF Efforts
<1>3. CASE GainsPoints
  <2>1. PICK c \in Channels : Put([type |-> "GAIN_FOR_WATCH", run |-> left.starts,
                                   streamer |-> c])
    BY <1>3 DEF GainsPoints, BellTypes
  <2>2. PICK p \in Events : p = [type |-> "GAIN_FOR_WATCH", run |-> left.starts, streamer |-> c]
    BY <1>2 DEF Events
  <2>3. Put(p) /\ ~IsChange(p) /\ IsOwn(p)
    BY <2>1, <2>2 DEF IsChange, IsOwn
  <2>4. miner.up /\ UNCHANGED <<miner, wire, watchSlots, fate, cards, undrawn>>
    BY <1>3 DEF GainsPoints
  <2>5. left'["starts"] = left["starts"] /\ left'["changes"] = left["changes"]
    BY <1>1, <1>3 DEF GainsPoints
  <2> QED
    BY <2>3, <2>4, <2>5, OtherKeepsSlots
<1>4. CASE Reports
  <2>1. PICK c \in miner.due :
           /\ Put([type |-> IF c \in truth.live THEN "STREAMER_ONLINE" ELSE "STREAMER_OFFLINE",
                   run |-> left.starts, streamer |-> c])
           /\ miner' = [miner EXCEPT !.due = @ \ {c}]
    BY <1>4 DEF Reports
  <2>2. c \in Channels /\ miner.up
    BY DEF BellTypes, SlotsInv, RunsAreKnown
  <2>3. PICK type \in {"STREAMER_ONLINE", "STREAMER_OFFLINE"} :
           type = IF c \in truth.live THEN "STREAMER_ONLINE" ELSE "STREAMER_OFFLINE"
    OBVIOUS
  <2>4. PICK p \in Events : p = [type |-> type, run |-> left.starts, streamer |-> c]
    BY <1>2, <2>2 DEF Events
  <2>5. Put(p) /\ ~IsChange(p) /\ IsOwn(p)
    BY <2>1, <2>3, <2>4 DEF IsChange, IsOwn
  <2>6. miner'.up = miner.up /\ miner'.slots = miner.slots /\ miner'.watching = miner.watching
    BY <2>1 DEF BellTypes
  <2>7. UNCHANGED <<wire, watchSlots, fate, cards, undrawn>>
    BY <1>4 DEF Reports
  <2>8. left'["starts"] = left["starts"] /\ left'["changes"] = left["changes"]
    BY <1>1, <1>4 DEF Reports
  <2> QED
    BY <2>2, <2>5, <2>6, <2>7, <2>8, OtherKeepsSlots
<1>5. CASE Answers \/ Paints
  <2>1. UNCHANGED <<miner, queue, wire, watchSlots, fate, left>>
    BY <1>5 DEF Answers, Paints
  <2>2. ASSUME watchSlots = {miner.slots}
        PROVE  CardsAgree'
    <3> SUFFICES ASSUME NEW card \in cards'
                 PROVE  card.watching <=> card.isOnline = {TRUE} /\ card.login \in miner.slots
      BY <2>1 DEF CardsAgree
    <3>1. card.watching = IsWatched(card.login, card.isOnline, {miner.slots}, gain)
      BY <1>5, <2>2, DerivedCards DEF BellTypes
    <3> QED
      BY <3>1, DerivedAgree
  <2> QED
    BY <2>1, <2>2, QuietKeepsSlots
<1>6. CASE Asks
  <2>1. UNCHANGED <<miner, queue, wire, watchSlots, fate, cards, undrawn>>
    BY <1>6 DEF Asks
  <2>2. left'["starts"] = left["starts"] /\ left'["changes"] = left["changes"]
    BY <1>1, <1>6 DEF Asks
  <2> QED
    BY <2>1, <2>2, QuietKeepsSlots DEF CardsAgree
<1>7. CASE AnswersNobody
  <2>1. UNCHANGED <<miner, queue, wire, watchSlots, fate, left>> /\ undrawn'
    BY <1>7 DEF AnswersNobody
  <2> QED
    BY <2>1, QuietKeepsSlots DEF CardsAgree
<1>8. CASE StreamFlips
  <2>1. UNCHANGED <<queue, wire, watchSlots, fate, cards, undrawn>>
    BY <1>8 DEF StreamFlips
  <2>2. PICK c \in Channels :
           miner' = IF miner.up THEN [miner EXCEPT !.due = @ \cup {c}] ELSE miner
    BY <1>8 DEF StreamFlips
  <2>3. /\ miner'.up = miner.up /\ miner'.slots = miner.slots
        /\ miner'.watching = miner.watching /\ (~miner.up => miner'.due = miner.due)
    BY <2>2 DEF BellTypes
  <2>4. left'["starts"] = left["starts"] /\ left'["changes"] = left["changes"]
    BY <1>1, <1>8 DEF StreamFlips
  <2>5. CardsAgree => CardsAgree'
    BY <2>1, <2>3 DEF CardsAgree
  <2> QED
    BY <2>1, <2>3, <2>4, <2>5, QuietKeepsSlots
<1>9. CASE Passes
  <2>1. UNCHANGED <<miner, queue, wire, watchSlots, fate, cards, undrawn>>
    BY <1>9 DEF Passes
  <2>2. left'["starts"] = left["starts"] /\ left'["changes"] = left["changes"]
    BY <1>1, <1>9 DEF Passes
  <2> QED
    BY <2>1, <2>2, QuietKeepsSlots DEF CardsAgree
<1>10. CASE UNCHANGED bellVars
  <2>1. UNCHANGED <<miner, queue, wire, watchSlots, fate, cards, undrawn, left>>
    BY <1>10 DEF bellVars
  <2> QED
    BY <2>1, QuietKeepsSlots DEF CardsAgree
<1> QED
  BY <1>3, <1>4, <1>5, <1>6, <1>7, <1>8, <1>9, <1>10, ChangesSlotsKeeps, PostsKeep,
     PostFailsKeeps, RingsKeeps, MinerStartsKeeps, MinerEndsKeeps, ExitKeeps DEF BellNext

LEMMA SlotsAreHeard == ASSUME SlotsInv PROVE SlotsAreCorrected
<1> SUFFICES ASSUME miner.up, fate = "sent", queue = <<>>, wire = {}
             PROVE  watchSlots = {miner.slots} /\ CardsAgree
  BY DEF SlotsAreCorrected, CardsAgree
<1>1. Len(queue) = 0
  OBVIOUS
<1>2. Flying = {}
  BY <1>1 DEF Flying
<1> QED
  BY <1>2 DEF SlotsInv, SentIsTold, SlotsAreTold

\* What the dashboard is told of the miner, over a line that may lose every event: the
\* slots it was last told of are the miner's and its cards say so, a frame drawn from the
\* record says nothing that is older than the trust, and a miner that has ended watches
\* nothing (doorbell.py; service.ts ring, minerRunning, paintLocal).
THEOREM WatchingStaysTold ==
    ASSUME DoorbellAssumption
    PROVE  BellSpec => []WatchingIsTold
<1>1. BellInit => BellTypes /\ EndInv /\ TruthInv /\ SlotsInv
  BY TypesStart, EndStarts, TruthStarts, SlotsStart
<1>2. BellTypes /\ EndInv /\ TruthInv /\ SlotsInv /\ [BellNext]_bellVars
      => BellTypes' /\ EndInv' /\ TruthInv' /\ SlotsInv'
  BY TypesStep, EndStep, TruthStep, SlotsStep
<1>3. EndInv /\ TruthInv /\ SlotsInv => WatchingIsTold
  BY SlotsAreHeard DEF WatchingIsTold, EndInv, TruthInv
<1> QED
  BY <1>1, <1>2, <1>3, PTL DEF BellSpec

=============================================================================
