------------------------------- MODULE Access -------------------------------
(***************************************************************************)
(* Who may talk to the backend (http/auth.ts, http/loginLimiter.ts): the   *)
(* sessions a right password mints, the check in front of every route, and *)
(* the limiter that counts wrong passwords by address.  All of it lives in *)
(* memory and is swept when something is written, never by a timer.        *)
(***************************************************************************)
EXTENDS Naturals, Sequences, FiniteSets

CONSTANTS
    Addresses,     \* keyFor(request)
    Tokens,        \* 1..n, in the order they are minted
    MaxAttempts,   \* MAX_ATTEMPTS
    Lockout,       \* LOCKOUT_MS
    Ttl,           \* SESSION_TTL_MS
    Horizon,       \* bound: the clock's last value
    MaxRestarts    \* bound

VARIABLES
    now,
    records,   \* LoginLimiter.records
    cookies,   \* the sessions map: each token's expiresAt
    minted,    \* how many tokens there have been
    restarts,  \* bound
    wrong,     \* history: per address, when it gave a wrong password that
               \* was looked at, within the last Lockout
    issued     \* history: when each token was minted; 0 once it was revoked,
               \* or forgotten by a restart

accessVars == <<now, records, cookies, minted, restarts, wrong, issued>>

\* What the constants are.
AccessAssumption ==
    /\ MaxAttempts \in Nat \ {0} /\ Lockout \in Nat \ {0} /\ Ttl \in Nat \ {0}
    /\ Tokens \subseteq Nat

NoRecord == [failures |-> 0, expiresAt |-> 0]
NoSession == 0

-----------------------------------------------------------------------------
(* The limiter.                                                            *)

Over(expiresAt) == now >= expiresAt
Locked(a) == ~Over(records[a].expiresAt) /\ records[a].failures >= MaxAttempts

\* Mutant: the lockout ends with the window the first failure began.
CountedFromTheFirst(record) ==
    LET n == record.failures + 1
    IN  [failures  |-> n,
         expiresAt |-> IF n = 1 THEN now + Lockout ELSE record.expiresAt]

\* fail(): the sweep, a window that begins or goes on, and the failure that
\* trips the limit, from which the lockout runs.
Swept == [a \in Addresses |-> IF Over(records[a].expiresAt) THEN NoRecord ELSE records[a]]

Counted(record) ==
    LET n == record.failures + 1
    IN  [failures  |-> n,
         expiresAt |-> IF n \in {1, MaxAttempts} THEN now + Lockout ELSE record.expiresAt]

WrongPassword(a) ==
    /\ ~Locked(a)
    /\ records' = [Swept EXCEPT ![a] = Counted(@)]
    /\ wrong' = [wrong EXCEPT ![a] = Append(@, now)]
    /\ UNCHANGED <<now, cookies, minted, restarts, issued>>

\* retryAfter() forgets a record that is over; the 429 changes nothing else.
LoginAsked(a) ==
    /\ records[a] # NoRecord /\ Over(records[a].expiresAt)
    /\ records' = [records EXCEPT ![a] = NoRecord]
    /\ UNCHANGED <<now, cookies, minted, restarts, wrong, issued>>

-----------------------------------------------------------------------------
(* Sessions.                                                               *)

IsLive(t) == cookies[t] # NoSession /\ ~Over(cookies[t])

RightPassword(a) ==
    /\ ~Locked(a) /\ minted + 1 \in Tokens
    /\ records' = [records EXCEPT ![a] = NoRecord]
    /\ minted' = minted + 1
    /\ cookies' = [t \in Tokens |-> IF t = minted' THEN now + Ttl
                                     ELSE IF Over(cookies[t]) THEN NoSession
                                     ELSE cookies[t]]
    /\ issued' = [issued EXCEPT ![minted'] = now]
    /\ wrong' = [wrong EXCEPT ![a] = <<>>]
    /\ UNCHANGED <<now, restarts>>

\* Any request with a token whose day is over.
Evicts(t) ==
    /\ cookies[t] # NoSession /\ ~IsLive(t)
    /\ cookies' = [cookies EXCEPT ![t] = NoSession]
    /\ UNCHANGED <<now, records, minted, restarts, wrong, issued>>

LogsOut(t) ==
    /\ IsLive(t)
    /\ cookies' = [cookies EXCEPT ![t] = NoSession]
    /\ issued' = [issued EXCEPT ![t] = 0]
    /\ UNCHANGED <<now, records, minted, restarts, wrong>>

-----------------------------------------------------------------------------

\* The guesses that are still of the last Lockout at time t: they are in order.
Recent(guesses, t) ==
    LET old == {i \in 1..Len(guesses) : guesses[i] + Lockout <= t}
    IN  SubSeq(guesses, Cardinality(old) + 1, Len(guesses))

Tick ==
    /\ now < Horizon
    /\ now' = now + 1
    /\ wrong' = [a \in Addresses |-> Recent(wrong[a], now')]
    /\ UNCHANGED <<records, cookies, minted, restarts, issued>>

Restarts ==
    /\ restarts < MaxRestarts
    /\ restarts' = restarts + 1
    /\ records' = [a \in Addresses |-> NoRecord]
    /\ cookies' = [t \in Tokens |-> NoSession]
    /\ wrong' = [a \in Addresses |-> <<>>]
    /\ issued' = [t \in Tokens |-> 0]
    /\ UNCHANGED <<now, minted>>

AccessInit ==
    /\ now = 1
    /\ records = [a \in Addresses |-> NoRecord]
    /\ cookies = [t \in Tokens |-> NoSession] /\ minted = 0
    /\ restarts = 0
    /\ wrong = [a \in Addresses |-> <<>>] /\ issued = [t \in Tokens |-> 0]

AccessNext ==
    \/ \E a \in Addresses : WrongPassword(a) \/ LoginAsked(a) \/ RightPassword(a)
    \/ \E t \in Tokens : Evicts(t) \/ LogsOut(t)
    \/ Tick \/ Restarts

AccessSpec == AccessInit /\ [][AccessNext]_accessVars

-----------------------------------------------------------------------------
(* What it is for.                                                         *)

\* An address is never asked to guess MaxAttempts times without a lockout: fewer
\* than twice as many guesses fit in any Lockout, and the lockout runs from the
\* guess that tripped it.
GuessesAreRationed ==
    \A a \in Addresses :
        /\ Len(wrong[a]) < 2 * MaxAttempts
        /\ Locked(a) => records[a].expiresAt = wrong[a][Len(wrong[a])] + Lockout

\* A session lasts its day, no longer, unless it is logged out or the backend
\* restarts; sweeping others never takes it.
SessionsLastTheirDay ==
    \A t \in Tokens : IsLive(t) <=> issued[t] # 0 /\ now < issued[t] + Ttl

AccessIsKept == GuessesAreRationed /\ SessionsLastTheirDay

=============================================================================
