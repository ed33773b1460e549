---------------------------- MODULE StateHelper ----------------------------
(***************************************************************************)
(* The state helper, inside (python/helpers/state.py, _session.py): one    *)
(* request at a time, each a series of calls to Twitch made with the token *)
(* the process holds, while the cookie pickle it was read from is written  *)
(* by the login helper and deleted by a sign-out.                          *)
(*                                                                         *)
(* Several channels are asked about in one batch; a batch with one answer  *)
(* that cannot be parsed fails as a whole and its channels are asked one   *)
(* by one.  Twitch answers 401 to a token it does not honour.  The miner's *)
(* client, which makes the calls and repeats a failed one, is a library:   *)
(* a call here is what comes of its attempts.                              *)
(***************************************************************************)
EXTENDS Naturals, Sequences, FiniteSets

CONSTANTS
    Streamers,     \* the roster
    BatchSize,     \* _BATCH_SIZE
    CookieTokens,  \* 1..n, in the order sign-ins write them
    MaxFailures,   \* bound: calls that fail for no fault of the session
    MaxRequests    \* bound

VARIABLES
    pickle,       \* the token in the cookie file; NoToken without a file
    honoured,     \* the tokens Twitch accepts
    named,        \* Twitch knows an account of the configured name
    odd,          \* channels whose answers cannot be parsed
    signIns,      \* how many tokens have been written
    alive,        \* the process runs
    token,        \* the token it holds
    request,      \* the request in hand
    reply,        \* the last reply
    faults,       \* bound
    requests,     \* bound
    steady,       \* history: one good token was in the file since the request came
    faulted,      \* history: channels that met a fault in this request
    spoilt        \* history: requests in a row that were refused though one good
                  \* token was in the file since before the first of them

helperVars == <<pickle, honoured, named, odd, signIns, alive, token, request, reply,
                faults, requests, steady, faulted, spoilt>>
worldVars  == <<pickle, honoured, named, odd, signIns>>

NoToken == 0
Ops == {"state", "profiles", "inventory", "followers"}

\* What each operation asks Twitch, in order.  A "many" is a _fetch_all().
Stages(op) ==
    CASE op = "state"     -> <<"contexts", "streams">>
      [] op = "profiles"  -> <<"profiles">>
      [] op = "inventory" -> <<"inventory", "earned", "links">>
      [] op = "followers" -> <<"follows">>
      [] op = "none"      -> <<>>
Many == {"contexts", "streams", "profiles", "links"}

\* at: the stage; todo: channels whose chunk has not been asked about; singly:
\* those of the refused chunk that are still to ask; got: what each stage has.
Idle == [op |-> "none", at |-> 0, todo |-> {}, singly |-> {}, ok |-> {}, earned |-> FALSE]
NoReply == [code |-> "none", op |-> "none", ok |-> {}, earned |-> FALSE]
Stage == Stages(request.op)[request.at]

GoodPickle == pickle # NoToken /\ pickle \in honoured
Reloaded == IF pickle = NoToken THEN token ELSE pickle

-----------------------------------------------------------------------------
(* A request arrives.                                                      *)

\* _ensure_token(); followers reloads whatever it holds.
TokenFor(op) == IF token = NoToken \/ op = "followers" THEN Reloaded ELSE token

Requested(op) ==
    /\ alive /\ request = Idle /\ requests < MaxRequests
    /\ requests' = requests + 1
    /\ token' = TokenFor(op)
    /\ request' = [Idle EXCEPT !.op = op, !.at = 1, !.todo = Streamers]
    /\ reply' = NoReply
    /\ steady' = GoodPickle /\ faulted' = {}
    /\ UNCHANGED <<worldVars, alive, faults, spoilt>>

-----------------------------------------------------------------------------
(* The calls.  A stage that is over hands what it got to the next.         *)

Accepted == token \in honoured
Fault(who) == faults < MaxFailures /\ faults' = faults + 1 /\ faulted' = faulted \cup who
NoFault == UNCHANGED <<faults, faulted>>

\* Of the stages of many, streams asks only about the channels that have a context.
StageOver(r) ==
    IF r.at = Len(Stages(r.op)) THEN [r EXCEPT !.at = @ + 1]
    ELSE [r EXCEPT !.at = @ + 1,
                   !.todo = IF Stages(r.op)[r.at + 1] = "streams" THEN r.ok ELSE Streamers]
Stepped(r) == IF r.todo = {} /\ r.singly = {} THEN StageOver(r) ELSE r

Calling(stages) == request.at \in 1..Len(Stages(request.op)) /\ Stage \in stages
UnlessCall == UNCHANGED <<worldVars, alive, token, reply, requests, steady, spoilt>>

Chunk == CHOOSE c \in SUBSET request.todo :
            Cardinality(c) = IF Cardinality(request.todo) < BatchSize
                               THEN Cardinality(request.todo) ELSE BatchSize

\* Mutant: a refused batch costs its channels, which are not asked one by one.
RefusedCostsAll(r, chunk) == [r EXCEPT !.todo = @ \ chunk, !.ok = @ \ chunk]

\* A refused batch leaves its channels to be asked for one by one.
RefusedBatch(r, chunk) ==
    [r EXCEPT !.todo = @ \ chunk, !.singly = chunk, !.ok = @ \ chunk]

\* One batch: every answer, or none and each is asked for by itself.
BatchAnswered ==
    /\ Calling(Many) /\ request.singly = {} /\ request.todo # {}
    /\ Accepted
    /\ \/ /\ Chunk \cap odd = {} /\ NoFault
          /\ request' = Stepped([request EXCEPT !.todo = @ \ Chunk, !.ok = @ \cup Chunk])
       \/ /\ \/ Chunk \cap odd # {} /\ NoFault
             \/ Fault({})
          /\ request' = Stepped(RefusedBatch(request, Chunk))
    /\ UnlessCall

SingleAnswered(c) ==
    /\ Calling(Many) /\ c \in request.singly
    /\ Accepted
    /\ \/ /\ c \notin odd /\ NoFault
          /\ request' = Stepped([request EXCEPT !.singly = @ \ {c}, !.ok = @ \cup {c}])
       \/ /\ \/ c \in odd /\ NoFault
             \/ Fault({c})
          /\ request' = Stepped([request EXCEPT !.singly = @ \ {c}])
    /\ UnlessCall

\* A stage of many with nothing to ask.
NothingToAsk ==
    /\ Calling(Many) /\ request.todo = {} /\ request.singly = {}
    /\ request' = StageOver(request) /\ NoFault /\ UnlessCall

\* _earned(): its failure costs only the rewards.
EarnedAnswered ==
    /\ Calling({"earned"}) /\ Accepted
    /\ \/ request' = StageOver([request EXCEPT !.earned = TRUE]) /\ NoFault
       \/ request' = StageOver(request) /\ Fault({})
    /\ UnlessCall

OneAnswered ==
    /\ Calling({"inventory", "follows"}) /\ Accepted
    /\ request' = StageOver(request) /\ NoFault /\ UnlessCall

-----------------------------------------------------------------------------
(* The reply.                                                              *)

Replies(code) ==
    /\ reply' = [code |-> code, op |-> request.op, ok |-> request.ok,
                  earned |-> request.earned]
    /\ request' = Idle
    /\ UNCHANGED <<worldVars, alive, requests, steady, faulted>>

AnsweredAll ==
    /\ request # Idle /\ request.at > Len(Stages(request.op))
    /\ Replies("ok")
    /\ spoilt' = 0
    /\ UNCHANGED <<token, faults>>

\* A failure that is not about the session, of a call nothing stands in for.
OneFails ==
    /\ Calling({"inventory", "follows"}) /\ Accepted
    /\ faults < MaxFailures /\ faults' = faults + 1
    /\ Replies("GQL")
    /\ spoilt' = 0
    /\ UNCHANGED token

\* A 401: the file is read again, and then is_logged_in() asks Twitch.
Unauthorized ==
    /\ request # Idle /\ request.at \in 1..Len(Stages(request.op))
    /\ Stage \in Many => request.todo \cup request.singly # {}
    /\ ~Accepted
    /\ token' = Reloaded
    /\ request' = [Idle EXCEPT !.op = request.op]
    /\ UNCHANGED <<worldVars, alive, reply, faults, requests, steady, faulted, spoilt>>

Classifying == request.op # "none" /\ request.at = 0

\* check_login(), of the token read once more.
Classified ==
    /\ Classifying
    /\ token' = Reloaded
    /\ pickle # NoToken => named
    /\ Replies(IF GoodPickle THEN "GQL" ELSE "AUTH")
    /\ spoilt' = IF steady THEN spoilt + 1 ELSE 0
    /\ UNCHANGED faults

\* An account that is not there makes check_login() raise, here outside any
\* handler; so may a network that fails.
Dies ==
    /\ Classifying /\ pickle # NoToken
    /\ \/ ~named /\ UNCHANGED faults
       \/ faults < MaxFailures /\ faults' = faults + 1
    /\ alive' = FALSE
    /\ request' = Idle /\ reply' = NoReply
    /\ spoilt' = 0
    /\ UNCHANGED <<worldVars, token, requests, steady, faulted>>

\* The client starts a helper for the next request, or a recycle does.
Starts ==
    /\ ~alive \/ request # Idle
    /\ alive' = TRUE
    /\ token' = NoToken /\ request' = Idle /\ reply' = NoReply
    /\ spoilt' = 0
    /\ UNCHANGED <<worldVars, faults, requests, steady, faulted>>

-----------------------------------------------------------------------------
(* The world.                                                              *)

UnlessWorld == UNCHANGED <<odd, alive, token, request, reply, faults, requests, faulted>>
Disturbed == steady' = FALSE /\ spoilt' = 0

SignsIn ==
    /\ signIns + 1 \in CookieTokens /\ named
    /\ signIns' = signIns + 1
    /\ pickle' = signIns' /\ honoured' = honoured \cup {signIns'}
    /\ Disturbed /\ UNCHANGED named /\ UnlessWorld

SignsOut ==
    /\ pickle # NoToken
    /\ pickle' = NoToken
    /\ Disturbed /\ UNCHANGED <<honoured, named, signIns>> /\ UnlessWorld

Revoked ==
    /\ \E t \in honoured : honoured' = honoured \ {t}
    /\ Disturbed /\ UNCHANGED <<pickle, named, signIns>> /\ UnlessWorld

Renamed ==
    /\ named /\ named' = FALSE
    /\ Disturbed /\ UNCHANGED <<pickle, honoured, signIns>> /\ UnlessWorld

-----------------------------------------------------------------------------

HelperInit ==
    /\ signIns = 1 /\ honoured = {1} /\ pickle \in {NoToken, 1}
    /\ named = TRUE
    /\ odd \in SUBSET Streamers
    /\ alive = TRUE /\ token = NoToken
    /\ request = Idle /\ reply = NoReply
    /\ faults = 0 /\ requests = 0
    /\ steady = FALSE /\ faulted = {} /\ spoilt = 0

Calls == \/ BatchAnswered \/ NothingToAsk \/ EarnedAnswered \/ OneAnswered
         \/ \E c \in Streamers : SingleAnswered(c)

HelperNext ==
    \/ \E op \in Ops : Requested(op)
    \/ Calls \/ AnsweredAll \/ OneFails \/ Unauthorized \/ Classified \/ Dies \/ Starts
    \/ SignsIn \/ SignsOut \/ Revoked \/ Renamed

HelperSpec == HelperInit /\ [][HelperNext]_helperVars

-----------------------------------------------------------------------------
(* What it is for.                                                         *)

\* The helper says AUTH, which turns the dashboard to the sign-in page, only when
\* there was a moment in this request without a good token in the file.
AuthMeansSo == reply.code = "AUTH" => ~steady

\* A channel Twitch answers for is in the reply, whatever comes of the others.
OneBadChannelCostsItself ==
    reply.code = "ok" /\ reply.op # "followers"
        => Streamers \ (odd \cup faulted) \subseteq reply.ok

\* The token of a finished sign-in is picked up by the request after the first one
\* refused, at the latest.
RefusedAtMostOnce == spoilt <= 1

RepliesAreFair == AuthMeansSo /\ OneBadChannelCostsItself /\ RefusedAtMostOnce

=============================================================================
