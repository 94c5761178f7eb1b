-------------------------------- MODULE Rpc ---------------------------------
(***************************************************************************)
(* A client's calls of a server (rpc/client.go) and the sessions by which  *)
(* the server knows the client (rpc/server.go, rpc/session.go).  A call    *)
(* carries the client's token, or a signed request if the client has no    *)
(* token that is fresh; the answer to a signed request brings a token.  A  *)
(* call that the server answers with "user not authenticated" is tried     *)
(* once more.                                                              *)
(*                                                                         *)
(* The callers are goroutines that share one client.  Time is counted in   *)
(* hours; a request and its answer each take at most Latency of them.      *)
(***************************************************************************)
EXTENDS Sequences, Integers, FiniteSets

CONSTANTS
    Invoker,       \* goroutines that call
    TokenDuration, \* how long a session lasts
    Freshness,     \* how long the client uses a token
    Latency,       \* how long a message may take
    Sessions,      \* how many sessions the server remembers
    RpcSettings    \* how many calls (max) and hours (hours), what may happen (ops), whether the server is a proxy (proxy)

VARIABLES
    rpcSetting,    \* one of RpcSettings; it never changes
    now,           \* the time
    token,         \* the client's token, 0 if there is none
    lastRefresh,   \* when it got it
    sessionCache,  \* the sessions, least recently used first: [token, expires]
    invoke,        \* the call of each invoker
    tokens,        \* tokens given so far
    invoked,       \* calls so far
    disturbed      \* invokers whose call may fail because the server forgot a session

rpcVars == <<now, token, lastRefresh, sessionCache, invoke, tokens, invoked, disturbed>>

NoCall == [pc |-> "idle", try |-> 0, token |-> 0, at |-> 0, ran |-> 0, why |-> "ok"]

RpcInit ==
    /\ rpcSetting \in RpcSettings
    /\ now = 0
    /\ token = 0
    /\ lastRefresh = 0
    /\ sessionCache = << >>
    /\ invoke = [i \in Invoker |-> NoCall]
    /\ tokens = 0
    /\ invoked = 0
    /\ disturbed = {}

Calling == {i \in Invoker : invoke[i].pc # "idle"}

-----------------------------------------------------------------------------
(* The client sends: Invoke, makeAuthenticatedRequest. *)

Call(i) ==
    /\ invoke[i].pc = "idle"
    /\ invoked < rpcSetting.max
    /\ invoked' = invoked + 1
    /\ invoke' = [invoke EXCEPT ![i] = [NoCall EXCEPT !.pc = "make"]]
    /\ disturbed' = disturbed \ {i}
    /\ UNCHANGED <<now, token, lastRefresh, sessionCache, tokens>>

authToken == IF token = 0 \/ lastRefresh + Freshness < now THEN 0 ELSE token

Request(i) ==
    /\ invoke[i].pc = "make"
    /\ invoke' = [invoke EXCEPT ![i].pc = "sent", ![i].token = authToken, ![i].at = now]
    /\ UNCHANGED <<now, token, lastRefresh, sessionCache, tokens, invoked, disturbed>>

-----------------------------------------------------------------------------
(* The server: ServeHTTP, SessionForRequest. *)

SessionOf(t) == {k \in DOMAIN sessionCache : sessionCache[k].token = t}
Without(t) == SelectSeq(sessionCache, LAMBDA s : s.token # t)

Answer(i, why, t, ran) ==
    invoke' = [invoke EXCEPT ![i].pc = "answered", ![i].why = why, ![i].token = t, ![i].at = now, ![i].ran = @ + ran]

\* A method may answer with a status other than OK (sendResponse).
Outcomes == {"ok"} \cup IF "fail" \in rpcSetting.ops THEN {"failed"} ELSE {}

\* validateToken: a session that is over is cleared; one that is found is the last used.
validateToken(i) ==
    LET t == invoke[i].token
    IN  IF SessionOf(t) = {}
        THEN Answer(i, "unauthenticated", 0, 0) /\ UNCHANGED sessionCache
        ELSE LET s == sessionCache[CHOOSE k \in SessionOf(t) : TRUE]
             IN  IF s.expires < now
                 THEN Answer(i, "expired", 0, 0) /\ sessionCache' = Without(t)
                 ELSE (\E why \in Outcomes : Answer(i, why, 0, 1)) /\ sessionCache' = Append(Without(t), s)

\* NewSession: when there are too many the one that was not used for longest is forgotten,
\* and with it whoever used it.
NewSession(t, expires) ==
    LET all == Append(sessionCache, [token |-> t, expires |-> expires])
    IN  IF Len(all) > Sessions
        THEN sessionCache' = Tail(all) /\ disturbed' = disturbed \cup Calling
        ELSE sessionCache' = all /\ UNCHANGED disturbed

\* handleSessionRequest: the user's key must be found and the signature good; a proxy
\* only serves the user it runs as, and signs its answer.
handleSessionRequest(i) ==
    IF rpcSetting.proxy = "other"
    THEN Answer(i, "refused", 0, 0) /\ UNCHANGED <<sessionCache, tokens, disturbed>>
    ELSE /\ tokens' = tokens + 1
         /\ NewSession(tokens', now + TokenDuration)
         /\ \E why \in Outcomes : Answer(i, why, tokens', 1)

Serve(i) ==
    /\ invoke[i].pc = "sent"
    /\ \/ invoke[i].token # 0 /\ validateToken(i) /\ UNCHANGED <<tokens, disturbed>>
       \/ invoke[i].token = 0 /\ handleSessionRequest(i)
       \/ /\ invoke[i].token = 0 /\ "lookup" \in rpcSetting.ops
          /\ Answer(i, "refused", 0, 0)
          /\ UNCHANGED <<sessionCache, tokens, disturbed>>
    /\ UNCHANGED <<now, token, lastRefresh, invoked>>

\* The server is started again and has no sessions.
Restart ==
    /\ "restart" \in rpcSetting.ops
    /\ sessionCache # << >>
    /\ sessionCache' = << >>
    /\ disturbed' = disturbed \cup Calling
    /\ UNCHANGED <<now, token, lastRefresh, invoke, tokens, invoked>>

-----------------------------------------------------------------------------
(* The client receives: the rest of Invoke. *)

Finish(i, why) == invoke' = [invoke EXCEPT ![i].pc = "done", ![i].why = why]

\* Mutant of Retry: Invoke does not forget the token.
RetryOldToken(i) ==
    /\ invoke' = [invoke EXCEPT ![i].try = @ + 1, ![i].pc = IF invoke[i].try = 0 THEN "make" ELSE "done"]
    /\ UNCHANGED <<token, lastRefresh, disturbed>>

\* The session is forgotten and the request made again, once.
Retry(i) ==
    /\ token' = 0
    /\ invoke' = [invoke EXCEPT ![i].try = @ + 1, ![i].pc = IF invoke[i].try = 0 THEN "make" ELSE "done"]
    /\ UNCHANGED <<lastRefresh, disturbed>>

\* A token that comes late may be one that the server has forgotten; whoever calls now may use it.
setAuthToken(i) ==
    /\ token' = invoke[i].token
    /\ lastRefresh' = now
    /\ disturbed' = IF i \in disturbed THEN disturbed \cup Calling ELSE disturbed

\* A proxy that was sent a signed request must have signed its answer (verifyServerUser);
\* by then the token is set.
Verdicts == {"ok"} \cup IF rpcSetting.proxy # "no" /\ "unverified" \in rpcSetting.ops THEN {"refused"} ELSE {}

Receive(i) ==
    /\ invoke[i].pc = "answered"
    /\ IF invoke[i].why = "unauthenticated" THEN Retry(i)
       ELSE IF invoke[i].why = "ok" /\ invoke[i].token # 0
       THEN setAuthToken(i) /\ \E why \in Verdicts : Finish(i, why)
       ELSE Finish(i, invoke[i].why) /\ UNCHANGED <<token, lastRefresh, disturbed>>
    /\ UNCHANGED <<now, sessionCache, tokens, invoked>>

\* The connection fails, before or after the server has served the request.
Lost(i) ==
    /\ "lose" \in rpcSetting.ops
    /\ invoke[i].pc \in {"sent", "answered"}
    /\ Finish(i, "lost")
    /\ UNCHANGED <<now, token, lastRefresh, sessionCache, tokens, invoked, disturbed>>

Returned(i) ==
    /\ invoke[i].pc = "done"
    /\ invoke' = [invoke EXCEPT ![i] = NoCall]
    /\ UNCHANGED <<now, token, lastRefresh, sessionCache, tokens, invoked, disturbed>>

Hour ==
    /\ now < rpcSetting.hours
    /\ now' = now + 1
    /\ \A i \in Invoker : invoke[i].pc \in {"sent", "answered"} => invoke[i].at + Latency > now
    /\ UNCHANGED <<token, lastRefresh, sessionCache, invoke, tokens, invoked, disturbed>>

-----------------------------------------------------------------------------

Carry(i) == Request(i) \/ Serve(i) \/ Receive(i) \/ Returned(i)

RpcNext ==
    /\ \/ \E i \in Invoker : Carry(i) \/ Call(i) \/ Lost(i)
       \/ Restart
       \/ Hour
    /\ UNCHANGED rpcSetting

-----------------------------------------------------------------------------

\* A call runs its method at most once, and exactly once when it succeeds; it never
\* meets the end of its session, as the client stops using a token early enough for
\* what an answer and a request may take; and that the server does not know the
\* client makes it fail only if the server forgot a session during the call, or
\* during one whose token the call may have used (Invoke's second try is enough).
InvokeIsRight ==
    \A i \in Invoker :
        /\ invoke[i].ran <= 1
        /\ invoke[i].pc = "done" /\ invoke[i].why = "ok" => invoke[i].ran = 1
        /\ 2 * Latency <= TokenDuration - Freshness => invoke[i].why # "expired"
        /\ invoke[i].pc = "done" /\ invoke[i].why = "unauthenticated" => i \in disturbed
=============================================================================
