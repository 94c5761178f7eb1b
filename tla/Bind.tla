------------------------------- MODULE Bind ---------------------------------
(***************************************************************************)
(* bind/bind.go: how a client gets hold of its servers.  A service that    *)
(* was dialed is kept and shared by all who ask for the same key (user,    *)
(* endpoint and dialer); it is asked for a sign of life when the last one  *)
(* is old, and released and dialed again when it gives none.  Calls that   *)
(* ask for a key while it is being dialed wait for that dial.              *)
(*                                                                         *)
(* A step is a critical section of mu, a ping (under the mutex of the      *)
(* service) or a dial.  Services are numbered in the order of their dials; *)
(* 0 is no service.                                                        *)
(*                                                                         *)
(* Each dial gives a service of its own, as those of remote servers do.    *)
(* The in-process key server gives the same one each time (it has nothing  *)
(* to close, key/inprocess/key.go:105), so that reverseLookup has only the *)
(* last of its keys and Release clears only that place.  Such a service is *)
(* not modelled, and nothing is said of it.                                *)
(***************************************************************************)
EXTENDS Sequences, Integers

CONSTANTS
    Caller,        \* goroutines that ask for services
    Key,           \* dial keys
    KeyServerKey,  \* the key of the key server
    BindSettings   \* what callers ask for (asks), how often (max), how many dials (dials), what may happen (events, unstable)

VARIABLES
    bindSetting,   \* one of BindSettings; it never changes
    dialCache,     \* the service kept for each key, or 0
    reverseLookup, \* the services whose key is known
    inflightDials, \* the dial in flight for each key, or 0
    dials,         \* all dials so far: [key, service, done, failed]
    service,       \* all services so far: [key, dead, fresh, closed]
    up,            \* the keys whose server can be reached
    caller,        \* what each caller is doing
    asked          \* calls so far

\* Who asks, asks for something.
ASSUME BindAssumption == \A s \in BindSettings : s.asks \subseteq Seq(Key) \ {<< >>}

bindVars == <<dialCache, reverseLookup, inflightDials, dials, service, up, caller, asked>>

Resting == [pc |-> "idle", keys |-> << >>, ds |-> 0, dial |-> 0]

BindInit ==
    /\ bindSetting \in BindSettings
    /\ dialCache = [k \in Key |-> 0]
    /\ reverseLookup = {}
    /\ inflightDials = [k \in Key |-> 0]
    /\ dials = << >>
    /\ service = << >>
    /\ up = Key
    /\ caller = [c \in Caller |-> Resting]
    /\ asked = 0

\* A caller's request is the sequence of keys to try: one for KeyServer, StoreServer
\* and DirServer; for DirServerFor the key server, and then the user's endpoints.
key(c) == caller[c].keys[1]
Move(c, pc) == caller' = [caller EXCEPT ![c].pc = pc]

Ask(c, keys) ==
    /\ caller[c].pc = "idle"
    /\ asked < bindSetting.max
    /\ asked' = asked + 1
    /\ caller' = [caller EXCEPT ![c] = [Resting EXCEPT !.pc = "reach", !.keys = keys]]
    /\ UNCHANGED <<dialCache, reverseLookup, inflightDials, dials, service, up>>

\* DirServerFor goes on to ask the key server for the user, whose endpoints it then
\* tries one after the other until one can be reached.
Result(c, s) ==
    caller' = [caller EXCEPT ![c] =
        IF s # 0 /\ key(c) = KeyServerKey /\ Len(caller[c].keys) > 1
        THEN [Resting EXCEPT !.pc = "lookup", !.keys = caller[c].keys]
        ELSE IF s # 0 THEN [Resting EXCEPT !.pc = "got", !.ds = s]
        ELSE IF key(c) = KeyServerKey \/ Len(caller[c].keys) = 1 THEN [Resting EXCEPT !.pc = "failed"]
        ELSE [Resting EXCEPT !.pc = "reach", !.keys = Tail(caller[c].keys)]]

LookupUser(c) ==
    /\ caller[c].pc = "lookup"
    /\ \/ /\ key(c) \in up
          /\ caller' = [caller EXCEPT ![c] = [Resting EXCEPT !.pc = "reach", !.keys = Tail(caller[c].keys)]]
       \/ /\ "lookup" \in bindSetting.events
          /\ caller' = [caller EXCEPT ![c] = [Resting EXCEPT !.pc = "failed"]]
    /\ UNCHANGED <<dialCache, reverseLookup, inflightDials, dials, service, up, asked>>

-----------------------------------------------------------------------------
(* reachableService. *)

\* Mutant of Reach: a dial in flight is not noticed.
ReachAlone(c) ==
    LET k == key(c)
    IN  /\ caller[c].pc = "reach"
        /\ IF dialCache[k] # 0
           THEN caller' = [caller EXCEPT ![c].pc = "ping", ![c].ds = dialCache[k]] /\ UNCHANGED <<dials, inflightDials>>
           ELSE /\ dials' = Append(dials, [key |-> k, service |-> 0, done |-> FALSE, failed |-> FALSE])
                /\ inflightDials' = [inflightDials EXCEPT ![k] = Len(dials')]
                /\ caller' = [caller EXCEPT ![c].pc = "dial", ![c].dial = Len(dials')]
        /\ UNCHANGED <<dialCache, reverseLookup, service, up, asked>>

Reach(c) ==
    LET k == key(c)
    IN  /\ caller[c].pc = "reach"
        /\ IF dialCache[k] # 0
           THEN caller' = [caller EXCEPT ![c].pc = "ping", ![c].ds = dialCache[k]] /\ UNCHANGED <<dials, inflightDials>>
           ELSE IF inflightDials[k] # 0
           THEN caller' = [caller EXCEPT ![c].pc = "wait", ![c].dial = inflightDials[k]] /\ UNCHANGED <<dials, inflightDials>>
           ELSE /\ dials' = Append(dials, [key |-> k, service |-> 0, done |-> FALSE, failed |-> FALSE])
                /\ inflightDials' = [inflightDials EXCEPT ![k] = Len(dials')]
                /\ caller' = [caller EXCEPT ![c].pc = "dial", ![c].dial = Len(dials')]
        /\ UNCHANGED <<dialCache, reverseLookup, service, up, asked>>

\* The result of the dial is the result of all who waited for it.
Wait(c) ==
    /\ caller[c].pc = "wait"
    /\ dials[caller[c].dial].done
    /\ Result(c, dials[caller[c].dial].service)
    /\ UNCHANGED <<dialCache, reverseLookup, inflightDials, dials, service, up, asked>>

\* ping: dead is dead; a fresh sign of life is good; otherwise the server is asked.
Ping(c) ==
    LET s == caller[c].ds
    IN  /\ caller[c].pc = "ping"
        /\ IF ~service[s].dead /\ (service[s].fresh \/ service[s].key \in up)
           THEN service' = [service EXCEPT ![s].fresh = TRUE] /\ Result(c, s)
           ELSE service' = [service EXCEPT ![s].dead = TRUE] /\ Move(c, "release")
        /\ UNCHANGED <<dialCache, reverseLookup, inflightDials, dials, up, asked>>

\* Release of a service that is known: no cache has it and it is closed.
Release(s) ==
    /\ dialCache' = [dialCache EXCEPT ![service[s].key] = 0]
    /\ reverseLookup' = reverseLookup \ {s}
    /\ service' = [service EXCEPT ![s].closed = @ + 1]

\* A dead service is released, and reachableService tries again; but if another call
\* has released it meanwhile this one fails.
ReleaseDead(c) ==
    /\ caller[c].pc = "release"
    /\ IF caller[c].ds \in reverseLookup
       THEN Release(caller[c].ds) /\ caller' = [caller EXCEPT ![c].pc = "reach", ![c].ds = 0]
       ELSE Result(c, 0) /\ UNCHANGED <<dialCache, reverseLookup, service>>
    /\ UNCHANGED <<inflightDials, dials, up, asked>>

\* The dial, which needs the server unless the service puts it off ...
Dial(c) ==
    /\ caller[c].pc = "dial"
    /\ IF key(c) \in up
       THEN /\ service' = Append(service, [key |-> key(c), dead |-> FALSE, fresh |-> TRUE, closed |-> 0])
            /\ caller' = [caller EXCEPT ![c].pc = "dialed", ![c].ds = Len(service')]
       ELSE Move(c, "dialed") /\ UNCHANGED service
    /\ UNCHANGED <<dialCache, reverseLookup, inflightDials, dials, up, asked>>

\* ... and its end: the service is kept and those who wait are woken.
Dialed(c) ==
    LET d == caller[c].dial
        s == caller[c].ds
        k == key(c)
    IN  /\ caller[c].pc = "dialed"
        /\ dials' = [dials EXCEPT ![d].service = s, ![d].failed = s = 0, ![d].done = TRUE]
        /\ dialCache' = IF s = 0 THEN dialCache ELSE [dialCache EXCEPT ![k] = s]
        /\ reverseLookup' = IF s = 0 THEN reverseLookup ELSE reverseLookup \cup {s}
        /\ inflightDials' = [inflightDials EXCEPT ![k] = 0]
        /\ Result(c, s)
        /\ UNCHANGED <<service, up, asked>>

-----------------------------------------------------------------------------
(* What the callers do with what they got, and what happens to the servers. *)

Leave(c) ==
    /\ caller[c].pc \in {"got", "failed"}
    /\ caller' = [caller EXCEPT ![c] = Resting]
    /\ UNCHANGED <<dialCache, reverseLookup, inflightDials, dials, service, up, asked>>

\* A caller may release its service; it is an error if that has been done.
ReleaseOwn(c) ==
    /\ caller[c].pc = "got"
    /\ "release" \in bindSetting.events
    /\ caller' = [caller EXCEPT ![c] = Resting]
    /\ IF caller[c].ds \in reverseLookup THEN Release(caller[c].ds)
       ELSE UNCHANGED <<dialCache, reverseLookup, service>>
    /\ UNCHANGED <<inflightDials, dials, up, asked>>

Age(s) ==
    /\ "age" \in bindSetting.events
    /\ service[s].fresh
    /\ service' = [service EXCEPT ![s].fresh = FALSE]
    /\ UNCHANGED <<dialCache, reverseLookup, inflightDials, dials, up, caller, asked>>

Turn(k) ==
    /\ k \in bindSetting.unstable
    /\ up' = IF k \in up THEN up \ {k} ELSE up \cup {k}
    /\ UNCHANGED <<dialCache, reverseLookup, inflightDials, dials, service, caller, asked>>

Act(c) ==
    \/ LookupUser(c) \/ Reach(c) \/ Wait(c) \/ Ping(c) \/ ReleaseDead(c) \/ Dial(c) \/ Dialed(c) \/ Leave(c)

\* The number of dials is bounded; so is, with it, the number of services.
BindNext ==
    /\ \/ \E c \in Caller : Act(c) \/ ReleaseOwn(c)
       \/ \E c \in Caller : \E keys \in bindSetting.asks : Ask(c, keys)
       \/ \E s \in DOMAIN service : Age(s)
       \/ \E k \in Key : Turn(k)
    /\ Len(dials') <= bindSetting.dials
    /\ UNCHANGED bindSetting

BindSpec == BindInit /\ [][BindNext]_<<bindVars, bindSetting>>

-----------------------------------------------------------------------------

\* A service in the cache is open, and is the one whose release clears that place;
\* every open service is in the cache or is just being dialed, so none is lost; none
\* is closed twice; and no key is dialed twice at the same time.  (reachableService
\* and Release change the caches and reverseLookup in separate critical sections.)
BindKeepsTrack ==
    /\ \A k \in Key : dialCache[k] # 0 =>
        /\ service[dialCache[k]].key = k
        /\ service[dialCache[k]].closed = 0
        /\ dialCache[k] \in reverseLookup
    /\ \A s \in DOMAIN service :
        /\ service[s].closed <= 1
        /\ service[s].closed = 0 =>
               dialCache[service[s].key] = s \/ \E c \in Caller : caller[c].pc = "dialed" /\ caller[c].ds = s
    /\ \A d, e \in DOMAIN dials : dials[d].key = dials[e].key /\ ~dials[d].done /\ ~dials[e].done => d = e
=============================================================================
