----------------------------- MODULE BindProofs -----------------------------
(***************************************************************************)
(* That bind loses no service and dials no key twice at the same time, for *)
(* any number of callers, keys, requests and dials.                        *)
(*                                                                         *)
(* dialCache, reverseLookup and inflightDials change in separate critical  *)
(* sections; the argument is that a caller that dials has its key for      *)
(* itself, so that nobody fills the place of the cache before it does.     *)
(***************************************************************************)
EXTENDS Bind, TLAPS

PCs == {"idle", "lookup", "reach", "wait", "ping", "release", "dial", "dialed", "got", "failed"}
CallerType == [pc : PCs, keys : Seq(Key), ds : Nat, dial : Nat]
DialType == [key : Key, service : Nat, done : BOOLEAN, failed : BOOLEAN]
ServiceType == [key : Key, dead : BOOLEAN, fresh : BOOLEAN, closed : Nat]

BindTypeOK ==
    /\ bindSetting \in BindSettings
    /\ dialCache \in [Key -> Nat]
    /\ reverseLookup \subseteq 1..Len(service)
    /\ inflightDials \in [Key -> Nat]
    /\ dials \in Seq(DialType)
    /\ service \in Seq(ServiceType)
    /\ caller \in [Caller -> CallerType]
    /\ \A d \in 1..Len(dials) : dials[d].service \in 0..Len(service)

\* What a caller carries from one critical section to the next is still there.
CallerOK(c) ==
    LET r == caller[c]
    IN  /\ r.pc \notin {"idle", "got", "failed"} => r.keys # << >>
        /\ r.pc = "lookup" => Len(r.keys) > 1
        /\ r.pc \in {"ping", "release", "got"} => r.ds \in 1..Len(service)
        /\ r.pc \in {"wait", "dial", "dialed"} => r.dial \in 1..Len(dials)
        /\ r.pc \in {"reach", "dial"} => r.ds = 0

\* The dial in flight for a key is the only one, and is that of one caller.
Dialing(c) == caller[c].pc \in {"dial", "dialed"}
DialerOK(c) == Dialing(c) => inflightDials[key(c)] = caller[c].dial /\ dialCache[key(c)] = 0
OneDialer == \A c, e \in Caller : Dialing(c) /\ Dialing(e) /\ key(c) = key(e) => c = e
DialsOK ==
    /\ \A d \in 1..Len(dials) : ~dials[d].done => inflightDials[dials[d].key] = d
    /\ \A k \in Key : inflightDials[k] \in 0..Len(dials)

\* A service that was just dialed is open and nobody else knows it.
JustDialed(s) == \E c \in Caller : caller[c].pc = "dialed" /\ caller[c].ds = s
DialedOK(c) ==
    LET s == caller[c].ds
    IN  caller[c].pc = "dialed" /\ s # 0 =>
            s \in 1..Len(service) /\ s \notin reverseLookup /\ service[s].key = key(c) /\ service[s].closed = 0

\* dialCache and reverseLookup are inverse to each other; what is in neither is
\* closed or was just dialed.
CachesOK ==
    /\ \A k \in Key : dialCache[k] # 0 => dialCache[k] \in reverseLookup /\ service[dialCache[k]].key = k
    /\ \A s \in reverseLookup : dialCache[service[s].key] = s /\ service[s].closed = 0
ServicesOK ==
    \A s \in 1..Len(service) :
        service[s].closed <= 1 /\ (service[s].closed = 0 => s \in reverseLookup \/ JustDialed(s))

BindInv ==
    /\ BindTypeOK /\ CachesOK /\ ServicesOK /\ DialsOK /\ OneDialer
    /\ \A c \in Caller : CallerOK(c) /\ DialerOK(c) /\ DialedOK(c)

-----------------------------------------------------------------------------
(* Sequences and callers. *)

\* A sequence is a function on its places.
LEMMA SeqShape ==
    ASSUME NEW S, NEW q \in Seq(S)
    PROVE  Len(q) \in Nat /\ DOMAIN q = 1..Len(q) /\ (\A i \in 1..Len(q) : q[i] \in S) /\ (q = << >> <=> Len(q) = 0)
OBVIOUS

\* The head and the tail of a request's keys.
LEMMA KeysShape ==
    ASSUME NEW q \in Seq(Key), q # << >>
    PROVE  /\ q[1] \in Key /\ Len(q) \in Nat \ {0}
           /\ Len(q) > 1 => Tail(q) \in Seq(Key) /\ Tail(q) # << >>
<1>1. Len(q) \in Nat /\ Len(q) # 0
  BY SeqShape
<1>2. q[1] \in Key
  BY <1>1
<1>3. Tail(q) \in Seq(Key) /\ Len(Tail(q)) = Len(q) - 1
  BY <1>1
<1>4. Tail(q) = << >> => Len(Tail(q)) = 0
  BY <1>3, SeqShape, Zenon
<1> QED
  BY <1>1, <1>2, <1>3, <1>4

\* An element is added to a sequence ...
LEMMA AppendShape ==
    ASSUME NEW S, NEW q \in Seq(S), NEW e \in S, NEW p, p = Append(q, e)
    PROVE  /\ p \in Seq(S) /\ Len(p) = Len(q) + 1 /\ p[Len(p)] = e
           /\ \A i \in 1..Len(q) : p[i] = q[i]
OBVIOUS

\* ... or replaced.
LEMMA ExceptShape ==
    ASSUME NEW S, NEW q \in Seq(S), NEW i \in 1..Len(q), NEW e \in S, NEW p, p = [q EXCEPT ![i] = e]
    PROVE  /\ p \in Seq(S) /\ Len(p) = Len(q) /\ p[i] = e
           /\ \A j \in 1..Len(q) : j # i => p[j] = q[j]
OBVIOUS

\* A caller that has nothing.
LEMMA RestingShape ==
    ASSUME NEW e, e = << >>
    PROVE  Resting = [pc |-> "idle", keys |-> e, ds |-> 0, dial |-> 0] /\ e \in Seq(Key)
<1>1. Resting = [pc |-> "idle", keys |-> e, ds |-> 0, dial |-> 0]
  BY Zenon DEF Resting
<1>2. e \in Seq(Key)
  OBVIOUS
<1> QED
  BY <1>1, <1>2

\* A caller that tries its next keys ...
LEMMA RestingReach ==
    ASSUME NEW q \in Seq(Key), NEW r, r = [Resting EXCEPT !.pc = "reach", !.keys = q]
    PROVE  r \in CallerType /\ r.pc = "reach" /\ r.keys = q /\ r.ds = 0
<1>1. PICK e : e = << >>
  OBVIOUS
<1>2. Resting = [pc |-> "idle", keys |-> e, ds |-> 0, dial |-> 0] /\ e \in Seq(Key)
  BY <1>1, RestingShape
<1>3. r = [pc |-> "reach", keys |-> q, ds |-> 0, dial |-> 0]
  BY <1>2, Zenon
<1> QED
  BY <1>2, <1>3 DEF CallerType, PCs

\* ... or asks the key server ...
LEMMA RestingLookup ==
    ASSUME NEW q \in Seq(Key), NEW r, r = [Resting EXCEPT !.pc = "lookup", !.keys = q]
    PROVE  r \in CallerType /\ r.pc = "lookup" /\ r.keys = q
<1>1. PICK e : e = << >>
  OBVIOUS
<1>2. Resting = [pc |-> "idle", keys |-> e, ds |-> 0, dial |-> 0] /\ e \in Seq(Key)
  BY <1>1, RestingShape
<1>3. r = [pc |-> "lookup", keys |-> q, ds |-> 0, dial |-> 0]
  BY <1>2, Zenon
<1> QED
  BY <1>2, <1>3 DEF CallerType, PCs

\* ... or has got its service ...
LEMMA RestingGot ==
    ASSUME NEW s \in Nat, NEW r, r = [Resting EXCEPT !.pc = "got", !.ds = s]
    PROVE  r \in CallerType /\ r.pc = "got" /\ r.ds = s
<1>1. PICK e : e = << >>
  OBVIOUS
<1>2. Resting = [pc |-> "idle", keys |-> e, ds |-> 0, dial |-> 0] /\ e \in Seq(Key)
  BY <1>1, RestingShape
<1>3. r = [pc |-> "got", keys |-> e, ds |-> s, dial |-> 0]
  BY <1>2, Zenon
<1> QED
  BY <1>2, <1>3 DEF CallerType, PCs

\* ... or an error.
LEMMA RestingAt ==
    ASSUME NEW p \in PCs, NEW r, r = [Resting EXCEPT !.pc = p]
    PROVE  r \in CallerType /\ r.pc = p
<1>1. PICK e : e = << >>
  OBVIOUS
<1>2. Resting = [pc |-> "idle", keys |-> e, ds |-> 0, dial |-> 0] /\ e \in Seq(Key)
  BY <1>1, RestingShape
<1>3. r = [pc |-> p, keys |-> e, ds |-> 0, dial |-> 0]
  BY <1>2 DEF PCs
<1> QED
  BY <1>2, <1>3 DEF CallerType

\* What is not nothing and not one is more.
LEMMA MoreThanOne ==
    ASSUME NEW n \in Nat, n # 0, n # 1
    PROVE  n > 1
OBVIOUS

\* The state of one caller changes.
LEMMA CallerMoves ==
    ASSUME BindTypeOK, NEW c \in Caller, NEW r \in CallerType, caller' = [caller EXCEPT ![c] = r]
    PROVE  /\ caller' \in [Caller -> CallerType] /\ caller'[c] = r
           /\ \A e \in Caller \ {c} : caller'[e] = caller[e]
BY DEF BindTypeOK

\* A caller that tries to reach a service has a key.
LEMMA KeyOfCaller ==
    ASSUME BindTypeOK, NEW c \in Caller, CallerOK(c), caller[c].pc \notin {"idle", "got", "failed"}
    PROVE  /\ key(c) \in Key /\ caller[c].keys \in Seq(Key) /\ caller[c].keys # << >>
           /\ Len(caller[c].keys) \in Nat \ {0}
           /\ Len(caller[c].keys) > 1 => Tail(caller[c].keys) \in Seq(Key) /\ Tail(caller[c].keys) # << >>
<1>1. PICK q : q = caller[c].keys
  OBVIOUS
<1>2. q \in Seq(Key)
  BY <1>1 DEF BindTypeOK, CallerType
<1>3. q # << >>
  BY <1>1 DEF CallerOK
<1> QED
  BY <1>1, <1>2, <1>3, KeysShape DEF key

\* What the result of reachableService makes of a caller.
LEMMA ResultMoves ==
    ASSUME BindTypeOK, NEW c \in Caller, CallerOK(c), caller[c].pc \notin {"idle", "got", "failed"},
           NEW s \in Nat, Result(c, s)
    PROVE  /\ caller' \in [Caller -> CallerType]
           /\ \A e \in Caller \ {c} : caller'[e] = caller[e]
           /\ caller'[c].pc \in {"lookup", "got", "failed", "reach"}
           /\ caller'[c].pc \in {"lookup", "reach"} => caller'[c].keys # << >>
           /\ caller'[c].pc = "lookup" => Len(caller'[c].keys) > 1
           /\ caller'[c].pc = "got" => caller'[c].ds = s /\ s # 0
           /\ caller'[c].pc = "reach" => caller'[c].ds = 0
<1>1. PICK q : q = caller[c].keys
  OBVIOUS
<1>2. q # << >> /\ (Len(q) > 1 => Tail(q) # << >>)
  BY <1>1, KeyOfCaller
<1>n. Len(q) \in Nat /\ Len(q) # 0
  BY <1>1, KeyOfCaller
<1>k. q \in Seq(Key) /\ (Len(q) > 1 => Tail(q) \in Seq(Key))
  BY <1>1, KeyOfCaller
<1>3. PICK r : /\ caller' = [caller EXCEPT ![c] = r]
               /\ \/ r = [Resting EXCEPT !.pc = "lookup", !.keys = q] /\ Len(q) > 1
                  \/ r = [Resting EXCEPT !.pc = "got", !.ds = s] /\ s # 0
                  \/ r = [Resting EXCEPT !.pc = "failed"]
                  \/ r = [Resting EXCEPT !.pc = "reach", !.keys = Tail(q)] /\ Len(q) > 1
  <2>1. Len(q) # 1 => Len(q) > 1
    BY <1>n, MoreThanOne, Zenon
  <2> QED
    BY <1>1, <2>1, Zenon DEF Result
<1>4. "failed" \in PCs
  BY DEF PCs
<1>5. /\ r \in CallerType /\ r.pc \in {"lookup", "got", "failed", "reach"}
      /\ r.pc \in {"lookup", "reach"} => r.keys # << >>
      /\ r.pc = "lookup" => Len(r.keys) > 1
      /\ r.pc = "got" => r.ds = s /\ s # 0
      /\ r.pc = "reach" => r.ds = 0
  <2>1. CASE r = [Resting EXCEPT !.pc = "lookup", !.keys = q] /\ Len(q) > 1
    <3>1. r \in CallerType /\ r.pc = "lookup" /\ r.keys = q
      BY <1>k, <2>1, RestingLookup, Zenon
    <3> QED
      BY <1>2, <2>1, <3>1, Zenon
  <2>2. CASE r = [Resting EXCEPT !.pc = "got", !.ds = s] /\ s # 0
    <3>1. r \in CallerType /\ r.pc = "got" /\ r.ds = s
      BY <2>2, RestingGot, Zenon
    <3> QED
      BY <2>2, <3>1, Zenon
  <2>3. CASE r = [Resting EXCEPT !.pc = "failed"]
    <3>1. r \in CallerType /\ r.pc = "failed"
      BY <1>4, <2>3, RestingAt, Zenon
    <3> QED
      BY <3>1, Zenon
  <2>4. CASE r = [Resting EXCEPT !.pc = "reach", !.keys = Tail(q)] /\ Len(q) > 1
    <3>1. r \in CallerType /\ r.pc = "reach" /\ r.keys = Tail(q) /\ r.ds = 0
      <4>1. PICK t \in Seq(Key) : t = Tail(q)
        BY <1>k, <2>4, Zenon
      <4>2. r = [Resting EXCEPT !.pc = "reach", !.keys = t]
        BY <2>4, <4>1, Zenon
      <4> QED
        BY <4>1, <4>2, RestingReach, Zenon
    <3> QED
      BY <1>2, <2>4, <3>1, Zenon
  <2> QED
    BY <1>3, <2>1, <2>2, <2>3, <2>4, Zenon
<1>6. caller' \in [Caller -> CallerType] /\ caller'[c] = r /\ \A e \in Caller \ {c} : caller'[e] = caller[e]
  BY <1>3, <1>5, CallerMoves, Zenon
<1> QED
  BY <1>5, <1>6, Zenon

-----------------------------------------------------------------------------
(* Steps that change no cache. *)

\* A caller that does not move is as right as before.
LEMMA CallerFrame ==
    ASSUME BindTypeOK, BindTypeOK', NEW c \in Caller, CallerOK(c), caller'[c] = caller[c],
           Len(service') >= Len(service), Len(dials') >= Len(dials)
    PROVE  CallerOK(c)'
<1>1. Len(service) \in Nat /\ Len(service') \in Nat /\ Len(dials) \in Nat /\ Len(dials') \in Nat
  BY SeqShape DEF BindTypeOK
<1>2. caller'[c].pc \notin {"idle", "got", "failed"} => caller'[c].keys # << >>
  BY Zenon DEF CallerOK
<1>3. /\ caller'[c].pc = "lookup" => Len(caller'[c].keys) > 1
      /\ caller'[c].pc \in {"ping", "release", "got"} => caller'[c].ds \in 1..Len(service')
      /\ caller'[c].pc \in {"wait", "dial", "dialed"} => caller'[c].dial \in 1..Len(dials')
      /\ caller'[c].pc \in {"reach", "dial"} => caller'[c].ds = 0
  BY <1>1 DEF CallerOK
<1> QED
  BY <1>2, <1>3, Zenon DEF CallerOK

\* Services keep their keys, and none is closed.
SameServices ==
    /\ service' \in Seq(ServiceType) /\ Len(service') = Len(service)
    /\ \A s \in 1..Len(service) : service'[s].key = service[s].key /\ service'[s].closed = service[s].closed

\* Callers that do not dial move.
OthersMove ==
    /\ caller' \in [Caller -> CallerType]
    /\ \A c \in Caller : caller'[c] = caller[c] \/ (~Dialing(c) /\ ~Dialing(c)' /\ CallerOK(c)')

\* A step of callers that do not dial.
LEMMA QuietInv ==
    ASSUME BindInv, SameServices, OthersMove,
           UNCHANGED <<dialCache, reverseLookup, inflightDials, dials, bindSetting>>
    PROVE  BindInv'
<1>1. BindTypeOK'
  BY DEF BindInv, BindTypeOK, SameServices, OthersMove
<1>2. Len(service) \in Nat /\ Len(dials) \in Nat
  BY SeqShape DEF BindInv, BindTypeOK
<1>3. ASSUME NEW c \in Caller, Dialing(c) \/ Dialing(c)' PROVE caller'[c] = caller[c]
  BY <1>3 DEF OthersMove
<1>4. ASSUME NEW s, JustDialed(s) PROVE JustDialed(s)'
  <2>1. PICK c \in Caller : caller[c].pc = "dialed" /\ caller[c].ds = s
    BY <1>4 DEF JustDialed
  <2>2. caller'[c] = caller[c]
    BY <1>3, <2>1 DEF Dialing
  <2> QED
    BY <2>1, <2>2 DEF JustDialed
<1>5. CachesOK'
  <2>1. CachesOK /\ reverseLookup \subseteq 1..Len(service)
    BY DEF BindInv, BindTypeOK
  <2> QED
    BY <2>1 DEF CachesOK, SameServices
<1>6. ServicesOK'
  <2>1. ServicesOK
    BY DEF BindInv
  <2> QED
    BY <1>4, <2>1 DEF ServicesOK, SameServices
<1>7. DialsOK'
  BY DEF BindInv, DialsOK
<1>8. OneDialer'
  <2>1. OneDialer
    BY DEF BindInv
  <2> SUFFICES ASSUME NEW c \in Caller, NEW e \in Caller, Dialing(c)', Dialing(e)', key(c)' = key(e)' PROVE c = e
    BY DEF OneDialer
  <2> QED
    BY <1>3, <2>1 DEF OneDialer, Dialing, key
<1>9. ASSUME NEW c \in Caller PROVE CallerOK(c)'
  <2>1. CASE caller'[c] = caller[c]
    BY <1>1, <1>2, <2>1, CallerFrame DEF BindInv, SameServices
  <2> QED
    BY <2>1 DEF OthersMove
<1>10. ASSUME NEW c \in Caller PROVE DialerOK(c)'
  <2>1. CASE Dialing(c)'
    BY <1>3, <2>1 DEF BindInv, DialerOK, Dialing, key
  <2> QED
    BY <2>1 DEF DialerOK
<1>11. ASSUME NEW c \in Caller PROVE DialedOK(c)'
  <2>1. CASE Dialing(c)'
    BY <1>3, <2>1 DEF BindInv, DialedOK, key, SameServices
  <2> QED
    BY <2>1 DEF DialedOK, Dialing
<1> QED
  BY <1>1, <1>5, <1>6, <1>7, <1>8, <1>9, <1>10, <1>11 DEF BindInv

-----------------------------------------------------------------------------
(* The actions of callers that do not dial. *)

\* One caller moves, and it does not dial.
LEMMA OneMoves ==
    ASSUME NEW c \in Caller, caller' \in [Caller -> CallerType],
           \A e \in Caller \ {c} : caller'[e] = caller[e], ~Dialing(c), ~Dialing(c)', CallerOK(c)'
    PROVE  OthersMove
BY DEF OthersMove

\* A caller that changes its place in the code, the service or the dial it knows.
Becomes(c, p, s, d) ==
    /\ caller' \in [Caller -> CallerType]
    /\ caller'[c].pc = p /\ caller'[c].keys = caller[c].keys /\ caller'[c].ds = s /\ caller'[c].dial = d
    /\ \A e \in Caller \ {c} : caller'[e] = caller[e]

\* The assignments that do so.
LEMMA Assignments ==
    ASSUME BindTypeOK, NEW c \in Caller, NEW p \in PCs, NEW n \in Nat
    PROVE  /\ caller' = [caller EXCEPT ![c].pc = p] => Becomes(c, p, caller[c].ds, caller[c].dial)
           /\ caller' = [caller EXCEPT ![c].pc = p, ![c].ds = n] => Becomes(c, p, n, caller[c].dial)
           /\ caller' = [caller EXCEPT ![c].pc = p, ![c].dial = n] => Becomes(c, p, caller[c].ds, n)
<1>1. caller \in [Caller -> CallerType] /\ caller[c] \in CallerType
  BY DEF BindTypeOK
<1>2. ASSUME caller' = [caller EXCEPT ![c].pc = p] PROVE Becomes(c, p, caller[c].ds, caller[c].dial)
  BY <1>1, <1>2, SMTT(30) DEF Becomes, CallerType
<1>3. ASSUME caller' = [caller EXCEPT ![c].pc = p, ![c].ds = n] PROVE Becomes(c, p, n, caller[c].dial)
  BY <1>1, <1>3, Zenon DEF Becomes, CallerType
<1>4. ASSUME caller' = [caller EXCEPT ![c].pc = p, ![c].dial = n] PROVE Becomes(c, p, caller[c].ds, n)
  BY <1>1, <1>4, Zenon DEF Becomes, CallerType
<1> QED
  BY <1>2, <1>3, <1>4

\* A service is changed in nothing that matters to the caches.
LEMMA ServiceChanges ==
    ASSUME service \in Seq(ServiceType), NEW s \in 1..Len(service), NEW r \in ServiceType,
           service' = [service EXCEPT ![s] = r], r.key = service[s].key, r.closed = service[s].closed
    PROVE  SameServices
<1>1. /\ service' \in Seq(ServiceType) /\ Len(service') = Len(service) /\ service'[s] = r
      /\ \A j \in 1..Len(service) : j # s => service'[j] = service[j]
  BY ExceptShape
<1> QED
  BY <1>1 DEF SameServices

\* After reachableService a caller does not dial.
LEMMA ResultOK ==
    ASSUME BindInv, NEW c \in Caller, caller[c].pc \notin {"idle", "got", "failed"},
           NEW s \in 0..Len(service), Result(c, s), Len(service') = Len(service)
    PROVE  /\ caller' \in [Caller -> CallerType]
           /\ \A e \in Caller \ {c} : caller'[e] = caller[e]
           /\ ~Dialing(c)' /\ CallerOK(c)'
<1>1. BindTypeOK /\ CallerOK(c)
  BY DEF BindInv
<1>2. Len(service) \in Nat /\ s \in Nat
  BY <1>1, SeqShape DEF BindTypeOK
<1>3. /\ caller' \in [Caller -> CallerType]
      /\ \A e \in Caller \ {c} : caller'[e] = caller[e]
      /\ caller'[c].pc \in {"lookup", "got", "failed", "reach"}
      /\ caller'[c].pc \in {"lookup", "reach"} => caller'[c].keys # << >>
      /\ caller'[c].pc = "lookup" => Len(caller'[c].keys) > 1
      /\ caller'[c].pc = "got" => caller'[c].ds = s /\ s # 0
      /\ caller'[c].pc = "reach" => caller'[c].ds = 0
  BY <1>1, <1>2, ResultMoves
<1>4. caller'[c].pc = "got" => caller'[c].ds \in 1..Len(service')
  BY <1>2, <1>3
<1>5. ~Dialing(c)'
  BY <1>3 DEF Dialing
<1>6. CallerOK(c)'
  BY <1>3, <1>4, Zenon DEF CallerOK
<1> QED
  BY <1>3, <1>5, <1>6

\* Someone asks.
LEMMA AskInv ==
    ASSUME BindInv, NEW c \in Caller, NEW keys \in bindSetting.asks, Ask(c, keys), UNCHANGED bindSetting
    PROVE  BindInv'
<1>1. keys \in Seq(Key) /\ keys # << >>
  BY BindAssumption, Zenon DEF BindInv, BindTypeOK
<1>2. PICK r : r = [Resting EXCEPT !.pc = "reach", !.keys = keys]
  OBVIOUS
<1>3. r \in CallerType /\ r.pc = "reach" /\ r.keys = keys /\ r.ds = 0
  BY <1>1, <1>2, RestingReach, Zenon
<1>4. caller' \in [Caller -> CallerType] /\ caller'[c] = r /\ \A e \in Caller \ {c} : caller'[e] = caller[e]
  BY <1>2, <1>3, CallerMoves, Zenon DEF Ask, BindInv
<1>5. CallerOK(c)' /\ ~Dialing(c) /\ ~Dialing(c)'
  <2>1. ~Dialing(c) /\ ~Dialing(c)'
    BY <1>3, <1>4 DEF Ask, Dialing
  <2>2. CallerOK(c)'
    BY <1>1, <1>3, <1>4, Zenon DEF CallerOK
  <2> QED
    BY <2>1, <2>2
<1>6. OthersMove
  BY <1>4, <1>5, OneMoves
<1>7. SameServices
  BY DEF Ask, SameServices, BindInv, BindTypeOK
<1> QED
  BY <1>6, <1>7, QuietInv DEF Ask

\* The key server is asked for the user.
LEMMA LookupUserInv ==
    ASSUME BindInv, NEW c \in Caller, LookupUser(c), UNCHANGED bindSetting
    PROVE  BindInv'
<1>1. PICK q : q = caller[c].keys
  OBVIOUS
<1>2. q \in Seq(Key) /\ Len(q) > 1 /\ Tail(q) \in Seq(Key) /\ Tail(q) # << >>
  <2>1. BindTypeOK /\ CallerOK(c) /\ caller[c].pc = "lookup" /\ caller[c].pc \notin {"idle", "got", "failed"}
    BY DEF BindInv, LookupUser
  <2>2. Len(q) > 1
    BY <1>1, <2>1 DEF CallerOK
  <2> QED
    BY <1>1, <2>1, <2>2, KeyOfCaller
<1>3. PICK r : /\ caller' = [caller EXCEPT ![c] = r]
               /\ r = [Resting EXCEPT !.pc = "reach", !.keys = Tail(q)] \/ r = [Resting EXCEPT !.pc = "failed"]
  BY <1>1, Zenon DEF LookupUser
<1>4. r \in CallerType /\ r.pc \in {"reach", "failed"} /\ (r.pc = "reach" => r.keys # << >> /\ r.ds = 0)
  <2>1. "failed" \in PCs
    BY DEF PCs
  <2>2. CASE r = [Resting EXCEPT !.pc = "reach", !.keys = Tail(q)]
    <3>1. PICK t \in Seq(Key) : t = Tail(q)
      BY <1>2, Zenon
    <3>2. r = [Resting EXCEPT !.pc = "reach", !.keys = t]
      BY <2>2, <3>1, Zenon
    <3>3. r \in CallerType /\ r.pc = "reach" /\ r.keys = t /\ r.ds = 0
      BY <3>2, RestingReach, Zenon
    <3> QED
      BY <1>2, <3>1, <3>3, Zenon
  <2>3. CASE r = [Resting EXCEPT !.pc = "failed"]
    BY <2>1, <2>3, RestingAt, Zenon
  <2> QED
    BY <1>3, <2>2, <2>3, Zenon
<1>5. caller' \in [Caller -> CallerType] /\ caller'[c] = r /\ \A e \in Caller \ {c} : caller'[e] = caller[e]
  BY <1>3, <1>4, CallerMoves, Zenon DEF BindInv
<1>6. ~Dialing(c) /\ ~Dialing(c)'
  BY <1>4, <1>5 DEF LookupUser, Dialing
<1>7. CallerOK(c)'
  BY <1>4, <1>5, Zenon DEF CallerOK
<1>8. OthersMove
  BY <1>5, <1>6, <1>7, OneMoves
<1>9. SameServices
  BY DEF LookupUser, SameServices, BindInv, BindTypeOK
<1> QED
  BY <1>8, <1>9, QuietInv DEF LookupUser

\* A caller that finds a service, or a dial under way.
LEMMA ReachFoundInv ==
    ASSUME BindInv, NEW c \in Caller, Reach(c), UNCHANGED <<bindSetting, dials, inflightDials>>,
           dialCache[key(c)] # 0 \/ inflightDials[key(c)] # 0
    PROVE  BindInv'
<1>1. BindTypeOK /\ CallerOK(c) /\ CachesOK /\ DialsOK
  BY DEF BindInv
<1>2. caller[c].pc = "reach" /\ caller[c].pc \notin {"idle", "got", "failed"}
  BY DEF Reach
<1>3. key(c) \in Key /\ caller[c].keys # << >>
  BY <1>1, <1>2, KeyOfCaller
<1>4. dialCache[key(c)] \in Nat /\ inflightDials[key(c)] \in Nat
  BY <1>1, <1>3 DEF BindTypeOK
<1>5. Len(service) \in Nat /\ Len(dials) \in Nat
  BY <1>1, SeqShape DEF BindTypeOK
<1>6. "ping" \in PCs /\ "wait" \in PCs
  BY DEF PCs
<1>7. \/ Becomes(c, "ping", dialCache[key(c)], caller[c].dial) /\ dialCache[key(c)] # 0
      \/ Becomes(c, "wait", caller[c].ds, inflightDials[key(c)]) /\ inflightDials[key(c)] # 0
  <2>1. \/ caller' = [caller EXCEPT ![c].pc = "ping", ![c].ds = dialCache[key(c)]] /\ dialCache[key(c)] # 0
        \/ caller' = [caller EXCEPT ![c].pc = "wait", ![c].dial = inflightDials[key(c)]] /\ inflightDials[key(c)] # 0
    BY Zenon DEF Reach
  <2> QED
    BY <1>1, <1>4, <1>6, <2>1, Assignments
<1>8. dialCache[key(c)] # 0 => dialCache[key(c)] \in 1..Len(service)
  BY <1>1, <1>3 DEF CachesOK, BindTypeOK
<1>9. inflightDials[key(c)] # 0 => inflightDials[key(c)] \in 1..Len(dials)
  BY <1>1, <1>3, <1>4, <1>5 DEF DialsOK
<1>10. SameServices
  BY <1>1 DEF Reach, SameServices, BindTypeOK
<1>11. ~Dialing(c) /\ ~Dialing(c)'
  BY <1>2, <1>7 DEF Dialing, Becomes
<1>12. CallerOK(c)'
  <2>1. caller'[c].keys # << >>
    BY <1>3, <1>7, Zenon DEF Becomes
  <2>2. /\ caller'[c].pc \in {"ping", "wait"}
        /\ caller'[c].pc = "ping" => caller'[c].ds \in 1..Len(service')
        /\ caller'[c].pc = "wait" => caller'[c].dial \in 1..Len(dials')
    BY <1>7, <1>8, <1>9, <1>10 DEF Becomes, SameServices
  <2> QED
    BY <2>1, <2>2, Zenon DEF CallerOK
<1>13. OthersMove
  BY <1>7, <1>11, <1>12, OneMoves DEF Becomes
<1> QED
  BY <1>10, <1>13, QuietInv DEF Reach

\* A caller that waited gets what was dialed.
LEMMA WaitInv ==
    ASSUME BindInv, NEW c \in Caller, Wait(c), UNCHANGED bindSetting
    PROVE  BindInv'
<1>1. BindTypeOK /\ CallerOK(c) /\ caller[c].pc = "wait" /\ caller[c].pc \notin {"idle", "got", "failed"}
  BY DEF BindInv, Wait
<1>2. caller[c].dial \in 1..Len(dials)
  BY <1>1 DEF CallerOK
<1>3. PICK s : s = dials[caller[c].dial].service
  OBVIOUS
<1>4. s \in 0..Len(service) /\ Result(c, s)
  BY <1>1, <1>2, <1>3 DEF Wait, BindTypeOK
<1>5. SameServices
  BY <1>1 DEF Wait, SameServices, BindTypeOK
<1>6. /\ caller' \in [Caller -> CallerType]
      /\ \A e \in Caller \ {c} : caller'[e] = caller[e]
      /\ ~Dialing(c)' /\ CallerOK(c)'
  BY <1>1, <1>4, <1>5, ResultOK DEF SameServices
<1>7. OthersMove
  BY <1>1, <1>6, OneMoves DEF Dialing
<1> QED
  BY <1>5, <1>7, QuietInv DEF Wait

\* The service is asked for a sign of life.
LEMMA PingInv ==
    ASSUME BindInv, NEW c \in Caller, Ping(c), UNCHANGED bindSetting
    PROVE  BindInv'
<1>1. BindTypeOK /\ CallerOK(c) /\ caller[c].pc = "ping" /\ caller[c].pc \notin {"idle", "got", "failed"}
  BY DEF BindInv, Ping
<1>2. PICK s : s = caller[c].ds
  OBVIOUS
<1>3. s \in 1..Len(service) /\ service \in Seq(ServiceType) /\ Len(service) \in Nat
  BY <1>1, <1>2, SeqShape DEF CallerOK, BindTypeOK
<1>4. service[s] \in ServiceType
  BY <1>3
<1>5. CASE service' = [service EXCEPT ![s].fresh = TRUE] /\ Result(c, s)
  <2>1. PICK r : r = [service[s] EXCEPT !.fresh = TRUE]
    BY Zenon
  <2>2. r \in ServiceType /\ r.key = service[s].key /\ r.closed = service[s].closed
    BY <1>4, <2>1, Zenon DEF ServiceType
  <2>3. SameServices
    BY <1>3, <1>5, <2>1, <2>2, ServiceChanges, Zenon
  <2>4. s \in 0..Len(service)
    BY <1>3
  <2>5. /\ caller' \in [Caller -> CallerType]
        /\ \A e \in Caller \ {c} : caller'[e] = caller[e]
        /\ ~Dialing(c)' /\ CallerOK(c)'
    BY <1>1, <1>5, <2>3, <2>4, ResultOK DEF SameServices
  <2>6. OthersMove
    BY <1>1, <2>5, OneMoves DEF Dialing
  <2> QED
    BY <2>3, <2>6, QuietInv DEF Ping
<1>6. CASE service' = [service EXCEPT ![s].dead = TRUE] /\ Move(c, "release")
  <2>1. PICK r : r = [service[s] EXCEPT !.dead = TRUE]
    BY Zenon
  <2>2. r \in ServiceType /\ r.key = service[s].key /\ r.closed = service[s].closed
    BY <1>4, <2>1, Zenon DEF ServiceType
  <2>3. SameServices
    BY <1>3, <1>6, <2>1, <2>2, ServiceChanges, Zenon
  <2>4. Becomes(c, "release", caller[c].ds, caller[c].dial)
    <3>1. "release" \in PCs
      BY DEF PCs
    <3> QED
      BY <1>1, <1>6, <3>1, Assignments, Zenon DEF Move
  <2>5. ~Dialing(c) /\ ~Dialing(c)'
    BY <1>1, <2>4 DEF Becomes, Dialing
  <2>6. CallerOK(c)'
    <3>1. caller'[c].keys # << >>
      BY <1>1, <2>4, Zenon DEF Becomes, CallerOK
    <3>2. caller'[c].pc = "release" /\ caller'[c].ds \in 1..Len(service')
      BY <1>2, <1>3, <2>3, <2>4 DEF Becomes, SameServices
    <3> QED
      BY <3>1, <3>2, Zenon DEF CallerOK
  <2>7. OthersMove
    BY <2>4, <2>5, <2>6, OneMoves DEF Becomes
  <2> QED
    BY <2>3, <2>7, QuietInv DEF Ping
<1> QED
  BY <1>2, <1>5, <1>6 DEF Ping

\* A caller rests.
LEMMA RestingMoves ==
    ASSUME BindInv, NEW c \in Caller, caller' = [caller EXCEPT ![c] = Resting]
    PROVE  /\ caller' \in [Caller -> CallerType] /\ caller'[c].pc = "idle"
           /\ \A e \in Caller \ {c} : caller'[e] = caller[e]
<1>1. PICK e : e = << >>
  OBVIOUS
<1>2. Resting = [pc |-> "idle", keys |-> e, ds |-> 0, dial |-> 0] /\ e \in Seq(Key)
  BY <1>1, RestingShape
<1>3. Resting \in CallerType /\ Resting.pc = "idle"
  BY <1>2 DEF CallerType, PCs
<1> QED
  BY <1>3, CallerMoves, Zenon DEF BindInv

\* A caller has done with its service, or its error.
LEMMA RestInv ==
    ASSUME BindInv, NEW c \in Caller, caller[c].pc \in {"got", "failed"}, caller' = [caller EXCEPT ![c] = Resting],
           UNCHANGED <<dialCache, reverseLookup, inflightDials, dials, service, bindSetting>>
    PROVE  BindInv'
<1>1. /\ caller' \in [Caller -> CallerType] /\ caller'[c].pc = "idle"
      /\ \A e \in Caller \ {c} : caller'[e] = caller[e]
  BY RestingMoves, Zenon
<1>2. ~Dialing(c) /\ ~Dialing(c)'
  BY <1>1 DEF Dialing
<1>3. CallerOK(c)'
  BY <1>1, Zenon DEF CallerOK
<1>4. OthersMove
  BY <1>1, <1>2, <1>3, OneMoves
<1>5. SameServices
  BY DEF SameServices, BindInv, BindTypeOK
<1> QED
  BY <1>4, <1>5, QuietInv

\* A sign of life grows old, or a server comes and goes.
LEMMA AgeInv ==
    ASSUME BindInv, NEW s \in DOMAIN service, Age(s), UNCHANGED bindSetting
    PROVE  BindInv'
<1>1. service \in Seq(ServiceType) /\ caller \in [Caller -> CallerType]
  BY DEF BindInv, BindTypeOK
<1>2. s \in 1..Len(service) /\ service[s] \in ServiceType
  BY <1>1, SeqShape
<1>3. PICK r : r = [service[s] EXCEPT !.fresh = FALSE]
  BY Zenon
<1>4. r \in ServiceType /\ r.key = service[s].key /\ r.closed = service[s].closed
  BY <1>2, <1>3, Zenon DEF ServiceType
<1>5. SameServices
  BY <1>1, <1>2, <1>3, <1>4, ServiceChanges, Zenon DEF Age
<1>6. OthersMove
  BY <1>1 DEF Age, OthersMove
<1> QED
  BY <1>5, <1>6, QuietInv DEF Age

\* What is not part of the invariant changes.
LEMMA StillInv ==
    ASSUME BindInv, UNCHANGED <<dialCache, reverseLookup, inflightDials, dials, service, caller, bindSetting>>
    PROVE  BindInv'
<1>1. SameServices /\ OthersMove
  BY DEF SameServices, OthersMove, BindInv, BindTypeOK
<1> QED
  BY <1>1, QuietInv

-----------------------------------------------------------------------------
(* A service is released. *)

\* The service leaves the caches and is closed, while a caller that does not dial
\* moves.
LEMMA ReleaseInv ==
    ASSUME BindInv, NEW s \in reverseLookup, Release(s), OthersMove,
           UNCHANGED <<inflightDials, dials, bindSetting>>
    PROVE  BindInv'
<1>1. BindTypeOK /\ CachesOK /\ ServicesOK
  BY DEF BindInv
<1>2. /\ s \in 1..Len(service) /\ service \in Seq(ServiceType) /\ Len(service) \in Nat /\ Len(dials) \in Nat
      /\ dialCache \in [Key -> Nat] /\ reverseLookup \subseteq 1..Len(service)
  BY <1>1, SeqShape DEF BindTypeOK
<1>3. service[s] \in ServiceType
  BY <1>2
<1>4. PICK k \in Key : k = service[s].key
  BY <1>3 DEF ServiceType
<1>5. dialCache[k] = s /\ service[s].closed = 0
  BY <1>1, <1>4 DEF CachesOK
<1>6. PICK r : r = [service[s] EXCEPT !.closed = @ + 1]
  BY Zenon
<1>7. r \in ServiceType /\ r.key = k /\ r.closed = 1
  BY <1>3, <1>4, <1>5, <1>6 DEF ServiceType
<1>8. /\ service' \in Seq(ServiceType) /\ Len(service') = Len(service) /\ service'[s] = r
      /\ \A j \in 1..Len(service) : j # s => service'[j] = service[j]
  <2>1. service' = [service EXCEPT ![s] = r]
    BY <1>6 DEF Release
  <2> QED
    BY <1>2, <1>7, <2>1, ExceptShape
<1>9. /\ dialCache' \in [Key -> Nat] /\ dialCache'[k] = 0
      /\ \A j \in Key : j # k => dialCache'[j] = dialCache[j]
  BY <1>2, <1>4 DEF Release
<1>10. reverseLookup' = reverseLookup \ {s}
  BY DEF Release
<1>11. BindTypeOK'
  BY <1>1, <1>8, <1>9, <1>10 DEF BindTypeOK, OthersMove
<1>12. ASSUME NEW c \in Caller, Dialing(c) \/ Dialing(c)' PROVE caller'[c] = caller[c]
  BY <1>12 DEF OthersMove
<1>13. CachesOK'
  <2>1. ASSUME NEW j \in Key, dialCache'[j] # 0
        PROVE  dialCache'[j] \in reverseLookup' /\ service'[dialCache'[j]].key = j
    <3>1. j # k /\ dialCache'[j] = dialCache[j]
      BY <1>9, <2>1
    <3>2. dialCache[j] \in reverseLookup /\ service[dialCache[j]].key = j
      BY <1>1, <2>1, <3>1 DEF CachesOK
    <3>3. dialCache[j] # s
      BY <1>4, <3>1, <3>2
    <3> QED
      BY <1>2, <1>8, <1>10, <3>1, <3>2, <3>3
  <2>2. ASSUME NEW x \in reverseLookup' PROVE dialCache'[service'[x].key] = x /\ service'[x].closed = 0
    <3>1. x \in reverseLookup /\ x # s /\ x \in 1..Len(service)
      BY <1>2, <1>10, <2>2
    <3>2. dialCache[service[x].key] = x /\ service[x].closed = 0
      BY <1>1, <3>1 DEF CachesOK
    <3>t. service[x] \in ServiceType
      BY <1>2, <3>1
    <3>3. service[x].key \in Key /\ service[x].key # k
      BY <1>5, <3>1, <3>2, <3>t DEF ServiceType
    <3> QED
      BY <1>8, <1>9, <3>1, <3>2, <3>3
  <2> QED
    BY <2>1, <2>2 DEF CachesOK
<1>14. ServicesOK'
  <2> SUFFICES ASSUME NEW x \in 1..Len(service)
               PROVE  service'[x].closed <= 1 /\ (service'[x].closed = 0 => x \in reverseLookup' \/ JustDialed(x)')
    BY <1>8 DEF ServicesOK
  <2>1. CASE x = s
    BY <1>7, <1>8, <2>1
  <2>2. CASE x # s
    <3>1. service'[x] = service[x]
      BY <1>8, <2>2
    <3>2. JustDialed(x) => JustDialed(x)'
      BY <1>12 DEF JustDialed, Dialing
    <3> QED
      BY <1>1, <1>10, <2>2, <3>1, <3>2 DEF ServicesOK
  <2> QED
    BY <2>1, <2>2
<1>15. DialsOK'
  BY DEF BindInv, DialsOK
<1>16. OneDialer'
  <2>1. OneDialer
    BY DEF BindInv
  <2> SUFFICES ASSUME NEW c \in Caller, NEW e \in Caller, Dialing(c)', Dialing(e)', key(c)' = key(e)' PROVE c = e
    BY DEF OneDialer
  <2> QED
    BY <1>12, <2>1 DEF OneDialer, Dialing, key
<1>17. ASSUME NEW c \in Caller PROVE CallerOK(c)'
  <2>1. CASE caller'[c] = caller[c]
    BY <1>1, <1>2, <1>8, <1>11, <2>1, CallerFrame DEF BindInv
  <2> QED
    BY <2>1 DEF OthersMove
<1>18. ASSUME NEW c \in Caller PROVE DialerOK(c)'
  <2>1. CASE Dialing(c)'
    <3>1. caller'[c] = caller[c] /\ Dialing(c)
      BY <1>12, <2>1 DEF Dialing
    <3>2. CallerOK(c) /\ inflightDials[key(c)] = caller[c].dial /\ dialCache[key(c)] = 0
      BY <3>1 DEF BindInv, DialerOK
    <3>3. key(c) \in Key
      BY <1>1, <3>1, <3>2, KeyOfCaller DEF Dialing
    <3> QED
      BY <1>9, <3>1, <3>2, <3>3 DEF DialerOK, key
  <2> QED
    BY <2>1 DEF DialerOK
<1>19. ASSUME NEW c \in Caller PROVE DialedOK(c)'
  <2>1. CASE Dialing(c)'
    <3>1. caller'[c] = caller[c] /\ DialedOK(c)
      BY <1>12, <2>1 DEF BindInv
    <3> QED
      BY <1>8, <1>10, <3>1 DEF DialedOK, key
  <2> QED
    BY <2>1 DEF DialedOK, Dialing
<1> QED
  BY <1>11, <1>13, <1>14, <1>15, <1>16, <1>17, <1>18, <1>19 DEF BindInv

\* A dead service is released, or another call has done so.
LEMMA ReleaseDeadInv ==
    ASSUME BindInv, NEW c \in Caller, ReleaseDead(c), UNCHANGED bindSetting
    PROVE  BindInv'
<1>1. BindTypeOK /\ CallerOK(c) /\ caller[c].pc = "release" /\ caller[c].pc \notin {"idle", "got", "failed"} /\ ~Dialing(c)
  BY DEF BindInv, ReleaseDead, Dialing
<1>2. CASE caller[c].ds \in reverseLookup
  <2>1. Release(caller[c].ds) /\ caller' = [caller EXCEPT ![c].pc = "reach", ![c].ds = 0]
    BY <1>2 DEF ReleaseDead
  <2>2. Becomes(c, "reach", 0, caller[c].dial)
    <3>1. "reach" \in PCs /\ 0 \in Nat
      BY DEF PCs
    <3> QED
      BY <1>1, <2>1, <3>1, Assignments, Zenon
  <2>3. ~Dialing(c)'
    BY <2>2 DEF Becomes, Dialing
  <2>4. CallerOK(c)'
    <3>1. caller'[c].keys # << >>
      BY <1>1, <2>2, Zenon DEF Becomes, CallerOK
    <3>2. caller'[c].pc = "reach" /\ caller'[c].ds = 0
      BY <2>2 DEF Becomes
    <3> QED
      BY <3>1, <3>2, Zenon DEF CallerOK
  <2>5. OthersMove
    BY <1>1, <2>2, <2>3, <2>4, OneMoves DEF Becomes
  <2> QED
    BY <1>2, <2>1, <2>5, ReleaseInv DEF ReleaseDead
<1>3. CASE caller[c].ds \notin reverseLookup
  <2>1. Result(c, 0) /\ UNCHANGED <<dialCache, reverseLookup, service, inflightDials, dials>>
    BY <1>3 DEF ReleaseDead
  <2>2. SameServices
    BY <1>1, <2>1 DEF SameServices, BindTypeOK
  <2>3. 0 \in 0..Len(service)
    BY <1>1, SeqShape DEF BindTypeOK
  <2>4. /\ caller' \in [Caller -> CallerType]
        /\ \A e \in Caller \ {c} : caller'[e] = caller[e]
        /\ ~Dialing(c)' /\ CallerOK(c)'
    BY <1>1, <2>1, <2>2, <2>3, ResultOK DEF SameServices
  <2>5. OthersMove
    BY <1>1, <2>4, OneMoves
  <2> QED
    BY <2>1, <2>2, <2>5, QuietInv
<1> QED
  BY <1>2, <1>3

\* A caller releases its service.
LEMMA ReleaseOwnInv ==
    ASSUME BindInv, NEW c \in Caller, ReleaseOwn(c), UNCHANGED bindSetting
    PROVE  BindInv'
<1>1. caller[c].pc = "got" /\ caller' = [caller EXCEPT ![c] = Resting]
  BY DEF ReleaseOwn
<1>2. CASE caller[c].ds \in reverseLookup
  <2>1. /\ caller' \in [Caller -> CallerType] /\ caller'[c].pc = "idle"
        /\ \A e \in Caller \ {c} : caller'[e] = caller[e]
    BY <1>1, RestingMoves, Zenon
  <2>2. ~Dialing(c) /\ ~Dialing(c)'
    BY <1>1, <2>1 DEF Dialing
  <2>3. CallerOK(c)'
    BY <2>1, Zenon DEF CallerOK
  <2>4. OthersMove
    BY <2>1, <2>2, <2>3, OneMoves
  <2> QED
    BY <1>2, <2>4, ReleaseInv DEF ReleaseOwn
<1>3. CASE caller[c].ds \notin reverseLookup
  BY <1>1, <1>3, RestInv, Zenon DEF ReleaseOwn
<1> QED
  BY <1>2, <1>3

-----------------------------------------------------------------------------
(* A dial. *)

\* A caller that finds neither a service nor a dial under way begins one.
LEMMA ReachNewInv ==
    ASSUME BindInv, NEW c \in Caller, Reach(c), UNCHANGED bindSetting,
           dialCache[key(c)] = 0, inflightDials[key(c)] = 0
    PROVE  BindInv'
<1>1. BindTypeOK /\ CallerOK(c) /\ CachesOK /\ DialsOK
  BY DEF BindInv
<1>2. caller[c].pc = "reach" /\ caller[c].pc \notin {"idle", "got", "failed"}
  BY DEF Reach
<1>3. key(c) \in Key /\ caller[c].keys # << >>
  BY <1>1, <1>2, KeyOfCaller
<1>4. PICK k \in Key : k = key(c)
  BY <1>3
<1>5. Len(service) \in Nat /\ Len(dials) \in Nat /\ dials \in Seq(DialType)
  BY <1>1, SeqShape DEF BindTypeOK
<1>6. PICK n : n = Len(dials) + 1
  OBVIOUS
<1>7. PICK x : x = [key |-> k, service |-> 0, done |-> FALSE, failed |-> FALSE]
  BY Zenon
<1>8. x \in DialType /\ x.key = k /\ x.service = 0 /\ n \in Nat
  BY <1>5, <1>6, <1>7 DEF DialType
<1>9. /\ dials' \in Seq(DialType) /\ Len(dials') = n /\ dials'[n] = x
      /\ \A i \in 1..Len(dials) : dials'[i] = dials[i]
  <2>1. dials' = Append(dials, x)
    BY <1>4, <1>7 DEF Reach
  <2> QED
    BY <1>5, <1>6, <1>8, <2>1, AppendShape
<1>10. /\ inflightDials' \in [Key -> Nat] /\ inflightDials'[k] = n
       /\ \A j \in Key : j # k => inflightDials'[j] = inflightDials[j]
  BY <1>1, <1>4, <1>8, <1>9 DEF Reach, BindTypeOK
<1>11. Becomes(c, "dial", caller[c].ds, n)
  <2>1. caller' = [caller EXCEPT ![c].pc = "dial", ![c].dial = n]
    BY <1>4, <1>9 DEF Reach
  <2>2. "dial" \in PCs
    BY DEF PCs
  <2> QED
    BY <1>1, <1>8, <2>1, <2>2, Assignments, Zenon
<1>12. UNCHANGED <<dialCache, reverseLookup, service>>
  BY DEF Reach
<1>13. BindTypeOK'
  <2>1. ASSUME NEW d \in 1..Len(dials') PROVE dials'[d].service \in 0..Len(service)
    <3>1. CASE d = n
      BY <1>5, <1>8, <1>9, <3>1
    <3>2. CASE d # n
      <4>1. d \in 1..Len(dials) /\ dials'[d] = dials[d]
        BY <1>5, <1>6, <1>9, <3>2
      <4> QED
        BY <1>1, <4>1 DEF BindTypeOK
    <3> QED
      BY <3>1, <3>2
  <2> QED
    BY <1>1, <1>9, <1>10, <1>11, <1>12, <2>1 DEF BindTypeOK, Becomes
<1>14. ASSUME NEW e \in Caller, Dialing(e) PROVE key(e) \in Key /\ key(e) # k /\ e # c /\ caller'[e] = caller[e]
  <2>1. CallerOK(e) /\ inflightDials[key(e)] = caller[e].dial
    BY <1>14 DEF BindInv, DialerOK
  <2>2. caller[e].dial \in 1..Len(dials)
    BY <1>14, <2>1 DEF CallerOK, Dialing
  <2>3. key(e) # k
    BY <1>4, <2>1, <2>2
  <2>4. e # c
    BY <1>4, <2>3
  <2>5. key(e) \in Key
    BY <1>1, <1>14, <2>1, KeyOfCaller DEF Dialing
  <2> QED
    BY <1>11, <2>3, <2>4, <2>5 DEF Becomes
<1>15. ASSUME NEW e \in Caller, e # c, Dialing(e)' PROVE caller'[e] = caller[e] /\ Dialing(e)
  BY <1>11, <1>15 DEF Becomes, Dialing
<1>16. key(c)' = k /\ caller'[c].pc = "dial" /\ caller'[c].dial = n
  BY <1>4, <1>11 DEF Becomes, key
<1>17. CachesOK'
  BY <1>1, <1>12 DEF CachesOK
<1>18. ServicesOK'
  <2>1. ASSUME NEW s, JustDialed(s) PROVE JustDialed(s)'
    BY <1>14, <2>1 DEF JustDialed, Dialing
  <2> QED
    BY <1>12, <2>1 DEF BindInv, ServicesOK
<1>19. DialsOK'
  <2>1. ASSUME NEW d \in 1..Len(dials'), ~dials'[d].done PROVE inflightDials'[dials'[d].key] = d
    <3>1. CASE d = n
      BY <1>8, <1>9, <1>10, <3>1
    <3>2. CASE d # n
      <4>1. d \in 1..Len(dials) /\ dials'[d] = dials[d]
        BY <1>5, <1>6, <1>9, <3>2
      <4>t. dials[d] \in DialType
        BY <1>5, <4>1
      <4>2. inflightDials[dials[d].key] = d /\ dials[d].key \in Key
        BY <1>1, <2>1, <4>1, <4>t DEF DialsOK, DialType
      <4>3. dials[d].key # k
        BY <1>4, <4>1, <4>2
      <4> QED
        BY <1>10, <4>1, <4>2, <4>3
    <3> QED
      BY <3>1, <3>2
  <2>2. \A j \in Key : inflightDials'[j] \in 0..Len(dials')
    BY <1>1, <1>5, <1>6, <1>9, <1>10 DEF DialsOK
  <2> QED
    BY <2>1, <2>2 DEF DialsOK
<1>20. OneDialer'
  <2>1. ASSUME NEW e \in Caller, e # c, Dialing(e)' PROVE key(e)' = key(e) /\ key(e) # k /\ Dialing(e)
    BY <1>14, <1>15, <2>1 DEF key
  <2>2. OneDialer
    BY DEF BindInv
  <2> SUFFICES ASSUME NEW a \in Caller, NEW e \in Caller, Dialing(a)', Dialing(e)', key(a)' = key(e)' PROVE a = e
    BY DEF OneDialer
  <2> QED
    BY <1>16, <2>1, <2>2 DEF OneDialer
<1>21. ASSUME NEW e \in Caller PROVE CallerOK(e)'
  <2>1. CASE e = c
    <3>1. caller'[c].keys # << >>
      BY <1>3, <1>11, Zenon DEF Becomes
    <3>2. caller'[c].pc = "dial" /\ caller'[c].dial \in 1..Len(dials') /\ caller'[c].ds = 0
      BY <1>1, <1>2, <1>5, <1>6, <1>9, <1>11 DEF Becomes, CallerOK
    <3> QED
      BY <2>1, <3>1, <3>2, Zenon DEF CallerOK
  <2>2. CASE e # c
    <3>1. caller'[e] = caller[e] /\ CallerOK(e)
      BY <1>11, <2>2 DEF Becomes, BindInv
    <3>2. Len(service') >= Len(service) /\ Len(dials') >= Len(dials)
      BY <1>5, <1>6, <1>9, <1>12
    <3> QED
      BY <1>1, <1>13, <3>1, <3>2, CallerFrame
  <2> QED
    BY <2>1, <2>2
<1>22. ASSUME NEW e \in Caller PROVE DialerOK(e)'
  <2>1. CASE e = c
    BY <1>4, <1>10, <1>12, <1>16, <2>1 DEF DialerOK
  <2>2. CASE e # c /\ Dialing(e)'
    <3>1. caller'[e] = caller[e] /\ Dialing(e) /\ key(e) \in Key /\ key(e) # k
      BY <1>14, <1>15, <2>2
    <3>2. inflightDials[key(e)] = caller[e].dial /\ dialCache[key(e)] = 0
      BY <3>1 DEF BindInv, DialerOK
    <3> QED
      BY <1>10, <1>12, <3>1, <3>2 DEF DialerOK, key
  <2> QED
    BY <2>1, <2>2 DEF DialerOK
<1>23. ASSUME NEW e \in Caller PROVE DialedOK(e)'
  <2>1. CASE e = c
    BY <1>16, <2>1 DEF DialedOK
  <2>2. CASE e # c
    <3>1. caller'[e] = caller[e] /\ DialedOK(e)
      BY <1>11, <2>2 DEF Becomes, BindInv
    <3> QED
      BY <1>12, <3>1 DEF DialedOK, key
  <2> QED
    BY <2>1, <2>2
<1> QED
  BY <1>13, <1>17, <1>18, <1>19, <1>20, <1>21, <1>22, <1>23 DEF BindInv

\* The service that a dial makes is new; a dial that fails makes none.
LEMMA DialMakes ==
    ASSUME BindInv, NEW c \in Caller, Dial(c), NEW k \in Key, k = key(c)
    PROVE  \E s \in Nat :
               /\ caller' = [caller EXCEPT ![c].pc = "dialed", ![c].ds = s] \/ (s = 0 /\ Move(c, "dialed"))
               /\ service' \in Seq(ServiceType) /\ Len(service') >= Len(service)
               /\ \A i \in 1..Len(service) : service'[i] = service[i]
               /\ \A i \in 1..Len(service') : i \in 1..Len(service) \/ i = s
               /\ s # 0 => s = Len(service) + 1 /\ s \in 1..Len(service') /\ service'[s].key = k /\ service'[s].closed = 0
<1>1. Len(service) \in Nat /\ service \in Seq(ServiceType)
  BY SeqShape DEF BindInv, BindTypeOK
<1>2. CASE k \in up
  <2>1. PICK x : x = [key |-> k, dead |-> FALSE, fresh |-> TRUE, closed |-> 0]
    BY Zenon
  <2>2. x \in ServiceType /\ x.key = k /\ x.closed = 0
    BY <2>1 DEF ServiceType
  <2>3. service' = Append(service, x) /\ caller' = [caller EXCEPT ![c].pc = "dialed", ![c].ds = Len(service')]
    BY <1>2, <2>1 DEF Dial
  <2>4. /\ service' \in Seq(ServiceType) /\ Len(service') = Len(service) + 1 /\ service'[Len(service')] = x
        /\ \A i \in 1..Len(service) : service'[i] = service[i]
    BY <1>1, <2>2, <2>3, AppendShape
  <2>5. PICK s : s = Len(service')
    BY Zenon
  <2>6. /\ s \in Nat /\ Len(service') >= Len(service) /\ s = Len(service) + 1 /\ s \in 1..Len(service')
        /\ \A i \in 1..Len(service') : i \in 1..Len(service) \/ i = s
    BY <1>1, <2>4, <2>5
  <2> QED
    BY <2>2, <2>3, <2>4, <2>5, <2>6, Zenon
<1>3. CASE k \notin up
  <2>1. Move(c, "dialed") /\ service' = service
    BY <1>3 DEF Dial
  <2> QED
    BY <1>1, <2>1
<1> QED
  BY <1>2, <1>3

\* The dial comes to an end.
LEMMA DialInv ==
    ASSUME BindInv, NEW c \in Caller, Dial(c), UNCHANGED bindSetting
    PROVE  BindInv'
<1>1. BindTypeOK /\ CallerOK(c) /\ CachesOK /\ DialsOK /\ DialerOK(c)
  BY DEF BindInv
<1>2. caller[c].pc = "dial" /\ caller[c].pc \notin {"idle", "got", "failed"} /\ Dialing(c) /\ caller[c].ds = 0
  BY <1>1 DEF Dial, Dialing, CallerOK
<1>3. key(c) \in Key /\ caller[c].keys # << >>
  BY <1>1, <1>2, KeyOfCaller
<1>4. PICK k \in Key : k = key(c)
  BY <1>3
<1>5. PICK s \in Nat :
          /\ caller' = [caller EXCEPT ![c].pc = "dialed", ![c].ds = s] \/ (s = 0 /\ Move(c, "dialed"))
          /\ service' \in Seq(ServiceType) /\ Len(service') >= Len(service)
          /\ \A i \in 1..Len(service) : service'[i] = service[i]
          /\ \A i \in 1..Len(service') : i \in 1..Len(service) \/ i = s
          /\ s # 0 => s = Len(service) + 1 /\ s \in 1..Len(service') /\ service'[s].key = k /\ service'[s].closed = 0
  BY <1>4, DialMakes
<1>6. Becomes(c, "dialed", s, caller[c].dial)
  <2>1. "dialed" \in PCs
    BY DEF PCs
  <2> QED
    BY <1>1, <1>2, <1>5, <2>1, Assignments DEF Move
<1>7. UNCHANGED <<dialCache, reverseLookup, inflightDials, dials>>
  BY DEF Dial
<1>8. /\ Len(service) \in Nat /\ Len(service') \in Nat /\ Len(dials) \in Nat
      /\ reverseLookup \subseteq 1..Len(service) /\ service \in Seq(ServiceType)
  BY <1>1, <1>5, SeqShape DEF BindTypeOK
<1>9. BindTypeOK'
  <2>1. reverseLookup \subseteq 1..Len(service') /\ \A d \in 1..Len(dials) : dials[d].service \in 0..Len(service')
    BY <1>1, <1>5, <1>8 DEF BindTypeOK
  <2> QED
    BY <1>1, <1>5, <1>6, <1>7, <2>1 DEF BindTypeOK, Becomes
<1>10. key(c)' = k /\ caller'[c].pc = "dialed" /\ caller'[c].dial = caller[c].dial /\ caller'[c].ds = s
  BY <1>4, <1>6 DEF Becomes, key
<1>11. ASSUME NEW e \in Caller PROVE key(e)' = key(e) /\ (Dialing(e)' <=> Dialing(e)) /\ caller'[e].dial = caller[e].dial
  BY <1>2, <1>6 DEF Becomes, Dialing, key
<1>12. CachesOK'
  <2>1. \A x \in reverseLookup : service'[x] = service[x]
    BY <1>5, <1>8
  <2>2. \A x \in reverseLookup : dialCache'[service'[x].key] = x /\ service'[x].closed = 0
    BY <1>1, <1>7, <2>1 DEF CachesOK
  <2>3. \A j \in Key : dialCache'[j] # 0 => dialCache'[j] \in reverseLookup' /\ service'[dialCache'[j]].key = j
    BY <1>1, <1>7, <2>1 DEF CachesOK
  <2> QED
    BY <1>7, <2>2, <2>3 DEF CachesOK
<1>13. ServicesOK'
  <2>1. ASSUME NEW x, JustDialed(x) PROVE JustDialed(x)'
    BY <1>2, <1>6, <2>1 DEF JustDialed, Becomes
  <2> SUFFICES ASSUME NEW x \in 1..Len(service')
               PROVE  service'[x].closed <= 1 /\ (service'[x].closed = 0 => x \in reverseLookup' \/ JustDialed(x)')
    BY DEF ServicesOK
  <2>2. CASE x \in 1..Len(service)
    BY <1>5, <1>7, <2>1, <2>2 DEF BindInv, ServicesOK
  <2>3. CASE x \notin 1..Len(service)
    <3>1. x = s /\ s # 0
      BY <1>5, <1>8, <2>3
    <3>2. JustDialed(x)'
      BY <1>10, <3>1 DEF JustDialed
    <3> QED
      BY <1>5, <3>1, <3>2
  <2> QED
    BY <2>2, <2>3
<1>14. DialsOK'
  BY <1>1, <1>7 DEF DialsOK
<1>15. OneDialer'
  <2>1. OneDialer
    BY DEF BindInv
  <2> QED
    BY <1>11, <2>1 DEF OneDialer
<1>16. ASSUME NEW e \in Caller PROVE CallerOK(e)'
  <2>1. CASE e = c
    <3>1. caller'[c].keys # << >>
      BY <1>3, <1>6, Zenon DEF Becomes
    <3>2. caller'[c].pc = "dialed" /\ caller'[c].dial \in 1..Len(dials')
      BY <1>1, <1>2, <1>7, <1>10 DEF CallerOK
    <3> QED
      BY <2>1, <3>1, <3>2, Zenon DEF CallerOK
  <2>2. CASE e # c
    <3>1. caller'[e] = caller[e] /\ CallerOK(e)
      BY <1>6, <2>2 DEF Becomes, BindInv
    <3>2. Len(service') >= Len(service) /\ Len(dials') >= Len(dials)
      BY <1>5, <1>7, <1>8
    <3> QED
      BY <1>1, <1>9, <3>1, <3>2, CallerFrame
  <2> QED
    BY <2>1, <2>2
<1>17. ASSUME NEW e \in Caller PROVE DialerOK(e)'
  <2>1. DialerOK(e)
    BY DEF BindInv
  <2> QED
    BY <1>7, <1>11, <2>1 DEF DialerOK
<1>18. ASSUME NEW e \in Caller PROVE DialedOK(e)'
  <2>1. CASE e = c
    <3>1. s # 0 => s \notin reverseLookup
      BY <1>5, <1>8
    <3> QED
      BY <1>5, <1>7, <1>10, <2>1, <3>1 DEF DialedOK
  <2>2. CASE e # c
    <3>1. caller'[e] = caller[e] /\ DialedOK(e)
      BY <1>6, <2>2 DEF Becomes, BindInv
    <3> QED
      BY <1>5, <1>7, <1>8, <3>1 DEF DialedOK, key
  <2> QED
    BY <2>1, <2>2
<1> QED
  BY <1>9, <1>12, <1>13, <1>14, <1>15, <1>16, <1>17, <1>18 DEF BindInv

\* The service that was dialed is kept, and who waits for it is woken.
LEMMA DialedInv ==
    ASSUME BindInv, NEW c \in Caller, Dialed(c), UNCHANGED bindSetting
    PROVE  BindInv'
<1>1. BindTypeOK /\ CallerOK(c) /\ CachesOK /\ DialsOK /\ DialerOK(c) /\ DialedOK(c)
  BY DEF BindInv
<1>2. caller[c].pc = "dialed" /\ caller[c].pc \notin {"idle", "got", "failed"} /\ Dialing(c)
  BY DEF Dialed, Dialing
<1>3. key(c) \in Key /\ caller[c].ds \in Nat
  BY <1>1, <1>2, KeyOfCaller, Zenon DEF BindTypeOK, CallerType
<1>4. PICK k \in Key : k = key(c)
  BY <1>3
<1>5. PICK d : d = caller[c].dial
  OBVIOUS
<1>6. PICK s \in Nat : s = caller[c].ds
  BY <1>3
<1>7. /\ Len(service) \in Nat /\ Len(dials) \in Nat /\ dials \in Seq(DialType) /\ service \in Seq(ServiceType)
      /\ d \in 1..Len(dials) /\ inflightDials[k] = d /\ dialCache[k] = 0
      /\ reverseLookup \subseteq 1..Len(service)
  BY <1>1, <1>2, <1>4, <1>5, SeqShape DEF BindTypeOK, CallerOK, DialerOK
<1>8. s # 0 => s \in 1..Len(service) /\ s \notin reverseLookup /\ service[s].key = k /\ service[s].closed = 0
  BY <1>1, <1>2, <1>4, <1>6 DEF DialedOK
<1>9. s \in 0..Len(service)
  BY <1>7, <1>8
<1>10. PICK x : x = [dials[d] EXCEPT !.service = s, !.failed = (s = 0), !.done = TRUE]
  OBVIOUS
<1>11. x \in DialType /\ x.service = s /\ x.done
  <2>1. dials[d] \in DialType /\ (s = 0) \in BOOLEAN
    BY <1>7
  <2> QED
    BY <1>10, <2>1, Zenon DEF DialType
<1>12. /\ dials' \in Seq(DialType) /\ Len(dials') = Len(dials) /\ dials'[d] = x
       /\ \A j \in 1..Len(dials) : j # d => dials'[j] = dials[j]
  <2>1. dials' = [dials EXCEPT ![d].service = s, ![d].failed = (s = 0), ![d].done = TRUE]
    BY <1>5, <1>6 DEF Dialed
  <2>2. dials' = [dials EXCEPT ![d] = x]
    BY <1>7, <1>10, <2>1, Zenon
  <2> QED
    BY <1>7, <1>11, <2>2, ExceptShape
<1>13. /\ inflightDials' \in [Key -> Nat] /\ inflightDials'[k] = 0
       /\ \A j \in Key : j # k => inflightDials'[j] = inflightDials[j]
  BY <1>1, <1>4 DEF Dialed, BindTypeOK
<1>14. /\ dialCache' \in [Key -> Nat] /\ dialCache'[k] = s
       /\ \A j \in Key : j # k => dialCache'[j] = dialCache[j]
  BY <1>1, <1>4, <1>6, <1>7 DEF Dialed, BindTypeOK
<1>15. /\ reverseLookup' \subseteq reverseLookup \cup {s} /\ reverseLookup \subseteq reverseLookup'
       /\ s # 0 => s \in reverseLookup'
       /\ s = 0 => reverseLookup' = reverseLookup
  BY <1>6 DEF Dialed
<1>16. service' = service /\ Result(c, s)
  BY <1>6 DEF Dialed
<1>17. /\ caller' \in [Caller -> CallerType]
       /\ \A e \in Caller \ {c} : caller'[e] = caller[e]
       /\ ~Dialing(c)' /\ CallerOK(c)'
  BY <1>2, <1>9, <1>16, ResultOK
<1>18. BindTypeOK'
  <2>1. reverseLookup' \subseteq 1..Len(service)
    BY <1>7, <1>8, <1>15
  <2>2. \A j \in 1..Len(dials') : dials'[j].service \in 0..Len(service)
    BY <1>1, <1>9, <1>11, <1>12, SMTT(30) DEF BindTypeOK
  <2> QED
    BY <1>1, <1>12, <1>13, <1>14, <1>16, <1>17, <2>1, <2>2 DEF BindTypeOK
<1>19. ASSUME NEW e \in Caller, Dialing(e)' PROVE e # c /\ caller'[e] = caller[e] /\ Dialing(e) /\ key(e)' = key(e) /\ key(e) \in Key /\ key(e) # k
  <2>1. e # c /\ caller'[e] = caller[e]
    BY <1>17, <1>19
  <2>2. Dialing(e) /\ key(e)' = key(e)
    BY <1>19, <2>1 DEF Dialing, key
  <2>3. key(e) \in Key
    BY <1>1, <2>2, KeyOfCaller DEF BindInv, Dialing
  <2>4. key(e) # k
    BY <1>2, <1>4, <2>1, <2>2 DEF BindInv, OneDialer
  <2> QED
    BY <2>1, <2>2, <2>3, <2>4
<1>20. CachesOK'
  <2>1. ASSUME NEW j \in Key, dialCache'[j] # 0 PROVE dialCache'[j] \in reverseLookup' /\ service[dialCache'[j]].key = j
    <3>1. CASE j = k
      BY <1>8, <1>14, <1>15, <2>1, <3>1
    <3>2. CASE j # k
      BY <1>1, <1>14, <1>15, <2>1, <3>2 DEF CachesOK
    <3> QED
      BY <3>1, <3>2
  <2>2. ASSUME NEW y \in reverseLookup' PROVE dialCache'[service[y].key] = y /\ service[y].closed = 0
    <3>1. CASE y \in reverseLookup
      <4>1. dialCache[service[y].key] = y /\ service[y].closed = 0 /\ y # 0
        BY <1>1, <1>7, <3>1 DEF CachesOK
      <4>t. service[y] \in ServiceType
        BY <1>7, <3>1
      <4>2. service[y].key \in Key
        BY <4>t DEF ServiceType
      <4>3. service[y].key # k
        BY <1>7, <4>1
      <4> QED
        BY <1>14, <4>1, <4>2, <4>3
    <3>2. CASE y \notin reverseLookup
      <4>1. y = s /\ s # 0
        BY <1>15, <2>2, <3>2
      <4> QED
        BY <1>8, <1>14, <4>1
    <3> QED
      BY <3>1, <3>2
  <2> QED
    BY <1>16, <2>1, <2>2 DEF CachesOK
<1>21. ServicesOK'
  <2>1. ASSUME NEW y \in 1..Len(service), JustDialed(y) PROVE y \in reverseLookup' \/ JustDialed(y)'
    <3>1. PICK e \in Caller : caller[e].pc = "dialed" /\ caller[e].ds = y
      BY <2>1 DEF JustDialed
    <3>2. CASE e = c
      BY <1>6, <1>7, <1>15, <3>1, <3>2
    <3>3. CASE e # c
      BY <1>17, <3>1, <3>3 DEF JustDialed
    <3> QED
      BY <3>2, <3>3
  <2> QED
    BY <1>15, <1>16, <2>1 DEF BindInv, ServicesOK
<1>22. DialsOK'
  <2>1. ASSUME NEW j \in 1..Len(dials'), ~dials'[j].done PROVE inflightDials'[dials'[j].key] = j
    <3>1. j # d /\ j \in 1..Len(dials) /\ dials'[j] = dials[j]
      BY <1>11, <1>12, <2>1
    <3>t. dials[j] \in DialType
      BY <1>7, <3>1
    <3>2. inflightDials[dials[j].key] = j /\ dials[j].key \in Key
      BY <1>1, <2>1, <3>1, <3>t DEF DialsOK, DialType
    <3>3. dials[j].key # k
      BY <1>7, <3>1, <3>2
    <3> QED
      BY <1>13, <3>1, <3>2, <3>3
  <2>2. ASSUME NEW j \in Key PROVE inflightDials'[j] \in 0..Len(dials')
    <3>1. inflightDials[j] \in 0..Len(dials)
      BY <1>1 DEF DialsOK
    <3>2. inflightDials'[j] \in {0, inflightDials[j]}
      BY <1>13
    <3> QED
      BY <1>7, <1>12, <3>1, <3>2
  <2> QED
    BY <2>1, <2>2 DEF DialsOK
<1>23. OneDialer'
  <2>1. OneDialer
    BY DEF BindInv
  <2> SUFFICES ASSUME NEW a \in Caller, NEW e \in Caller, Dialing(a)', Dialing(e)', key(a)' = key(e)' PROVE a = e
    BY DEF OneDialer
  <2> QED
    BY <1>19, <2>1 DEF OneDialer
<1>24. ASSUME NEW e \in Caller PROVE CallerOK(e)'
  <2>1. CASE e # c
    <3>1. caller'[e] = caller[e] /\ CallerOK(e)
      BY <1>17, <2>1 DEF BindInv
    <3>2. Len(service') >= Len(service) /\ Len(dials') >= Len(dials)
      BY <1>7, <1>12, <1>16
    <3> QED
      BY <1>1, <1>18, <3>1, <3>2, CallerFrame
  <2> QED
    BY <1>17, <2>1
<1>25. ASSUME NEW e \in Caller PROVE DialerOK(e)'
  <2>1. CASE Dialing(e)'
    <3>1. caller'[e] = caller[e] /\ Dialing(e) /\ key(e)' = key(e) /\ key(e) \in Key /\ key(e) # k
      BY <1>19, <2>1
    <3>2. inflightDials[key(e)] = caller[e].dial /\ dialCache[key(e)] = 0
      BY <3>1 DEF BindInv, DialerOK
    <3> QED
      BY <1>13, <1>14, <3>1, <3>2 DEF DialerOK
  <2> QED
    BY <2>1 DEF DialerOK
<1>26. ASSUME NEW e \in Caller PROVE DialedOK(e)'
  <2>1. CASE Dialing(e)'
    <3>1. caller'[e] = caller[e] /\ key(e)' = key(e) /\ key(e) # k /\ DialedOK(e)
      BY <1>19, <2>1 DEF BindInv
    <3>2. caller[e].pc = "dialed" /\ caller[e].ds # 0 => caller[e].ds # s
      BY <1>8, <3>1 DEF DialedOK
    <3> QED
      BY <1>15, <1>16, <3>1, <3>2 DEF DialedOK
  <2> QED
    BY <2>1 DEF DialedOK, Dialing
<1> QED
  BY <1>18, <1>20, <1>21, <1>22, <1>23, <1>24, <1>25, <1>26 DEF BindInv

-----------------------------------------------------------------------------

\* Nobody has asked yet.
LEMMA InitInv == BindInit => BindInv
<1> SUFFICES ASSUME BindInit PROVE BindInv
  OBVIOUS
<1>1. PICK e : e = << >>
  OBVIOUS
<1>2. Resting = [pc |-> "idle", keys |-> e, ds |-> 0, dial |-> 0] /\ e \in Seq(Key)
  BY <1>1, RestingShape
<1>3. Resting \in CallerType /\ Resting.pc = "idle"
  BY <1>2 DEF CallerType, PCs
<1>4. caller \in [Caller -> CallerType] /\ \A c \in Caller : caller[c].pc = "idle"
  BY <1>3 DEF BindInit
<1>5. /\ dials \in Seq(DialType) /\ service \in Seq(ServiceType) /\ Len(dials) = 0 /\ Len(service) = 0
  BY DEF BindInit
<1>6. 1..Len(dials) = {} /\ 1..Len(service) = {}
  BY <1>5
<1>7. /\ dialCache \in [Key -> Nat] /\ inflightDials \in [Key -> Nat]
      /\ \A k \in Key : dialCache[k] = 0 /\ inflightDials[k] = 0
      /\ reverseLookup = {} /\ bindSetting \in BindSettings
  BY DEF BindInit
<1>8. BindTypeOK
  BY <1>4, <1>5, <1>6, <1>7 DEF BindTypeOK
<1>9. CachesOK /\ ServicesOK /\ DialsOK
  <2>1. 0 \in 0..Len(dials)
    BY <1>5
  <2> QED
    BY <1>6, <1>7, <2>1 DEF CachesOK, ServicesOK, DialsOK
<1>10. \A c \in Caller : ~Dialing(c)
  BY <1>4, Zenon DEF Dialing
<1>11. OneDialer /\ \A c \in Caller : DialerOK(c) /\ DialedOK(c)
  BY <1>4, <1>10 DEF OneDialer, DialerOK, DialedOK
<1>12. \A c \in Caller : CallerOK(c)
  BY <1>4, Zenon DEF CallerOK
<1> QED
  BY <1>8, <1>9, <1>11, <1>12 DEF BindInv

\* Every step preserves the invariant.
LEMMA NextInv ==
    ASSUME BindInv, [BindNext]_<<bindVars, bindSetting>>
    PROVE  BindInv'
<1>1. ASSUME NEW c \in Caller, Act(c) \/ ReleaseOwn(c), UNCHANGED bindSetting PROVE BindInv'
  <2>1. CASE Reach(c)
    <3>1. CASE dialCache[key(c)] = 0 /\ inflightDials[key(c)] = 0
      BY <1>1, <2>1, <3>1, ReachNewInv
    <3>2. CASE dialCache[key(c)] # 0 \/ inflightDials[key(c)] # 0
      <4>1. UNCHANGED <<dials, inflightDials>>
        BY <2>1, <3>2 DEF Reach
      <4> QED
        BY <1>1, <2>1, <3>2, <4>1, ReachFoundInv
    <3> QED
      BY <3>1, <3>2
  <2>2. CASE Leave(c)
    BY <1>1, <2>2, RestInv, Zenon DEF Leave
  <2> QED
    BY <1>1, <2>1, <2>2, LookupUserInv, WaitInv, PingInv, ReleaseDeadInv, DialInv, DialedInv, ReleaseOwnInv DEF Act
<1>2. ASSUME NEW k \in Key, Turn(k), UNCHANGED bindSetting PROVE BindInv'
  BY <1>2, StillInv DEF Turn
<1>3. CASE UNCHANGED <<bindVars, bindSetting>>
  BY <1>3, StillInv DEF bindVars
<1> QED
  BY <1>1, <1>2, <1>3, AskInv, AgeInv DEF BindNext

\* The invariant implies what bind promises.
LEMMA InvRight == BindInv => BindKeepsTrack
<1> SUFFICES ASSUME BindInv PROVE BindKeepsTrack
  OBVIOUS
<1>1. BindTypeOK /\ CachesOK /\ ServicesOK /\ DialsOK
  BY DEF BindInv
<1>2. DOMAIN service = 1..Len(service) /\ DOMAIN dials = 1..Len(dials)
  BY <1>1, SeqShape DEF BindTypeOK
<1>3. \A k \in Key : dialCache[k] # 0 =>
        service[dialCache[k]].key = k /\ service[dialCache[k]].closed = 0 /\ dialCache[k] \in reverseLookup
  BY <1>1 DEF CachesOK
<1>4. ASSUME NEW s \in DOMAIN service
      PROVE  /\ service[s].closed <= 1
             /\ service[s].closed = 0 =>
                    dialCache[service[s].key] = s \/ \E c \in Caller : caller[c].pc = "dialed" /\ caller[c].ds = s
  BY <1>1, <1>2, <1>4 DEF CachesOK, ServicesOK, JustDialed
<1>5. \A d, e \in DOMAIN dials : dials[d].key = dials[e].key /\ ~dials[d].done /\ ~dials[e].done => d = e
  BY <1>1, <1>2 DEF DialsOK
<1> QED
  BY <1>3, <1>4, <1>5 DEF BindKeepsTrack

\* reachableService and Release keep track of every service, whatever the callers,
\* keys and dials: one in the cache is open and can be released, an open one is in
\* the cache or being dialed, none is closed twice, and no key is dialed twice at the
\* same time.
THEOREM BindAlwaysKeepsTrack == BindSpec => []BindKeepsTrack
<1>1. BindInit => BindInv
  BY InitInv
<1>2. BindInv /\ [BindNext]_<<bindVars, bindSetting>> => BindInv'
  BY NextInv
<1>3. BindInv => BindKeepsTrack
  BY InvRight
<1> QED
  BY <1>1, <1>2, <1>3, PTL DEF BindSpec

=============================================================================
