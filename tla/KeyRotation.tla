---------------------------- MODULE KeyRotation -----------------------------
(***************************************************************************)
(* Users who change their keys with the commands keygen -rotate,           *)
(* countersign, rotate and share -fix of cmd/upspin, while clients, which  *)
(* hold the keys that were there when they started, put and rename files.  *)
(*                                                                         *)
(* The files are those of one directory of the tree of one user, owner.    *)
(* One of them is its Access file, whose contents are the readers.         *)
(***************************************************************************)
EXTENDS Packing

CONSTANTS
    KeyUser,        \* the users
    owner,          \* the owner of the tree
    File,           \* the names in the directory
    RotSettings     \* who rotates, what clients put (puts) and rename, the next readers (lists), bounds

all == "all"
Access == "Access"

VARIABLES
    rotSetting,     \* one of RotSettings; it never changes
    disk,           \* secret.upspinkey, public.upspinkey and secret2.upspinkey of each user
    pub,            \* the key server: the public key of each user
    dir,            \* the directory: the entry of each name
    readers,        \* who may read, by the Access file
    cmd,            \* the command each user is running
    phase,          \* how far the user is in the sequence that the help of rotate gives
    client,         \* the Put or Rename of each user's client
    used,           \* keys generated by each user, and things done by clients
    lapsed,         \* names whose signature the sequence could not renew
    settled         \* names known to be wrapped for all readers

rotVars == <<disk, pub, dir, readers, cmd, phase, client, used, lapsed, settled>>

Factotum(u) == newFactotum(disk[u].pair, disk[u].archive)
Loads(u) == Factotum(u).current # nokey

Missing == [writer |-> none, signed |-> none, packing |-> none, sum |-> 0, hash |-> 0, sig |-> sig0, sig2 |-> sig0, wrap |-> {}, seq |-> 0]
NoCmd == [op |-> none, pc |-> none, f |-> [current |-> nokey, previous |-> nokey, keys |-> {}], todo |-> {}, keys |-> {}, all |-> FALSE, failed |-> {}, stale |-> FALSE, name |-> none, entry |-> Missing]
NoCall == [op |-> none, f |-> NoCmd.f, name |-> none, to |-> none, readers |-> {}, stale |-> FALSE, entry |-> Missing]

Exists(n) == dir[n].packing # none
Readers == (readers \cup {owner}) \ {all}

\* Access and Group files, and what everyone may read, are not encrypted.
packing(n, who) == IF n = Access \/ all \in who THEN "ei" ELSE "ee"

\* Client.Put: a new entry, packed and then shared with the readers.
NewEntry(u, f, n, who, sum) ==
    LET e == [Missing EXCEPT !.writer = u, !.signed = n, !.packing = packing(n, who), !.sum = sum]
        keys == {f.current} \cup {pub[r] : r \in who \ {all}}
    IN  IF e.packing = "ei" THEN eiClose(f, e)
        ELSE CHOOSE s \in Share(f, keys, Close(f, u, owner, pub[owner], e, sum)) : TRUE

CanUnpack(f, u, e) == (IF e.packing = "ei" THEN eiUnpack(f, u, pub, e) ELSE Unpack(f, u, pub, e)) = "ok"

RotInit ==
    /\ rotSetting \in RotSettings
    /\ disk = [u \in KeyUser |-> [pair |-> [public |-> <<u, 1>>, private |-> <<u, 1>>], archive |-> << >>]]
    /\ pub = [u \in KeyUser |-> <<u, 1>>]
    /\ readers = rotSetting.readers
    /\ dir = [n \in File |-> IF n \in {Access} \cup rotSetting.files THEN [NewEntry(owner, Factotum(owner), n, readers \cup {owner}, 1) EXCEPT !.seq = 1] ELSE Missing]
    /\ cmd = [u \in KeyUser |-> NoCmd]
    /\ phase = [u \in KeyUser |-> "done"]
    /\ client = [u \in KeyUser |-> NoCall]
    /\ used = [keys |-> [u \in KeyUser |-> 1], calls |-> 0, crashes |-> 0, sum |-> 1]
    /\ lapsed = {}
    /\ settled = File

-----------------------------------------------------------------------------
(* The server's Put: the sequence number must be the one of the entry, if   *)
(* there is one.                                                            *)

MayPut(n, seq) == ~Exists(n) \/ dir[n].seq = seq
Put(n, e) == dir' = [dir EXCEPT ![n] = IF Exists(n) THEN [e EXCEPT !.seq = dir[n].seq + 1] ELSE e]
Delete(n) == [Missing EXCEPT !.seq = dir[n].seq]

Run(u, c) == cmd' = [cmd EXCEPT ![u] = c]
Idle(u) == cmd[u].op = none

-----------------------------------------------------------------------------
(* keygen -rotate: the old pair is archived, then the two files written. *)

saveKeys(u) ==
    /\ Idle(u)
    /\ u \in rotSetting.rotators
    /\ phase[u] \in {"done", "generating"} \/ ("hurry" \in rotSetting.ops /\ phase[u] = "rotated")
    /\ used.keys[u] < rotSetting.keys
    /\ used' = [used EXCEPT !.keys[u] = @ + 1]
    /\ disk' = [disk EXCEPT ![u].archive = Append(@, disk[u].pair)]
    /\ Run(u, [NoCmd EXCEPT !.op = "keygen", !.pc = "secret"])
    /\ phase' = [phase EXCEPT ![u] = "generating"]
    /\ UNCHANGED <<pub, dir, readers, client, lapsed, settled>>

writeKeys(u) ==
    /\ cmd[u].op = "keygen"
    /\ IF cmd[u].pc = "secret"
       THEN /\ disk' = [disk EXCEPT ![u].pair.private = <<u, used.keys[u]>>]
            /\ Run(u, [cmd[u] EXCEPT !.pc = "public"])
            /\ UNCHANGED phase
       ELSE /\ disk' = [disk EXCEPT ![u].pair.public = <<u, used.keys[u]>>]
            /\ Run(u, NoCmd)
            /\ phase' = [phase EXCEPT ![u] = "generated"]
    /\ UNCHANGED <<pub, dir, readers, client, used, lapsed, settled>>

\* A command is stopped before it is done.
Stop(u) ==
    /\ ~Idle(u)
    /\ used.crashes < rotSetting.stops
    /\ used' = [used EXCEPT !.crashes = @ + 1]
    /\ Run(u, NoCmd)
    /\ UNCHANGED <<disk, pub, dir, readers, phase, client, lapsed, settled>>

-----------------------------------------------------------------------------
(* countersign: it lists the user's tree, with the old key. *)

Named(S) == {[name |-> n, entry |-> dir[n]] : n \in {m \in S : Exists(m)}}

countersignCommand(u) ==
    LET f == Factotum(u)
    IN  /\ Idle(u)
        /\ Loads(u)
        /\ phase[u] = "generated"
        /\ Pop(f).current = pub[u]
        /\ Run(u, [NoCmd EXCEPT !.op = "countersign", !.f = f,
                                !.todo = IF u = owner THEN {x \in Named(File) : x.entry.writer = u} ELSE {}])
        /\ UNCHANGED <<disk, pub, dir, readers, phase, client, used, lapsed, settled>>

countersign(u) ==
    LET c == cmd[u]
        old == Pop(c.f).current
    IN  /\ c.op = "countersign"
        /\ \E x \in c.todo :
               /\ Run(u, [c EXCEPT !.todo = @ \ {x}])
               /\ \E r \in {IF x.entry.packing = "ei" THEN eiCountersign(old, c.f, x.entry) ELSE Countersign(old, c.f, x.entry)} :
                      IF r # {} /\ MayPut(x.name, x.entry.seq)
                      THEN (\E e \in r : Put(x.name, e)) /\ UNCHANGED lapsed
                      ELSE /\ lapsed' = IF x.entry.packing = "ee" /\ old \notin ReaderHashes(x.entry) THEN lapsed \cup {x.name} ELSE lapsed
                           /\ UNCHANGED dir
        /\ UNCHANGED <<disk, pub, readers, phase, client, used, settled>>

countersignDone(u) ==
    /\ cmd[u].op = "countersign"
    /\ cmd[u].todo = {}
    /\ Run(u, NoCmd)
    /\ phase' = [phase EXCEPT ![u] = "signed"]
    /\ UNCHANGED <<disk, pub, dir, readers, client, used, lapsed, settled>>

\* What began before the readers or their keys changed will be out of date.
Outdate ==
    /\ settled' = {}
    /\ cmd' = [u \in KeyUser |-> IF cmd[u].op = "share" THEN [cmd[u] EXCEPT !.stale = TRUE] ELSE cmd[u]]
    /\ client' = [u \in KeyUser |-> IF client[u].op = none THEN NoCall ELSE [client[u] EXCEPT !.stale = TRUE]]

\* rotate: the new key goes to the key server, which knows the user by the old one.
rotate(u) ==
    LET f == Factotum(u)
    IN  /\ Idle(u)
        /\ Loads(u)
        /\ phase[u] = "signed"
        /\ Pop(f).current # f.current
        /\ Pop(f).current = pub[u]
        /\ pub' = [pub EXCEPT ![u] = f.current]
        /\ phase' = [phase EXCEPT ![u] = "rotated"]
        /\ Outdate
        /\ UNCHANGED <<disk, dir, readers, used, lapsed>>

-----------------------------------------------------------------------------
(* share -fix: it lists the directory, reads its Access file, looks up the  *)
(* readers' keys, and repairs the entries whose wrapped keys are not those. *)

\* Keys the owner had before, keys of nobody known, and readers without a key.
NeedsFix(e, keys) == e.packing = "ee" /\ (ReaderHashes(e) # keys \/ all \in readers)

shareCommand(u) ==
    LET keys == {pub[r] : r \in Readers}
    IN  /\ u = owner
        /\ Idle(u)
        /\ Loads(u)
        /\ phase[u] \in {"done", "rotated"}
        /\ phase[u] = "rotated" \/ settled # File
        /\ Factotum(u).current = pub[u]
        /\ CanUnpack(Factotum(u), u, dir[Access])
        /\ Run(u, [NoCmd EXCEPT !.op = "share", !.pc = "next", !.f = Factotum(u), !.keys = keys, !.all = (all \in readers),
                                !.todo = {x \in Named(File) : NeedsFix(x.entry, keys)}])
        /\ UNCHANGED <<disk, pub, dir, readers, phase, client, used, lapsed, settled>>

Failed(u, n) == Run(u, [cmd[u] EXCEPT !.pc = "next", !.todo = {x \in @ : x.name # n}, !.failed = @ \cup {n}])
Fixed(u, n) == Run(u, [cmd[u] EXCEPT !.pc = "next", !.todo = {x \in @ : x.name # n}])

\* fixShare looks the entry up again, with the list of users of the beginning; what everyone may read is decrypted if the user says so.
fixShare(u) ==
    LET c == cmd[u]
    IN  /\ c.op = "share" /\ c.pc = "next"
        /\ \E x \in c.todo :
               LET e == dir[x.name]
                   who == IF c.all THEN {} ELSE Share(c.f, c.keys, e)
                   plain == [NewEntry(u, c.f, x.name, {all}, e.sum) EXCEPT !.seq = -1]
               IN  IF ~Exists(x.name) THEN Failed(u, x.name)
                   ELSE IF e.packing = "ei" THEN Fixed(u, x.name)
                   ELSE IF who # {} THEN \E s \in who : Run(u, [c EXCEPT !.pc = "put", !.name = x.name, !.entry = s])
                   ELSE IF c.all /\ "unencrypt" \in rotSetting.ops /\ CanUnpack(c.f, u, e)
                   THEN Run(u, [c EXCEPT !.pc = "put", !.name = x.name, !.entry = plain])
                   ELSE Failed(u, x.name)
        /\ UNCHANGED <<disk, pub, dir, readers, phase, client, used, lapsed, settled>>

fixPut(u) ==
    LET c == cmd[u]
    IN  /\ c.op = "share" /\ c.pc = "put"
        /\ IF c.entry.seq = -1 \/ MayPut(c.name, c.entry.seq)
           THEN Put(c.name, [c.entry EXCEPT !.seq = IF @ = -1 THEN dir[c.name].seq + 1 ELSE @]) /\ Fixed(u, c.name)
           ELSE Failed(u, c.name) /\ UNCHANGED dir
        /\ UNCHANGED <<disk, pub, readers, phase, client, used, lapsed, settled>>

shareDone(u) ==
    /\ cmd[u].op = "share"
    /\ cmd[u].todo = {}
    /\ Run(u, NoCmd)
    /\ phase' = [phase EXCEPT ![u] = "done"]
    /\ settled' = IF cmd[u].stale THEN settled ELSE settled \cup (File \ cmd[u].failed)
    /\ UNCHANGED <<disk, pub, dir, readers, client, used, lapsed>>

-----------------------------------------------------------------------------
(* Clients.  The entry is made, then put. *)

Call(u, c) ==
    /\ client[u].op = none
    /\ used.calls < rotSetting.max
    /\ used' = [used EXCEPT !.calls = @ + 1, !.sum = @ + 1]
    /\ Loads(u)
    /\ Factotum(u).current = pub[u]
    /\ client' = [client EXCEPT ![u] = c]
    /\ UNCHANGED <<disk, pub, dir, readers, cmd, phase, lapsed, settled>>

\* getReaders: only the owner, for one who may not read the Access file.
getReaders(u) == IF u = owner \/ u \in readers \/ all \in readers THEN readers \cup {owner} ELSE {owner}

ClientPut(u, n) ==
    /\ n \in rotSetting.puts /\ n # Access
    /\ Loads(u)
    /\ CanUnpack(Factotum(u), u, dir[Access])
    /\ Call(u, [NoCall EXCEPT !.op = "put", !.f = Factotum(u), !.name = n, !.to = n, !.readers = getReaders(u),
                              !.entry = NewEntry(u, Factotum(u), n, getReaders(u), used.sum + 1)])

PutAccess(u, who) ==
    /\ u = owner
    /\ who # readers
    /\ Call(u, [NoCall EXCEPT !.op = "access", !.f = Factotum(u), !.name = Access, !.to = Access, !.readers = who,
                              !.entry = NewEntry(u, Factotum(u), Access, {owner}, used.sum + 1)])

Rename(u, n, m) ==
    /\ n \in rotSetting.renames /\ n # Access /\ m # Access /\ m # n
    /\ Exists(n) /\ Loads(u)
    /\ \E e \in IF dir[n].packing = "ei" THEN eiName(Factotum(u), u, pub, dir[n], m) ELSE Name(Factotum(u), u, pub, dir[n], m) :
           Call(u, [NoCall EXCEPT !.op = "rename", !.f = Factotum(u), !.name = n, !.to = m, !.entry = e, !.stale = (n \notin settled)])

\* Signed with a key that was replaced, or is being and countersign has listed the files.
Late(u, f) ==
    \/ f.current # pub[u]
    \/ f.current # disk[u].pair.public /\ (phase[u] = "signed" \/ cmd[u].op = "countersign")

\* The signature is by the writer's key, and no one has gone past it.
Renewed(u, c) == c.entry.writer = u /\ ~Late(u, c.f)

PutEntry(u) ==
    LET c == client[u]
    IN  /\ c.op \in {"put", "access", "rename"}
        /\ IF c.op = "rename" /\ Exists(c.to)
           THEN client' = [client EXCEPT ![u] = NoCall] /\ UNCHANGED <<dir, readers, cmd, lapsed, settled>>
           ELSE /\ Put(c.to, [c.entry EXCEPT !.seq = dir[c.to].seq + 1])
                /\ lapsed' = IF Renewed(u, c) THEN lapsed \ {c.to} ELSE lapsed \cup {c.to}
                /\ IF c.op = "access"
                   THEN /\ readers' = c.readers
                        /\ settled' = {}
                        /\ cmd' = [v \in KeyUser |-> [cmd[v] EXCEPT !.stale = (cmd[v].op = "share")]]
                        /\ client' = [v \in KeyUser |-> IF v = u \/ client[v].op = none THEN NoCall ELSE [client[v] EXCEPT !.stale = TRUE]]
                   ELSE /\ settled' = IF c.stale \/ (c.op = "put" /\ ~(Readers \subseteq c.readers))
                                      THEN settled \ {c.to} ELSE settled \cup {c.to}
                        /\ cmd' = [v \in KeyUser |-> IF cmd[v].op = "share" THEN [cmd[v] EXCEPT !.failed = @ \cup {c.to}] ELSE cmd[v]]
                        /\ client' = [client EXCEPT ![u] = IF c.op = "rename" THEN [c EXCEPT !.op = "delete"] ELSE NoCall]
                        /\ UNCHANGED readers
        /\ UNCHANGED <<disk, pub, phase, used>>

\* Rename deletes the old name, whatever it is now.
DeleteOld(u) ==
    LET c == client[u]
    IN  /\ c.op = "delete"
        /\ dir' = [dir EXCEPT ![c.name] = Delete(c.name)]
        /\ client' = [client EXCEPT ![u] = NoCall]
        /\ UNCHANGED <<disk, pub, readers, cmd, phase, used, lapsed, settled>>

Command(u) ==
    \/ saveKeys(u) \/ writeKeys(u) \/ Stop(u)
    \/ countersignCommand(u) \/ countersign(u) \/ countersignDone(u)
    \/ rotate(u)
    \/ shareCommand(u) \/ fixShare(u) \/ fixPut(u) \/ shareDone(u)

RotNext ==
    /\ \E u \in KeyUser :
           \/ Command(u)
           \/ \E n \in File : ClientPut(u, n)
           \/ \E who \in rotSetting.lists : PutAccess(u, who)
           \/ \E n, m \in File : Rename(u, n, m)
           \/ PutEntry(u)
           \/ DeleteOld(u)
    /\ UNCHANGED rotSetting

-----------------------------------------------------------------------------

\* A writer in another's tree whose key has changed since: countersign does not
\* visit that tree.
Estranged(e) == e.writer # owner /\ e.sig.key # pub[e.writer]

\* The factotums of u's processes that have the key the key server knows: what is
\* on disk, that with its newest key popped (countersign), a client that runs.
Known(u) == {f \in {Factotum(u), Pop(Factotum(u)), client[u].f} : f.current = pub[u]}

\* At every point of a key change, also one that was stopped, whoever has a
\* wrapped key for the key the key server knows, and runs with it, can unpack the
\* file: one of its signatures is by the writer's key of the moment (ee.go,
\* Unpack).  Once countersign is through, the new key verifies the files too; a
\* process that starts with it cannot decrypt them before rotate and share -fix,
\* as its own key is that of its factotum (packdata.go).  After share -fix, or a
\* Put, the readers have a wrapped key, until the readers or their keys change.
\* And no private key that something is wrapped for is lost.
RotationIsSafe ==
    /\ \A n \in File \ lapsed : \A u \in KeyUser : \A f \in Known(u) :
           Exists(n) /\ ~Estranged(dir[n]) /\ (dir[n].packing = "ee" => f.current \in ReaderHashes(dir[n]))
           => CanUnpack(f, u, dir[n])
    /\ \A n \in File \ lapsed :
           Exists(n) /\ dir[n].writer = owner /\ phase[owner] \in {"signed", "rotated"} /\ Loads(owner)
           => /\ dir[n].packing = "ei" => CanUnpack(Factotum(owner), owner, dir[n])
              /\ \A w \in dir[n].wrap : Signed(dir[n], Factotum(owner).current, w.dkey)
    /\ \A n \in settled : dir[n].packing = "ee" /\ all \notin readers => {pub[r] : r \in Readers} \subseteq ReaderHashes(dir[n])
    /\ \A n \in File : \A k \in ReaderHashes(dir[n]) :
           k \in {disk[k[1]].pair.private} \cup {disk[k[1]].archive[i].private : i \in 1..Len(disk[k[1]].archive)}

\* The Writer of an entry determines the key of its signature (the comment on
\* DirEntry.Writer in upspin.go).
WriterIsSigner == \A n \in File : Exists(n) => \E s \in {dir[n].sig, dir[n].sig2} : s.key[1] = dir[n].writer
=============================================================================
