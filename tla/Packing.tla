------------------------------ MODULE Packing -------------------------------
(***************************************************************************)
(* The packings ee (pack/ee/ee.go) and eeintegrity (pack/eeintegrity), and *)
(* the factotum that holds a user's keys (factotum/factotum.go).           *)
(*                                                                         *)
(* A key pair is named by its public key, which also stands for its hash.  *)
(* A signature is the key that made it with what was signed, a wrapped key *)
(* the reader's key with the file's key dkey.  An entry has its packdata   *)
(* (sig, sig2, wrap, hash) unmarshalled; sum is the checksum of its blocks *)
(* and pub the contents of the key server.  An operator that may fail is   *)
(* the set of its results.                                                 *)
(***************************************************************************)
EXTENDS Integers, Sequences, FiniteSets, FiniteSetsExt

none == "none"
zero == 0                                     \* the dkey of eeintegrity
nokey == <<none, 0>>
sig0 == [key |-> nokey, of |-> none]

-----------------------------------------------------------------------------
(* The factotum. *)

\* A public and a private key belong together when they are of one pair.
makeKey(pair) == pair.public = pair.private

\* The current key and those of the archive secret2.upspinkey; a pair that does
\* not correspond makes it fail.  A duplicate does not become the previous key.
newFactotum(pair, archived) ==
    LET known(i) == {pair.public} \cup {archived[j].public : j \in 1..(i - 1)}
        older == {i \in 1..Len(archived) : archived[i].public \notin known(i)}
    IN  IF ~makeKey(pair) \/ \E i \in 1..Len(archived) : ~makeKey(archived[i])
        THEN [current |-> nokey, previous |-> nokey, keys |-> {}]
        ELSE [current  |-> pair.public,
              previous |-> IF older = {} THEN pair.public ELSE archived[Max(older)].public,
              keys     |-> {pair.public} \cup {archived[i].public : i \in older}]

Pop(f) == [f EXCEPT !.current = f.previous]

\* What a signature covers.
DirEntryHash(e, dkey) == [signed |-> e.signed, packing |-> e.packing, dkey |-> dkey, hash |-> e.hash]
FileSign(f, hash) == [key |-> f.current, of |-> hash]
Verify(key, hash, sig) == sig.key = key /\ sig.of = hash

\* The signature by the writer's key, old or new.
Signed(e, key, dkey) == \E s \in {e.sig, e.sig2} : Verify(key, DirEntryHash(e, dkey), s)

\* One's own key is the current one of the factotum, which the key server may
\* not have yet; the keys of others are looked up.
GetPublicKey(f, me, pub, user) == IF user = me THEN f.current ELSE pub[user]

-----------------------------------------------------------------------------
(* ee: the contents are encrypted with a key that is wrapped for each reader. *)

gcmWrap(key, dkey) == [key |-> key, dkey |-> dkey]
CanUnwrap(f, w) == w.key \in f.keys

\* A new entry, wrapped for its writer and for the owner of the name.
Close(f, me, root, rootKey, e, dkey) ==
    [e EXCEPT !.hash = e.sum,
              !.sig = FileSign(f, DirEntryHash([e EXCEPT !.hash = e.sum], dkey)),
              !.sig2 = sig0,
              !.wrap = {gcmWrap(k, dkey) : k \in {f.current} \cup (IF root = me THEN {} ELSE {rootKey})}]

Unpack(f, me, pub, e) ==
    LET mine == {w \in e.wrap : w.key = GetPublicKey(f, me, pub, me)}
    IN  IF e.sum # e.hash THEN "checksum"
        ELSE IF mine = {} THEN "CannotDecrypt"
        ELSE IF \E w \in mine : ~CanUnwrap(f, w) THEN "unwrap"
        ELSE IF \E w \in mine : ~Signed(e, GetPublicKey(f, me, pub, e.writer), w.dkey) THEN "verify"
        ELSE "ok"

ReaderHashes(e) == {w.key : w \in e.wrap}

\* The wrapped keys for new readers; any of my keys, an old one too, will unwrap.
Share(f, readers, e) ==
    LET mine == {w \in e.wrap : CanUnwrap(f, w)}
        new == {gcmWrap(k, (CHOOSE w \in mine : TRUE).dkey) : k \in readers \ ReaderHashes(e)}
    IN  IF mine = {} THEN {}
        ELSE {[e EXCEPT !.wrap = {w \in e.wrap : w.key \in readers} \cup new]}

\* A new name in the same directory, signed by whoever renames; the writer stays.
Name(f, me, pub, e, newName) ==
    LET own == GetPublicKey(f, me, pub, me)
        w == CHOOSE x \in e.wrap : x.key = own
        named == [e EXCEPT !.signed = newName]
    IN  IF own \notin ReaderHashes(e) THEN {}
        ELSE IF ~CanUnwrap(f, w) \/ ~Signed(e, GetPublicKey(f, me, pub, e.writer), w.dkey) THEN {}
        ELSE {[named EXCEPT !.sig = FileSign(f, DirEntryHash(named, w.dkey)), !.sig2 = sig0]}

\* Mutant of Countersign: the old signature is not kept.
CountersignOver(oldKey, f, e) ==
    LET w == CHOOSE x \in e.wrap : x.key = oldKey
    IN  IF oldKey \notin ReaderHashes(e) THEN {}
        ELSE IF ~CanUnwrap(f, w) \/ ~Verify(oldKey, DirEntryHash(e, w.dkey), e.sig) THEN {}
        ELSE {[e EXCEPT !.sig = FileSign(f, DirEntryHash(e, w.dkey)), !.sig2 = sig0]}

\* A second signature, by the new key, beside the newest of the old ones.
Countersign(oldKey, f, e) ==
    LET w == CHOOSE x \in e.wrap : x.key = oldKey
    IN  IF oldKey \notin ReaderHashes(e) THEN {}
        ELSE IF ~CanUnwrap(f, w) \/ ~Verify(oldKey, DirEntryHash(e, w.dkey), e.sig) THEN {}
        ELSE {[e EXCEPT !.sig = FileSign(f, DirEntryHash(e, w.dkey)), !.sig2 = e.sig]}

-----------------------------------------------------------------------------
(* eeintegrity: signed as with a zero key, not encrypted, not shared. *)

eiClose(f, e) ==
    [e EXCEPT !.hash = e.sum, !.sig = FileSign(f, DirEntryHash([e EXCEPT !.hash = e.sum], zero)), !.sig2 = sig0, !.wrap = {}]

eiUnpack(f, me, pub, e) ==
    IF e.sum # e.hash THEN "checksum" ELSE IF ~Signed(e, GetPublicKey(f, me, pub, e.writer), zero) THEN "verify" ELSE "ok"

eiName(f, me, pub, e, newName) ==
    LET named == [e EXCEPT !.signed = newName]
    IN  IF ~Signed(e, GetPublicKey(f, me, pub, e.writer), zero) THEN {}
        ELSE {[named EXCEPT !.sig = FileSign(f, DirEntryHash(named, zero)), !.sig2 = sig0]}

eiCountersign(oldKey, f, e) ==
    IF ~Verify(oldKey, DirEntryHash(e, zero), e.sig) THEN {}
    ELSE {[e EXCEPT !.sig = FileSign(f, DirEntryHash(e, zero)), !.sig2 = e.sig]}
=============================================================================
