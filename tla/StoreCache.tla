----------------------------- MODULE StoreCache -----------------------------
(***************************************************************************)
(* The store cache (store/storecache/cache.go): blocks of StoreServers     *)
(* kept as local files, an LRU of cachedRefs that says which, and a soft   *)
(* limit on their size.                                                    *)
(*                                                                         *)
(* Clients call get, put and delete concurrently.  The lock of the cache   *)
(* (c.Lock) is held while waiting for the lock of a cachedRef, and that is *)
(* held while talking to a StoreServer.  A busy cachedRef is locked, or    *)
(* was left so by a put that failed: a get therefore never waits on the    *)
(* condition variable hold (see CacheAgrees).                              *)
(*                                                                         *)
(* The writeback queue appears here only as the set of its links and the   *)
(* step that writes one back; module WritebackQueue has the rest.          *)
(***************************************************************************)
EXTENDS Integers, Sequences, FiniteSets, FiniteSetsExt, SequencesExt

CONSTANTS
    Ref,          \* references, all of one endpoint
    Size,         \* the size of each block
    Client,       \* callers
    None,         \* no client, no reference
    Settings      \* how the cache is set up and used, see below

\* A setting names the blocks that are used (refs), limit (the bytes the cache
\* may hold), the number of entries of the LRU (maxRefs), writethrough, what
\* clients do (ops), and what may go wrong (faults), how often (max):
\*   store    the StoreServer fails       link     the link cannot be made
\*   save     the file cannot be written  lose     a file disappears
\*   restart  the process is restarted
CacheAssumption ==
    /\ IsFiniteSet(Ref) /\ Size \in [Ref -> Nat \ {0}]
    /\ IsFiniteSet(Client) /\ None \notin Client
    /\ \A s \in Settings :
           /\ s.refs \subseteq Ref
           /\ s.limit \in Nat \ {0} /\ s.maxRefs \in Nat \ {0} /\ s.max \in Nat
           /\ s.writethrough \in BOOLEAN
           /\ s.ops \subseteq {"get", "put", "delete"}
           /\ s.faults \subseteq {"store", "save", "link", "lose", "restart"}

VARIABLES
    setting, \* one of Settings; it never changes
    lru,    \* the references of the LRU, newest first
    cr,     \* the cachedRef of each reference
    crLock, \* who holds the lock of the cachedRef
    cLock,  \* who holds the lock of the cache
    inUse,  \* bytes cached
    disk,   \* references that have a cache file
    link,   \* references that have a writeback link
    stored, \* references that are in the StoreServer
    proc,   \* what each client is doing
    acked,  \* references whose last put returned success
    faults  \* number of faults so far

vars == <<lru, cr, crLock, cLock, inUse, disk, link, stored, proc, acked, faults>>

Limit == setting.limit
MaxRefs == setting.maxRefs
Writethrough == setting.writethrough

NoCr == [valid |-> FALSE, busy |-> FALSE, size |-> 0]
Idle == [pc |-> "idle", op |-> "get", ref |-> None, sure |-> FALSE]

Init ==
    /\ setting \in Settings
    /\ lru = << >>
    /\ cr = [r \in Ref |-> NoCr]
    /\ crLock = [r \in Ref |-> None]
    /\ cLock = None
    /\ inUse = 0
    /\ disk = {}
    /\ link = {}
    /\ stored = {}
    /\ proc = [c \in Client |-> Idle]
    /\ acked = {}
    /\ faults = 0

Fault(f) == f \in setting.faults /\ faults < setting.max /\ faults' = faults + 1

Goto(c, pc) == proc' = [proc EXCEPT ![c].pc = pc]
Return(c) == proc' = [proc EXCEPT ![c] = Idle]

\* The put of a client returns success.  What was deleted since it began is
\* not expected to be there.
Succeed(c) ==
    /\ Return(c)
    /\ acked' = IF proc[c].sure THEN acked \cup {proc[c].ref} ELSE acked

-----------------------------------------------------------------------------
(* Calls. *)

CacheVars == <<lru, cr, crLock, cLock, inUse, disk>>

Call(c, op, r) ==
    /\ proc[c].pc = "idle"
    /\ proc' = [proc EXCEPT ![c] =
           [pc |-> IF op = "delete" \/ (op = "put" /\ Writethrough) THEN "store" ELSE "enforce",
            op |-> op, ref |-> r, sure |-> TRUE]]
    /\ UNCHANGED <<CacheVars, link, stored, acked, faults>>

\* A put that writes through: "if we can't put it to the store, don't cache".
StorePut(c) ==
    /\ proc[c].pc = "store" /\ proc[c].op = "put"
    /\ stored' = stored \cup {proc[c].ref}
    /\ Goto(c, "enforce")
    /\ UNCHANGED <<CacheVars, link, acked, faults>>

\* delete deletes the block from the StoreServer first.
StoreDelete(c) ==
    /\ proc[c].pc = "store" /\ proc[c].op = "delete"
    /\ proc[c].ref \in stored
    /\ stored' = stored \ {proc[c].ref}
    /\ acked' = acked \ {proc[c].ref}
    /\ proc' = [d \in Client |->
           IF d = c THEN [proc[d] EXCEPT !.pc = "lookup"]
           ELSE IF proc[d].ref = proc[c].ref THEN [proc[d] EXCEPT !.sure = FALSE]
           ELSE proc[d]]
    /\ UNCHANGED <<CacheVars, link, faults>>

\* The StoreServer fails, or has nothing to delete.
StoreFails(c) ==
    /\ proc[c].pc = "store"
    /\ IF proc[c].op = "delete" /\ proc[c].ref \notin stored
       THEN UNCHANGED faults ELSE Fault("store")
    /\ Return(c)
    /\ UNCHANGED <<CacheVars, link, stored, acked>>

-----------------------------------------------------------------------------
(* Eviction *)

\* Mutant of removeFile: the bytes stay in use.
removeFileOnly(r) ==
    /\ disk' = disk \ {r}
    /\ inUse' = inUse

removeFile(r) ==
    /\ disk' = disk \ {r}
    /\ inUse' = inUse - cr[r].size

\* OnEviction of the oldest, which is unlocked: a busy one is left alone.
OnEviction(r) ==
    /\ crLock[r] = None
    /\ IF cr[r].busy THEN UNCHANGED <<disk, inUse>> ELSE removeFile(r)

\* enforceByteLimitByRemovingLeastRecentlyUsedFile: it takes c.Lock, ...
EnforceLock(c) ==
    /\ proc[c].pc = "enforce"
    /\ cLock = None
    /\ cLock' = c
    /\ Goto(c, "evict")
    /\ UNCHANGED <<lru, cr, crLock, inUse, disk, link, stored, acked, faults>>

\* ... removes the oldest while the limit is reached, ...
Evict(c) ==
    /\ proc[c].pc = "evict"
    /\ inUse >= Limit
    /\ lru # << >>
    /\ OnEviction(Last(lru))
    /\ cr' = [cr EXCEPT ![Last(lru)] = NoCr]
    /\ lru' = Front(lru)
    /\ UNCHANGED <<crLock, cLock, link, stored, proc, acked, faults>>

\* inUse is below the limit, or nothing is left.
Below == inUse < Limit \/ lru = << >>

\* ... and unlocks.
EnforceDone(c) ==
    /\ proc[c].pc = "evict"
    /\ Below
    /\ cLock' = None
    /\ Goto(c, "lookup")
    /\ UNCHANGED <<lru, cr, crLock, inUse, disk, link, stored, acked, faults>>

-----------------------------------------------------------------------------
(* Looking a reference up in the LRU, under c.Lock, and locking its
   cachedRef. *)

Lookup(c) ==
    /\ proc[c].pc = "lookup"
    /\ cLock = None
    /\ cLock' = c
    /\ Goto(c, "lockRef")
    /\ UNCHANGED <<lru, cr, crLock, inUse, disk, link, stored, acked, faults>>

Has(c, op) == proc[c].pc = "lockRef" /\ proc[c].op = op

\* get and put make a new cachedRef, busy and locked; the LRU may be full.
NewCachedRef(c) ==
    /\ Has(c, "get") \/ Has(c, "put")
    /\ LET r == proc[c].ref
           old == Last(lru)
           new == [valid |-> FALSE, busy |-> TRUE, size |-> 0]
       IN  /\ ~Contains(lru, r)
           /\ IF Len(lru) = MaxRefs
              THEN /\ OnEviction(old)
                   /\ lru' = <<r>> \o Front(lru)
                   /\ cr' = [cr EXCEPT ![old] = NoCr, ![r] = new]
              ELSE /\ lru' = <<r>> \o lru
                   /\ cr' = [cr EXCEPT ![r] = new]
                   /\ UNCHANGED <<disk, inUse>>
           /\ crLock' = [crLock EXCEPT ![r] = c]
    /\ cLock' = None
    /\ Goto(c, IF proc[c].op = "get" THEN "fetch" ELSE "save")
    /\ UNCHANGED <<link, stored, acked, faults>>

\* The LRU has it, and its lock is free.
MoveToFront(r) == lru' = <<r>> \o Remove(lru, r)
Found(c, op) == Has(c, op) /\ Contains(lru, proc[c].ref) /\ crLock[proc[c].ref] = None

\* get reads the file, if there is one ...
GetCached(c) ==
    /\ Found(c, "get")
    /\ cr[proc[c].ref].valid
    /\ proc[c].ref \in disk
    /\ MoveToFront(proc[c].ref)
    /\ cLock' = None
    /\ Return(c)
    /\ UNCHANGED <<cr, crLock, inUse, disk, link, stored, acked, faults>>

\* ... and else goes on to fetch the block, holding the lock of the cachedRef.
GetInvalid(c) ==
    /\ Found(c, "get")
    /\ cr[proc[c].ref].valid => proc[c].ref \notin disk
    /\ MoveToFront(proc[c].ref)
    /\ cr' = [cr EXCEPT ![proc[c].ref].valid = FALSE]
    /\ crLock' = [crLock EXCEPT ![proc[c].ref] = c]
    /\ cLock' = None
    /\ Goto(c, "fetch")
    /\ UNCHANGED <<inUse, disk, link, stored, acked, faults>>

\* put has nothing to do when the block is "already cached or being cached".
PutCached(c) ==
    /\ Found(c, "put")
    /\ cr[proc[c].ref].valid \/ cr[proc[c].ref].busy
    /\ MoveToFront(proc[c].ref)
    /\ cLock' = None
    /\ Succeed(c)
    /\ UNCHANGED <<cr, crLock, inUse, disk, link, stored, faults>>

PutInvalid(c) ==
    /\ Found(c, "put")
    /\ ~cr[proc[c].ref].valid /\ ~cr[proc[c].ref].busy
    /\ MoveToFront(proc[c].ref)
    /\ crLock' = [crLock EXCEPT ![proc[c].ref] = c]
    /\ cLock' = None
    /\ Goto(c, "save")
    /\ UNCHANGED <<cr, inUse, disk, link, stored, acked, faults>>

\* delete removes the cachedRef and the file, unless it is busy.
DeleteCached(c) ==
    /\ Found(c, "delete")
    /\ LET r == proc[c].ref
       IN  IF cr[r].busy
           THEN MoveToFront(r) /\ UNCHANGED <<cr, disk, inUse>>
           ELSE /\ removeFile(r)
                /\ lru' = Remove(lru, r)
                /\ cr' = [cr EXCEPT ![r] = NoCr]
    /\ cLock' = None
    /\ Return(c)
    /\ UNCHANGED <<crLock, link, stored, acked, faults>>

DeleteAbsent(c) ==
    /\ Has(c, "delete")
    /\ ~Contains(lru, proc[c].ref)
    /\ cLock' = None
    /\ Return(c)
    /\ UNCHANGED <<lru, cr, crLock, inUse, disk, link, stored, acked, faults>>

-----------------------------------------------------------------------------
(* Holding the lock of the cachedRef. *)

Unlock(c) == crLock' = [crLock EXCEPT ![proc[c].ref] = None]

\* The loop over locations and retries of get ends with the block, which is
\* saved unless it is volatile, ...
Fetch(c) ==
    /\ proc[c].pc = "fetch"
    /\ proc[c].ref \in stored
    /\ Goto(c, "save")
    /\ UNCHANGED <<CacheVars, link, stored, acked, faults>>

\* ... or is volatile, or with an error.
FetchNothing(c) ==
    /\ proc[c].pc = "fetch"
    /\ cr' = [cr EXCEPT ![proc[c].ref].busy = FALSE]
    /\ Unlock(c)
    /\ Return(c)
    /\ UNCHANGED <<lru, cLock, inUse, disk, link, stored, acked, faults>>

\* saveToCacheFile writes and renames a temporary file, and counts its bytes.
saveToCacheFile(r) ==
    /\ disk' = disk \cup {r}
    /\ cr' = [cr EXCEPT ![r] = [valid |-> TRUE, busy |-> FALSE, size |-> Size[r]]]
    /\ inUse' = inUse + Size[r]

GetSave(c) ==
    /\ proc[c].pc = "save" /\ proc[c].op = "get"
    /\ saveToCacheFile(proc[c].ref)
    /\ Unlock(c)
    /\ Return(c)
    /\ UNCHANGED <<lru, cLock, link, stored, acked, faults>>

\* get returns the block all the same when it cannot be saved.
GetSaveFails(c) ==
    /\ proc[c].pc = "save" /\ proc[c].op = "get"
    /\ Fault("save")
    /\ cr' = [cr EXCEPT ![proc[c].ref].busy = FALSE]
    /\ Unlock(c)
    /\ Return(c)
    /\ UNCHANGED <<lru, cLock, inUse, disk, link, stored, acked>>

\* Mutant of PutSave: the block is not to be written back.
PutSaveUnlinked(c) ==
    /\ proc[c].pc = "save" /\ proc[c].op = "put"
    /\ saveToCacheFile(proc[c].ref)
    /\ Unlock(c) /\ Succeed(c)
    /\ UNCHANGED <<lru, cLock, link, stored, faults>>

PutSave(c) ==
    /\ proc[c].pc = "save" /\ proc[c].op = "put"
    /\ saveToCacheFile(proc[c].ref)
    /\ IF Writethrough
       THEN Unlock(c) /\ Succeed(c)
       ELSE Goto(c, "link") /\ UNCHANGED <<crLock, acked>>
    /\ UNCHANGED <<lru, cLock, link, stored, faults>>

\* put returns an error if the block was to be written back; either way the
\* cachedRef stays busy.
PutSaveFails(c) ==
    /\ proc[c].pc = "save" /\ proc[c].op = "put"
    /\ Fault("save")
    /\ Unlock(c)
    /\ IF Writethrough THEN Succeed(c) ELSE Return(c) /\ UNCHANGED acked
    /\ UNCHANGED <<lru, cr, cLock, inUse, disk, link, stored>>

\* requestWriteback makes the link and enqueues the request.
PutLink(c) ==
    /\ proc[c].pc = "link"
    /\ link' = link \cup {proc[c].ref}
    /\ Unlock(c)
    /\ Succeed(c)
    /\ UNCHANGED <<lru, cr, cLock, inUse, disk, stored, faults>>

PutLinkFails(c) ==
    /\ proc[c].pc = "link"
    /\ Fault("link")
    /\ Unlock(c)
    /\ Return(c)
    /\ UNCHANGED <<lru, cr, cLock, inUse, disk, link, stored, acked>>

-----------------------------------------------------------------------------
\* A writer of the writeback queue.
Writeback(r) ==
    /\ r \in link
    /\ stored' = stored \cup {r}
    /\ link' = link \ {r}
    /\ UNCHANGED <<CacheVars, proc, acked, faults>>

\* A cache file is removed or becomes unreadable behind the cache's back.
Lose(r) ==
    /\ r \in disk
    /\ crLock[r] = None
    /\ Fault("lose")
    /\ disk' = disk \ {r}
    /\ UNCHANGED <<lru, cr, crLock, cLock, inUse, link, stored, proc, acked>>

SizeOf(S) == MapThenSumSet(LAMBDA r : Size[r], S)

\* The process is started again and walk adds what it finds to the LRU, in the
\* order of the directory; what does not fit is evicted.
Restart ==
    /\ Fault("restart")
    /\ \E s \in SetToSeqs(disk) :
           LET kept == SubSeq(s, 1, IF Len(s) < MaxRefs THEN Len(s) ELSE MaxRefs)
           IN  /\ lru' = kept
               /\ disk' = Range(kept)
               /\ cr' = [r \in Ref |-> IF Contains(kept, r)
                                       THEN [valid |-> TRUE, busy |-> FALSE, size |-> Size[r]]
                                       ELSE NoCr]
               /\ inUse' = -SizeOf(disk \ Range(kept))
    /\ crLock' = [r \in Ref |-> None]
    /\ cLock' = None
    /\ proc' = [c \in Client |-> Idle]
    /\ UNCHANGED <<link, stored, acked>>

-----------------------------------------------------------------------------
Step(c) ==
    \/ StorePut(c) \/ StoreDelete(c) \/ StoreFails(c)
    \/ EnforceLock(c) \/ Evict(c) \/ EnforceDone(c)
    \/ Lookup(c) \/ NewCachedRef(c)
    \/ GetCached(c) \/ GetInvalid(c) \/ PutCached(c) \/ PutInvalid(c)
    \/ DeleteCached(c) \/ DeleteAbsent(c)
    \/ Fetch(c) \/ FetchNothing(c) \/ GetSave(c) \/ GetSaveFails(c)
    \/ PutSave(c) \/ PutSaveFails(c) \/ PutLink(c) \/ PutLinkFails(c)

Next ==
    /\ \/ \E c \in Client : Step(c) \/ \E op \in setting.ops, r \in setting.refs : Call(c, op, r)
       \/ \E r \in Ref : Writeback(r) \/ Lose(r)
       \/ Restart
    /\ UNCHANGED setting

Spec == Init /\ [][Next]_<<setting, vars>>

-----------------------------------------------------------------------------
May(S) == S \cap (setting.ops \cup setting.faults) # {}

\* The LRU and the directory agree: a file has a valid cachedRef in the LRU,
\* through which it will be evicted, a valid one has a file unless that was
\* lost, and a busy one is not valid, so that nobody waits on hold.  inUse is
\* "current bytes cached", as long as the process runs and files stay where
\* they are.
CacheAgrees ==
    LET valid == {r \in Range(lru) : cr[r].valid}
    IN  /\ disk \subseteq valid
        /\ ~May({"lose"}) => valid \subseteq disk
        /\ \A r \in Ref : ~(cr[r].valid /\ cr[r].busy)
        /\ \A r \in Ref : crLock[r] # None => Contains(lru, r)
        /\ ~May({"restart", "lose"}) => inUse = SizeOf(disk)

\* "It is possible to push past the limit": every client that found inUse
\* below the limit may add one block, and no more.
SoftLimit == inUse < Limit + Cardinality(Client) * Max({Size[r] : r \in Ref})

\* A put that returned success is in the StoreServer or will be written back.
\* (In a writeback cache a put that fails, a restart and a concurrent delete
\* leave a cachedRef that makes the next put return success too early.)
PutIsKept ==
    Writethrough \/ ~May({"save", "link", "restart", "delete"}) => acked \subseteq stored \cup link

\* Every call returns.
CallsReturn == \A c \in Client : []<>(proc[c].pc = "idle")

=============================================================================
