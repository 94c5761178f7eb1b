# TLA+ specifications of Upspin

Upspin is a global name space of files. A *DirServer* keeps the directory tree
of each user, a *StoreServer* keeps blocks by the hash of their contents, a
*KeyServer* keeps the public keys and addresses of users. Clients bind to these
servers, pack (encrypt and sign) blocks, and put them together; a cache server
stands between a client and the servers, and `upspinfs` between a client and the
kernel. This directory specifies the parts in which several steps, several
goroutines or a crash can go wrong, checks them with TLC on small instances, and
proves with TLAPS what matters most about five of them for instances of any size:
the tree of a user, the server's set of trees, the writeback queue of the store
cache, the services that `bind` keeps, and the key server with its caches and log.

## The parts and what is hard about them

| Part | State | Hard behaviours | What makes it correct | Modules |
|---|---|---|---|---|
| `dir/server/tree`: tree | nodes in memory, dirty lists, log, log index | crash anywhere, failed stores and appends, loading on demand, replay | recovers exactly what clients saw; a flush misses nothing | `Tree`, `DirTree`, `TreeDurable` |
| `dir/server/tree`: log | files named by offset, saved offset and root | readers without the writer's lock, rotation, restart in a truncation | readers see each entry once, in order; files are contiguous | `TreeLog`, `AppendLog` |
| `dir/server/tree`: watchers | list of watchers on each node, event channels | wakeups, slow clients, nodes that come and go | no change is missed; watchers and Close end | `TreeWatch` |
| `dir/server`: trees | LRU of trees, pool of user locks | eviction, locks by hash, shutdown next to sessions | one writer per log; a tree is closed once | `DirTrees` |
| `dir/server`: operations | caches of Access and Group files | check and change are separate steps, stale caches | decisions follow the tree; every request is answered | `DirServer` |
| `dir/server`: snapshots | ticker, control channel, names of the day | requests next to the ticker, midnight, restarts | names are unique, automatic ones are apart | `Snapshot` |
| `dir/inprocess`, `client` | the tree and its Access files; events and listeners | operations of several calls, links, changes of rights between calls | files are wrapped for their readers; Rename loses nothing | `InProcessDir`, `Client` |
| `access` | parsed Access files, global map of groups | cyclic, missing and forgotten groups | Can and Users agree with the meaning of the lists | `Access`, `AccessParse` |
| `dir/dircache` | LRU and log of entries, watchers of servers, hashed locks | fills next to events, wiping, replay, endpoints that move | a settled cache agrees with the server; requests return | `DirCache` |
| `store/storecache`: queue | queues per endpoint, requests in flight, links on disk | two channels, retries, dead endpoints, restarts | a flush means stored; everything is stored in the end | `WritebackQueue` |
| `store/storecache`: cache | LRU of cachedRefs, files, bytes in use | locks of cache and entry, failures half way, limit | what was put is kept; the limit is soft by a known amount | `StoreCache` |
| `key/server`, `key/usercache` | user records, positive and negative caches, hash-chained log | refills next to a Put, a log write that fails, restarts | changes are logged first; caches agree with the store | `KeyServer` |
| `bind` | dialed services, dials in flight | concurrent dials, dead services, two critical sections | no service is lost or closed twice; callers share a dial | `Bind` |
| `rpc` | tokens, sessions, streams | expiry and restarts between tries, streams ended by either side | a method runs at most once; events stay in order | `Rpc`, `Stream` |
| `serverutil/perm` | set of writers | a watch that restarts, deletion and hiding of the file | in the end, the writers are those of the file | `Perm` |
| `pack/ee`, `pack/eeintegrity`, `factotum`, `cmd/upspin` keys | signatures, wrapped keys, key files | commands of several steps next to clients, stopped half way | a key change makes no file unreadable | `Packing`, `KeyRotation` |
| `cmd/upspinfs` | nodes, handles, local files and their write-back | rename and remove next to open handles, lock order | a closed file is stored; a file named for a reference has its contents | `Upspinfs` |

`PROJECT.json` lists every package with what is modelled of it, every definition
with its lines, and every hazard at its line of the source.

## How the modules are laid out

- A component's module declares its state, one action per operation or step of
  it, a next-state relation and the specification. `Paths` has path names as
  sequences (package `path`), for all of them.
- An `MC` module gives the constants for TLC. Most put several independent
  components side by side: a variable `part` says which of them a behaviour is
  about, and the variables of the others do not move. One run then asks one
  question of a whole server.
- Most modules have a variable named or ending in `setting`, chosen in the initial
  state from a constant and never changed. It says which instance of the
  environment is explored: which operations are used, which failures may happen,
  how large things are. A property that does not hold in every setting says so in
  its condition and in its comment.
- A definition whose comment begins "Mutant of X" is X with a plausible bug. It
  is not part of any specification: it documents which property would notice.
- Theorems about a component are in modules of their own, `...Proofs`.

### State and actions in the code

Definitions keep the names of the functions they translate where they can;
`PROJECT.json` gives the lines of each.

| Module | Variables and what they are in the code | Actions and the functions they are |
|---|---|---|
| `Tree` | `t`: `Tree.root` and its nodes, `dirtyNodes`; `log`, `index`: the `Writer`'s files and `LogIndex`; `status`, `phase`, `todo`, `cont`, `curr`: where New, flush and deleteRoot stand | `Open`, `ReplayRecord`, `ReplayEnd`: New, recoverFromLog; `PutRoot`, `Put`, `PutDir`, `Delete`, `DeleteRoot`, `Lookup`, `List`, `Flush`, `Close`: the methods; `StoreNode`, `StoreFails`, `SaveOffset`, `SaveRoot`, `SaveFails`: flush and store; `DeleteRootFile`, `TruncateLog`: deleteRoot |
| `TreeLog` | `dir`, `data`: names and contents of log files; `writer`, `reader`: program points in `log.go` | `StartAppend`, `Rotate`, `WriteCell`: Append; `StartTruncate`, `RemoveFile`, `CutFile`: Truncate; `NewLogs`, `NewReader`; `ReadStat`, `ReadList`, `ReadOpen`, `ReadStatAgain`, `ReadEntry`: ReadAt |
| `TreeWatch` | `at`: `node.watchers`; `w`: the `watcher` and its goroutine; `log`; `saved`: the order of the root in the root file; `shutdown` | `Watch`, `Put`, `Delete`, `Lookup`, `Flush`, `Close`; `LoadCurrent`, `SendCurrent`, `SentCurrent`: sendCurrentAndWatch; `ReadLog`, `SendTaken`, `SendGivenUp`: sendEventFromLog, sendEvent; `Sleep`, `Wake`: watch |
| `DirTrees` | `userTrees`; `tree`: the trees ever made; `logs`; `holder`: the user locks; `call`: the sessions | `LoadCached`, `LoadMiss`, `LoadNone`, `NewLogs`, `NewTree`: loadTreeFor; `CloseRemove`, `CloseTree`: closeTree; `DeleteLogs`; `ShutdownBegin`, `ShutdownNext`: shutdown |
| `DirServer` | `tree`; `access`: `server.access`; `groups`: the groups known to package access; `call`: the sessions | `Look`, `Flush`, `LookAgain`: lookup; `WhichAccess`, `GetAccess`, `LoadAccess`, `Decide`, `LoadPath`, `AddGroup`: hasRight; `Prepare`, `TreePut`: Put; `TreeDelete`, `Forget`: Delete; `Refresh`: groupRefreshLoop |
| `InProcessDir`, `Client` | `tree`, `access`: the server's maps; `mu`; `events`, `newEvent`, `newListener`, `listener`: the event manager; `call`: the client's call and its local variables | one step per call of the server: lookups link by link, getReaders, packing, and the locked sections of Put, Delete, Glob; the event manager and its listeners |
| `DirCache` | `lru`, `logs`: the clientLog; `prox`: the proxiedDir and its watcher; `held`: the hashed locks; `call`, `todo`: requests and the updates they still have to make; `srv`, `events`: the server (external) | a request asks the server, then updates the LRU and log step by step; the watcher's events; rotation, eviction, restart with replay, a moved endpoint |
| `WritebackQueue` | `request`, `ready`, `done`: the channels; `queued`, `epq`, `sched`: the scheduler; `par`: `parallelism`; `writer`, `client`, `link`, `stored` | `Request`, `Done`, `Retry`, `Flush`, `Die`: cases of the select; `Pick`, `EndPass`: pickAndQueue; `Take`, `Store`, `Unlink`, `StoreFails`, `Report`: writer, writeback; `Walk`: the cache's walk |
| `StoreCache` | `lru`, `cr`, `crLock`: the LRU of cachedRefs and their locks; `disk`, `inUse`, `link`, `stored`; `proc`: the calls | `Lookup` to `Unlock`: the part under the cache's lock; `Fetch`, `GetSave`, `PutSave`, `PutLink`, `DeleteCached`: get, put, delete; `EnforceLock`, `Evict`: the byte limit; `Restart`: walk |
| `KeyServer` | `storage`, `storedLog`, `log`, `cache`, `negCache`; `userCache`: the client's; `req`: the calls | each access to the store, operation on a cache and append of Lookup and Put; restart |
| `Bind` | `dialCache`, `reverseLookup`, `inflightDials` as in `bind.go`; `dials`, `service`: all there ever were; `caller` | `Reach`, `Wait`, `Ping`, `ReleaseDead`, `Dial`, `Dialed`: reachableService, step by step; `LookupUser`, `Result`: DirServerFor's loop; `ReleaseOwn`: Release |
| `Rpc`, `Stream` | `token`, `lastRefresh`, `sessionCache`; `invoke`: the calls; for a stream, each goroutine, the connection and the channels | the steps of Invoke and of the server's handler; one rendezvous or write per step of a stream |
| `Perm` | `writers`, `loop`; `file`, `watch`, `events`: the tree (external) | `Update`, `Open`, `Receive`, `Closed`: updateLoop; `Change`, `ChangeAccess`: changes of the file and of who may read it |
| `Snapshot` | `worker`: the loop; `clock`, `snaps`, `asker` | `Tick`, `Request`: the loop's select; `shouldSnapshot`; `Lookup`, `PutDir`: takeSnapshot; `Restart` |
| `Packing`, `KeyRotation` | `disk`: key files; `pub`: the key server; `dir`: entries with their packdata; `cmd`, `client` | keygen, countersign, rotate, share -fix, each entry a step; Put and Rename of clients |
| `Upspinfs` | `nodes`, `nodeMap`, `enoent`: the nodes of `fs.go`; `files`, `data`: the cache's names and local files; `locks`, `fLock`; `req`: kernel requests; `srv`, `store`: the servers (external) | each request up to the next lock or call: Create, Open, Write, Flush, Release, Rename, Remove, Link, Truncate and the rest |

## What the runs check

| Run | Module and configuration | Parts |
|---|---|---|
| `tree` | `MCTree` | `Tree` with every fault; `DirTrees` |
| `tree_durable` | `MCTreeDurable` | `TreeDurable`: `Tree` against `DirTree` |
| `dirserver` | `MCDirServer` | `TreeLog` against `AppendLog`, `TreeWatch`, `DirServer` |
| `wbq` | `MCWritebackQueue` | `WritebackQueue` |
| `cacheserver` | `MCCacheServer` | `DirCache`, `StoreCache` |
| `client` | `MCClient` | `Client` with `InProcessDir`, `Access`, `AccessParse` |
| `upspinfs` | `MCUpspinfs` | `Upspinfs` |
| `services` | `MCServices` | `KeyServer`, `Bind`, `Rpc`, `Stream`, `Perm`, `Snapshot`, `KeyRotation` with `Packing` |
| `watch_dead`, `access_users`, `dircache_link`, `rename_writer` | the modules of `dirserver`, `client`, `cacheserver`, `services` | the four findings below |

Deadlock is checked only in `tree` and `tree_durable`, where a step is always
possible; elsewhere the calls are bounded or the system is closed, and then it
rests.

### tree, tree_durable

`Tree` is one user's tree. The tree's mutex makes each operation one action; flush
and replay take several steps, and `Crash` may fall between any two. References
are content addressed, so the blocks of a packed directory are modelled by what
they hold (`Pack`), and loading takes them apart (`Fetch`, `Load`). `Faults`
selects failures: a lost append (`append`), a crash that tears a record (`torn`), a
refused block (`store`), the same while createRoot flushes the first root
(`create`), a save of the index that fails (`save`), the root's failing or a crash
between the two saves of a flush (`window`), a crash between the two steps of
deleteRoot (`delete`), a delete of a directory not yet loaded (`unseen`). A refused
block leaves the node as it was or, when the old blocks were dropped already,
without blocks. `DirTree` is the abstract name space: a map from paths to entries,
changed by one atomic operation at a time. `TreeDurable` defines what the files on
disk stand for (`Durable`) and what clients see (`View`), and instantiates
`DirTree` with it.

`tree` has the paths `/`, `/a`, `/b`, `/a/b`, two log records, every fault and one
failure. It checks the inductive invariant `IInv` (types; nodes hang below loaded
directories; dirty nodes are dirty up to the root and listed; no hidden kids) and
that store never meets a dirty kid. `tree_durable` has three log records, the faults
`torn`, `store`, `save` and `delete`, and up to two failures: clean entries are
packed, but for nodes that a second failed flush has left without blocks; New fails
only after a torn record other than the first and after a deleteRoot that was
stopped half way; otherwise what clients see is what would be recovered, and the
tree implements `DirTree`. The faults `append`, `create`, `window` and `unseen`
break these properties (see below) and are in `tree` only. Four paths give a
directory inside a directory, a sibling, and room for a snapshot of `/a` at `/b`;
three records allow a change before a flush, one after, and one after a crash.

The other part of `tree` is `DirTrees`: the LRU `userTrees`, the trees ever made,
the log files and the lock of each user, and what each session does. A session
loads a tree under the user's lock and uses it without. Two sessions of one user
and one of another; one setting has room for both trees and one lock for both
users, the other room for one tree, own locks, and a shutdown next to the
sessions. Three trees are made at most, so that a tree is closed, made again, and
made again.

### dirserver

- `TreeLog`: `dir` maps offsets to inodes, `data` holds cells, an entry is one or
  two cells, files have two. A reader takes the size of its file, lists the
  directory, opens the next file, and takes the writer's lock only in the last
  file, as the code does. Three settings: append-only up to six cells with a
  failure to open the next file; truncation to 0, 1 or 2; a write that fails half
  way. Files stay contiguous; without truncation or short writes a reader meets no
  part of an entry; the files implement `AppendLog`, a sequence of entries with a
  position per reader; readers catch up.
- `TreeWatch`: a watcher of a file, a watcher of a directory, from the start, from
  the current tree or from the next change on, with slow clients, done and Close;
  both while the watched file is replaced and deleted; and one that begins with the
  current tree while that is flushed. Three or four log records let a node appear,
  disappear and appear again while a watcher is at any step. Watch flushes and the
  watcher reads the saved root later, when it runs, so that it may begin with a
  newer tree than its order says: `base` is the order of that tree. In-place
  compaction of lists (`removeDeadWatchers`, `moveDownWatchers`) is as written.
- `DirServer`: a directory `d`, a file in it, an Access and a Group file; each call
  the code makes is a step. `seen` records what the right answer was at each moment
  of a decision. Three sessions of two users; settings with one writer of Access
  files, with Group files, with an Access file that is rewritten, and with one that
  cannot always be loaded, which then counts as absent.

### wbq, cacheserver

`WritebackQueue` has the channels of `wbq.go` with their capacities, the
scheduler's select, the writers, timers, the limit on parallelism, the links on
disk, crashes and `walk`. Settings: two blocks of one endpoint with two failures;
two endpoints and close; one block that is put again and fails whenever it can. A
flush may be received before its request, and the first request to an endpoint may
fail, in every setting: the client that is woken too early, and the endpoint that
is then `Abandoned`, are named in the properties. Two writers compete for one ready channel, and each limit of
parallelism is reached.

`StoreCache` has get, put and delete with the locks of the cache and of each
cachedRef, the LRU, files, links and bytes: two callers; writeback and
writethrough, with a lost file, failed saves, links and stores, a restart, and
three blocks under a limit of one byte. `DirCache` has sixteen settings, each of
which makes one thing happen to a directory, a file in it, an Access file and a
link: changes by others, new directories, crashes, trimmed logs, evictions,
truncated server logs, failing requests, Access files that go and come or cannot be
read, links, and endpoints that move, do not watch, or are down. *Settled* means
that no request is under way and the watcher has told all events. A Put is recorded
in the cache as the client's own entry, with the Sequence the client gave; a
negative version stands for it.

### client

`Client` calls the operators of `InProcessDir` one locked section at a time, so two
clients interleave between any two calls of the server. Nine settings: moves next
to puts and deletes, Access files that change next to puts, a directory that is
opened to all, links and a circle of them (three hops are allowed), one and two
listeners next to changes with a queue of one event, a directory that gives way to
a link, and patterns. Ghost variables say what ought to be kept (`kept`), what was
put under the old name of a Rename after its lookup (`unseen`), which files were packed for readers of an earlier Access file
(`stale`) and which calls were overtaken.

`Access` has Can and Users as loops over groups that are known, missing, bad, or
forgotten between two steps, with a reference definition of who is reached
(`Reached`, `Granted`); it starts from every combination of five lists and five
contents of groups, cycles included, with one group forgotten at any time.
`AccessParse` has splitList and the rule about all: every line up to seven
characters over a name character, comma, space and comment sign, and every file of
up to three lines.

### upspinfs

Two threads of kernel requests on two files, a directory with a file, a link and a
name of the kind that macOS uses for attributes; ten settings, from editing to
failing lookups, failing puts and a full disk. `view` is what the kernel's user may
find under each name: the contents that were asked for and, after a clean file was
cut to a size other than 0, what `clone` left of it. `raced` has the names that
another client changed or for which a Put failed. Three to seven requests allow a file to be created, written, flushed,
opened again, renamed and removed while the other thread is anywhere.

### services

Each is small and independent of the others here. Key server: two calls at once,
three users, of which one may put the record of another (a suffixed user),
failures of the log and of the store, restarts. Bind: three callers,
the key server and two endpoints, servers that come and go, four dials. Rpc: three
invokers; sessions of four hours, tokens used for two, messages that take one; two
sessions remembered; restarts, losses and a proxy. Stream: four events, two
messages on the wire, done, a broken connection and an ended watch. Perm: four
contents of the Writers file, three changes and one or two failures. Snapshot: days
of six hours and intervals of three, two who ask, a restart and a failure.
KeyRotation: the owner or a reader changes keys once or twice, with all commands
stopped half way once, next to puts, renames and changed readers.

## Fairness

A goroutine that can take a step takes one. This is weak fairness of the steps of
each part, `Step`, `Run`, `Act`, `Progress`; the requests of users, faults and
crashes are never fair. Where a run has several threads, calls are bounded, so it
is enough that some thread goes on. More is assumed where the code or the runtime
gives more:

- `WritebackQueue`: each case of the scheduler's select that is ready again and
  again is taken, which Go's random select justifies; timers fire.
- `StoreCache`: strong fairness of each call, as a mutex that is released again and
  again is got (Go's mutexes do not starve waiters).
- `TreeLog`: an append that has begun ends, and a reader that is asked to read
  reads. `TreeWatch`: a send ends at the latest after `watcherTimeout`.
- Servers answer: a call of an external server is a step like the others.

## What is proved

All theorems are about the modules as they are, for every value of the constants
that satisfies the named assumptions, which TLC evaluates on each instance.

**The tree** (`PathsProofs`, `TreeProofs`), for every set of path names closed under
prefixes, every set of values, every bound on the log and on failures and every
subset of the faults (`TreeAssumption`):

- `TreeInvariant`: `Spec => []IInv`, with
  `IInv == TypeOK /\ WellFormed /\ DirtyReachesRoot /\ NoHiddenKids`;
- its parts `TypeCorrect`, `TreeStaysWellFormed`, `FlushMissesNothing`,
  `AddKidHidesNothing`;
- `NoInternalError`: store never meets a dirty kid, which follows from `IInv` and
  the bottom-up order.

No part is inductive alone. That dirtiness is upward closed needs that nodes hang
below loaded directories (`markDirty` walks nodes that must exist); that put keeps
nodes reachable needs that addKid's fresh kids map hides nothing (`NoHiddenKids`);
that in turn needs that a dirty directory which is not loaded has never been
stored, hence the types of blocks and the dirty lists. The proof splits `IInv`
into the shape of the tree, of the log, of the index, and of the control state
(`IInvParts`, `IInvNext`), has lemmas on loading (`LoadReachable`, `LoadShape`),
on markDirty, put, delete and on what a failed flush leaves (`ClearListShape`), one
lemma per action, and combines them with PTL.

**The trees of the server** (`DirTreesLoadProofs`, `DirTreesProofs`), for any users,
sessions and locks, any assignment of locks to users and any size of the cache
(`TreesAssumption`): `TreesAlwaysRight`, `TreesSpec => []TreesAreRight`. No log has
two writers as long as no tree has fallen out of the cache and the server is not
being shut down; cached trees are open; no tree is closed twice. The last two hold
next to evictions and a shutdown too. The inductive invariant follows the locks:
who makes a tree holds the lock of its user from the moment the cache was found to
have none (`CallOK`), the cache has at most one tree of a user (`OneEach`), a tree
that is to be closed has left the cache, from which alone trees are taken
(`Uncached`), and, while nothing has fallen out, every open tree in use is in the
cache or in the hands of the one session that adds or closes it (`WriterOK`).

**The writeback queue** (`WritebackQueueClientProofs`, `WritebackQueueProofs`), for
any endpoints, blocks, clients and any finite set of writers:

- `BooksAlwaysRight`: inFlight counts the requests in the ready channel, in the
  writers and in the done channel, and they all fit in that channel; and each
  writeback link on disk has someone who is writing it back, unless blocks are put
  again;
- `FlushAlwaysMeansStored`: a flush returns only when its block is in the
  StoreServer, if the scheduler got the request first and blocks are not put again;
- `QueueInvariant`: the inductive invariant they rest on. Every queued request is in
  exactly one place, the queue of its endpoint, the ready channel, a writer, or the
  done channel (`Places`); what was written is stored and its link is gone
  (`Landed`); the block of a client that waits for a flush is queued or stored
  (`Flushers`). Without `Places`, a second report of the same request
  could wake a client early and break the count.

**Bind** (`BindProofs`), for any callers, keys, requests and dials (`BindAssumption`:
who asks, asks for something): `BindAlwaysKeepsTrack`, `BindSpec => []BindKeepsTrack`.
A cached service is open and is the one its release clears, none is closed twice,
none is open and forgotten, and no key is dialed twice at a time. The code gives up its mutex between looking into the maps, dialing and
writing to them, so the inductive invariant `BindInv` says what outlives each
critical section: a caller that dials has its key to itself (`DialerOK`,
`OneDialer`), for a dial that is not done is the one in `inflightDials` (`DialsOK`);
a service that was just dialed is open and nobody else knows it (`DialedOK`,
`ServicesOK`); `dialCache` and `reverseLookup` are inverse to each other
(`CachesOK`); and what a caller still holds exists (`CallerOK`). Without `OneDialer`
two callers could add a service for the same key and one would be lost.

**The key server** (`KeyServerProofs`), for any calls at once, users, records,
settings and failures (`KeyAssumption`): `KeyServerAlwaysRight`,
`KeySpec => []KeyServerIsRight`, from `KeyInvariant`. The record in the store was
announced in the stored log, which is chained, and never makes or unmakes an
administrator, whatever fails and whenever the server is started again; and the
caches, the client's included, agree with the store for a user whom no two calls
dealt with while the record changed. The first part needs that the log in the store
is a prefix of the one in memory (`LogOK`), that a Put which is about to store has
its attempt in the stored log, and that what lookup found, in either cache or the
store, says the truth about administrators (`ReqOK`, `StorageOK`). The second needs
that the call which has changed a record is the only one about its user
(`AloneOK`), that what the others have read is what is stored (`ReadOK`), and how
far that call must have come before each cache is right again (`KnownOK`).
`StoredLogOnlyGrows` is the action property that goes with the first part: no step
takes back or changes a record of the stored log, although each write replaces the
whole of it and a restart forgets what a failed write left in memory.

The lemmas are about the sequences that the modules use as queues and lists (what
appending, removing and taking the tail do to places, distinctness and membership),
and one for each action. A step that changes nothing an invariant is about is
covered by one lemma per module (`QuietInv`, `StutterInv`, the `...Frame` lemmas).

## What is only model-checked

- Liveness and everything under fairness: the prover has neither `ENABLED` nor
  rules for liveness here. These are the PROPERTYs of the runs but the two
  refinements.
- What recursive definitions compute (`Durable`, `Reached`, splitList, Glob), since
  induction over data is out of the prover's reach. So the refinement
  `ImplementsDirTree`, whose mapping replays the log, and `SeenIsDurable` and
  `NewNeverFails` with it, stay with TLC.
- The safety properties of the other modules, `TreeLog` (with its refinement of
  `AppendLog`), `TreeWatch`, `DirServer`,
  `Access`, `DirCache`, `StoreCache`, `Client`, `Rpc`, `Stream`,
  `Snapshot`, `KeyRotation` and `Upspinfs`: nothing in principle keeps them from
  being proved, but it has not been done.

## Where code and comments disagree

Four disagreements are runs of their own:

- `watch_dead`: `removeDeadWatchers` keeps a dead watcher and drops the live one
  that follows it (`dir/server/tree/watch.go:397`).
- `access_users`: Users leaves out members that a group lists after a group
  already to be expanded (`access/access.go:779`).
- `dircache_link`: after a Glob of a link's contents, a Lookup of the link is
  answered with ErrFollowLink and no entry (`dir/dircache/log.go:696`).
- `rename_writer`: Rename by someone other than the writer signs with the renamer's
  key and leaves Writer (`client/client.go:810`).

Others are excluded by the condition of a property or by the faults and settings
of a run. Those of the first table were seen as counterexamples with the change
named in the last column, and come back with it.

| What | Where | Property, and what to change |
|---|---|---|
| a crash between SaveOffset and SaveRoot loses the records of that flush | `tree.go:734` | `ImplementsDirTree`, fault `window` |
| New fails for good on a torn record, since Truncate computes a negative size | `log.go:473` | `NewNeverFails` without its first exception |
| a crash inside deleteRoot leaves records without a root, and New fails | `tree.go:665` | `NewNeverFails` without its second exception |
| a root whose first flush failed stays in memory, and Put fails | `tree.go:508` | `SeenIsDurable`, fault `create` |
| a change whose append failed stays in memory; later records may not replay | `tree.go:194` | `SeenIsDurable` and `NewNeverFails`, fault `append` |
| a directory that is not loaded is deleted as if it were empty | `tree.go:621` | `ImplementsDirTree`, fault `unseen` |
| after two refused blocks a clean directory has no blocks | `blocks.go:35` | `CleanIsPacked` without its exception |
| a write that fails half way leaves part of an entry, which a reader meets | `log.go:347` | `NoReadError`, conditioned on `Cuts = {}` only |
| a reader next to a truncation meets an error | `log.go:466` | `NoReadError`, conditioned on short writes only |
| Put over a watched node replaces it with its watchers | `tree.go:219` | `NoLostWakeup` without `ListsAreKept`, operation `putWatched` |
| Delete of a watched node moves its watchers without waking them | `tree.go:633` | the same, operation `deleteWatched` |
| a watcher begins with a tree that is newer than the order of its events, though `watch.go:125` says "at a fixed log position" | `watch.go:137` | `ClientSeesTree` without the case of `base` |
| an event lost to a timeout while the current tree is sent goes unnoticed | `watch.go:214` | `ClientSeesTree` without `missed` |
| a full LRU drops a tree that is in use | `dir/server/server.go:867` | `OneWriter` without `~evicted`, `maxTrees` 1 |
| overlapping Puts of one name get the same sequence number | `dir/server/server.go:429` | `DirServer`'s `CacheAgrees` without `WritersApart`, Access files put by two sessions |
| a Group file read before a Put is added to the known groups after it | `dir/server/server.go:439` | `DecisionIsCurrent` without its condition, five requests |
| an endpoint whose first request fails stays dead | `wbq.go:213` | `EventuallyStored` without `Abandoned` |
| a flush is received before its request | `wbq.go:239` | `FlushMeansStored`, of clients at `early` as well |
| a block put again while its link is removed is not written back | `wbq.go:342` | `BooksAreRight` without `~May("again")`, `may` = `again` |
| after a failed save or link, a restart or a delete, a put succeeds too early | `storecache/cache.go:308` | `PutIsKept` without its condition, one of `save`, `link`, `restart`, `delete` |
| bytes found at a restart are not counted | `storecache/cache.go:122` | `StoreCache`'s `CacheAgrees` without `restart` in its condition |

The following were met while modelling; the named condition, or the choice of
settings, keeps them out of the checked properties.

- *Directory cache.* A request that overlaps a foreign change leaves a stale entry
  (`raced`) until the name changes again; a Put whose event came first keeps the
  client's own entry, with its Sequence (`late`, `server.go:135`); a restart replays entries that were obsolete, evicted or trimmed
  (`drift`); `log.go:79` says obsolete entries are never written to log files, and
  wipeLog writes them; addAccess after addToLRU compares an entry with itself, so
  that WhichAccess stays stale (`log.go:26`); answers cached under names behind a
  link survive the link's deletion; two directories with one hashed lock deadlock
  (`log.go:782`); close hangs while the old endpoint's Watch does not succeed; a
  watcher that met ErrNotSupported is not started again.
- *Client and in-process server.* PutDuplicate through a link keeps the readers of
  the old directory (`client.go:811`); PutLink over a link returns success and
  leaves the old one; WatchNew is refused (`dir/inprocess/watch.go:249`); a
  directory filled between Delete's check and its lock is deleted
  (`directory.go:473`); Delete sends an event only when it failed, and the nil entry
  panics the event manager (`directory.go:485`); an event is sent with the lock
  held, which jams when the queue is full and the manager waits for the lock, and so
  does a Watch that holds the read lock while the manager waits behind a writer
  (`Jammed`); Rename's Delete loses an update made meanwhile (`unseen`); Glob follows a link that matches completely only if some
  other result needs following.
- *upspinfs.* Rename waits for a node's lock under the file system's
  (`fs.go:745`); Remove next to Flush recreates the file; a created file that was
  not flushed is forgotten by Remove, and a later Remove follows a nil pointer
  (`fs.go:467`); a failed open leaks a handle (`fs.go:373`); errors of markDirty
  are dropped; clone copies whole buffers, so that a clean file that is cut short is
  stored longer than asked, and one that is to grow does not (`cache.go:241`, though
  `cache.go:230` says it "copies the first size bytes"); Setattr drops the error of
  the Put it makes (`fs.go:593`, `fs.go:607`); any error of a Lookup is remembered as
  the absence of the name (`fs.go:419`); a Rename over an open target does not stop the target's write-back.
- *Key server.* A lookup that overlaps a Put leaves a stale cache (`touched`); a
  failed PutSuccess leaves the client's cache stale; the record of a Put that
  failed to store is kept and written by the next one.
- *bind, rpc, streams.* A second caller of a dead service gets an error; "auth
  token expired" is not retried; a late token from before a restart makes the
  second try fail too; a clean end of a stream is reported as an error while a
  broken connection is silent; the send of an error blocks after done was closed,
  though the comment at `rpc/client.go:289` says decodeStream returns; a relay is
  left blocked when serveStream fails to write.
- *Perm and snapshots.* A Writers file deleted while no watch is open is never
  noticed, nor are changes of nested groups, and a failed read is not repeated
  (`missed`). Only today's directory is looked at, so that snapshots are closer than
  twelve hours around midnight; a second request in the same minute fails.
- *Changes of keys.* A process that starts with the new key cannot decrypt before
  rotate and share -fix are through, as its own key is that of its factotum;
  countersign does not visit the trees of others (`Estranged`). A client that was started before keygen signs with the old key
  only, and a second rotation without share makes such files unverifiable
  (`lapsed`); countersign's help says that it updates wrapped keys, which it does
  not; keygen stopped between the two files leaves a pair that does not load;
  countersign and share put back a file that was deleted meanwhile.

## What is not modelled

Packages listed as not modelled in `PROJECT.json`: the cryptography itself and
encodings, adapters (`cloud`, transports, marshalling), command lines and test
environments, which are sequential or outside a model checker's reach. Within
modelled parts:

- the spelling of errors, logging and metrics; links inside `DirServer`; JSON forms
  of Access files; old names of log files; torn writes of the two index files;
- `client`: Create and Open, the reading of blocks, the check of who signed an
  Access file;
- `bind`: Register, NoCache, services that are the same at every dial, as the
  in-process key server is (`key/inprocess/key.go:105`); `rpc`: TLS, InvokeUnauthenticated, the wire format;
  `key/server`: Dial's reference count, the proof of domain ownership (a verdict);
- `pack`: blocks and their encryption, the layout of packdata, plain packing;
- `upspinfs`: listing, reading, mounting, the encrypted local files, the directory
  made up for a Private answer;
- `DirServer`: the second of two decisions, where an operation asks for two rights;
- `wbq.go`: a link that disappears before it is written back.
