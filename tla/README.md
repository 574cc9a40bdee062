# talos-fuse: TLA+ models and proofs

talos-fuse mounts the COSI resources of Talos nodes as a tree of YAML or JSON
files, and with `--sync` writes edited files back. This directory models the
parts of it that keep state or decide something, checks them with TLC, and
proves the most important results with TLAPS.

## The system

| Part | Where | State | Operations | Correct when |
|---|---|---|---|---|
| Resource files and handles | `internal/fs/nodes.go` (`resourceFile`), `internal/fs/file.go` | per inode `content`, `contentErr`, `contentMu`; per open file a write buffer | Lookup, Open, Read, Write, Flush, Getattr, Setattr, Release | reads of an inode never go back; nothing cached outlives an invalidation; a read-only mount writes nothing; what is pushed names its file; every request is answered |
| TTL cache | `internal/fs/cache.go` | `rdCache`, `lrCache`, `mu` | ResourceDefinitions, ListResources, UpdateResource (Prefetch) | age of what it serves is bounded; an update invalidates |
| Background prefetch | `prefetchNodeLists` in `nodes.go` | a semaphore, a WaitGroup, goroutines | started by each Readdir of a node | bounded, complete, ends |
| Directory tree | `nodes.go`, `format.go` | per directory inode: node, namespace, definitions snapshot | Lookup and Readdir at each level | Lookup and Readdir agree; requests go where the path says |
| Start | `cmd/root.go`, `internal/talos/client.go` | flags, talosconfig file, label map, Options | RunE and its goroutines | starts or fails; Omni is not mounted writable; labels are settled |
| Adapter and client | `internal/fs/adapter.go`, `internal/talos` | a client per call | one per repository method | client closed on every path; the right node asked; an errno tells why; every call returns |
| Parser, formatter | `internal/resourceutil` | none | ParseResource, FormatResource | what is read can be written back; a save goes where its path says |

go-fuse calls the file and directory methods on a goroutine per kernel request;
they call the cache (`Options.Repository`), which calls the adapter, which opens
a connection to a node for each call. There are three kinds of concurrency:
FUSE requests, prefetch goroutines, and the world behind the node (other
clients, edits of the talosconfig). Nothing is persisted, so there is no crash
recovery; the hard parts are locks held or not held across RPCs, caches
(kernel entries, inodes, lists, definitions) invalidated separately, and lost
replies. No RPC has a deadline of its own.

## Modules

**ResourceFile** is the core: one resource of one node with every inode the
kernel may hold of its path, every open handle, the request each goroutine is
serving, and the COSI server. A content is the version it was formatted from; 0
is Go's nil. `mu[i]` is `contentMu`. A request is a sequence of actions that
meet at the lock and at the RPC:

| Code | Actions |
|---|---|
| `Read`, `fetch` | `Read`, then `FetchHit`, or `FetchMiss` `GetResource` `FetchStore`, then `Answer` |
| `Flush`, `UpdateResource` | `Flush` (gate, buffer copy, parse, metadata check), `UpdateApplied` or `UpdateRefused`, `FlushInvalidate`, `Answer` |
| `Getattr` | `Getattr`, `GetattrSize`, `Answer` |
| `Setattr` | `Setattr`, `SetattrTruncate`, `Answer` |
| `Write` (both), `Open`, `Lookup` | one action each |

`UpdateApplied` may lose its reply. What is written is abstracted to the start of
a document (`head`, with the version it was read at, or `alien`, of another
resource), the rest of it, and junk: enough to tell apart empty, torn, whole,
mismatched and unparsable buffers. YAML parses at any cut between lines, JSON only
when complete. EIO stands for every errno `grpcErrno` gives to a failed call.
go-fuse prefers an inode's Setattr to a handle's, so `fileHandle.Setattr` never
runs and has no action. `floor`, `acked`, `fetches` and `since` are history that
only properties read.

**CachingRepository** is the cache with a discrete clock. The two maps are one
function over `Nodes \cup Lists`; `left` is the life an entry has left. `Lookup`
and `Store` are separate because `mu` is free during the inner call, and `Delete`
follows `InnerUpdate` as a step of its own. The entry carries history: how long
the fetch took, how long the listing has been out of date, and whether an update
was acknowledged while it was on its way.

**RepositoryAdapter** is one repository call below the cache: `newClient`,
`effectiveNodes` (maintenance mode only), `ResolveResourceKind` (lists and gets
only), `Read` or `UpdateApplied` or `UpdateRefused`, the deferred `Close`, and
`Return`, with the talosconfig edited and the nodes changing between any two. Each
step may fail with the errors that its layer builds; an error is the chain
`errors.Unwrap` walks, so that `grpcErrno` and `mapFlushError` can be what the code
makes of it, whichever layers wrapped it.

**Prefetch** is `prefetchNodeLists`: loop, semaphore, WaitGroup, one goroutine per
definition, and its two deferred calls in the order they run. **Warming** composes
it with `CachingRepository` (`C == INSTANCE ... WITH`): the list call of a goroutine
is a call of the cache, which a user lists through and saves through meanwhile.

**Startup** is `RunE`: format check, Omni gate, node resolution, host names,
cache warming, mount, with the goroutines of the two parallel stages, and the
talosconfig being edited between any two readings.

**Tree** is name resolution: the label map, namespaces, display names with their
case, aliases and collisions, ID escaping and file extensions, as operators, and a
process that walks by Lookup and Readdir. Nodes answer anything from `Catalogs`
and `Ids` at each call, which also covers what the caches may answer. The
namespace `""` of a definition is `None`.

**Save** extends Tree: the process reads the file it has walked to, edits the
document and saves it. A document is what `FormatResource` writes and
`ParseResource` reads: `metadata` and `spec` blocks, missing or repeated, or no
mapping at all; a JSON number passes through a float64. `Flush` here has the
metadata check and the key of the cache entry that the update deletes; when bytes
are buffered, locked and sent is in `ResourceFile`.

### What the components promise

Three modules say it without saying how, and the detailed ones are shown to
implement them (`INSTANCE ... WITH` a refinement mapping, the abstract `Spec` as a
property of a run, and a theorem):

| Abstract | Promise | Implemented by | Mapping |
|---|---|---|---|
| `Register` | an inode is a register: a read takes effect at one moment, shows a version the node has or had and none older than the inode has shown; an acknowledged write is in every later read of its inode and of inodes made for the path later; nothing across inodes that exist | `ResourceFile`, `ImplementsRegister` | `shown` is `floor`; a request is a read or a write until the step that decides its answer |
| `StaleStore` | per key at most one copy, brought by a call; an acknowledged update leaves none, but does not touch the copies still coming; nothing is handed out that has been out of date for longer than the bound | `CachingRepository`, `ImplementsStaleStore` | `kept` is what is valid in the map, `coming` what goroutines carry, `given` what they return; the bound is ttl plus the longest call |
| `Repository` | a call has one effect at most, at one moment between start and return, on its node; an error may have been applied all the same | `RepositoryAdapter`, `ImplementsRepository` | a call is asked until its last RPC, then answered or failed |

`Repository` is what `ResourceFile` and `CachingRepository` take their inner calls to
be: a fetch or a listing is answered with a version of that moment or fails, an update
is applied at one moment, and its error does not tell that it was not.

`MC*` modules hold the definitions instances need, and the documented claims that TLC refutes;
`*Proofs` modules hold the theorems. Definitions whose comment says "a seeded bug"
are variants of the definition after them that are not used in any action: they
are substituted for it to see that a property notices.

## Runs

Passing:

| Run | Bounds | Shows |
|---|---|---|
| `RFTwoInodes` | 2 goroutines, 2 inodes, 2 handles, 2 versions, 1 write per handle | the inductive invariant `IInv`; `OneFetchPerEpoch`, `CachedSinceInvalidated`, `ReadsNeverGoBack` |
| `RFMounts` | 2 goroutines, 1 inode, 1 handle, 2 writes of every kind, all mount options, fairness | `ReadOnlyMountIsInert`, `TypeOK`; `Answered`; `ImplementsRegister` |
| `CRCache` | 2 goroutines, one key of each map, ttl 0 or 2, calls of up to 1 tick, 2 versions | `StalenessBounded`, `StaleOnlyIfOvertaken`, `IInv`, `OutdatedIsDropped`, `ImplementsStaleStore` |
| `ADCalls` | 1 caller, 2 nodes, 3 versions; both modes; `--nodes` given or not; context missing, without nodes or with one; five status codes | `NoClientLeaks`, `AskedOfItsNode`, `ErrnoTellsCause`, `IInv`, `CallReturns`, `ImplementsRepository` |
| `PFPrefetch` | 1 walk of 3 definitions, one without a namespace; semaphore of 1; 1 call by a user; ttl 2, 2 versions | `Throttled`, `Accounting`, `NothingLeftBehind`, `WarmingIInv`, `ColdWalkWarms`, `WalkEnds` |
| `STStart` | 2 nodes; every combination of flags and talosconfig, edited at any time | `OmniContextNeverWritable`, `IInv`, `LabelsSettled`, `StartsOrFails` |
| `TRWalk` | 2 nodes with one possible host name; definitions that collide by alias, type, case and namespace; IDs with `/` and `+`; integers on both sides of a mantissa | `PathNamesInode`, `ListedIsFound`, `IInv`, `SavedWherePathSays`, `UneditedIsFaithful`, `SaveDropsItsList` |

Why these are enough: a race in `ResourceFile` is between a reader and one writer,
or two readers, of an inode, and crosses inodes only through a handle opened before
the entry expired, so two of each meet every pair of steps; a version must be
overtaken once to be seen going back. A document has two parts, so two writes make
every kind of buffer. In the cache keys do not interact, and a slow fetch needs one
other goroutine to be overtaken, by an update or by a second fetch. Callers of the
adapter share only the talosconfig and the nodes, and `EditConfig` and `ServerChange`
do to those whatever another caller could. `Prefetch` uses a semaphore smaller than
its work, as 8 is against the definitions of a node. A mantissa of 2 bits rounds 5
down and 7 up, as 53 bits do far higher. What is
proved does not depend on any of this.

Refuted claims (each run checks one statement of a comment or the README, and TLC
shows an execution that contradicts it; `PROJECT.json` says what the code does
instead):

| Run | Claim | Execution |
|---|---|---|
| `RFTruncateReachesBuffer` | nodes.go:450-451, file.go:55-56 | write, then ftruncate on the same handle: the buffer keeps its bytes |
| `RFFlushReachesPath` | file.go:176-177 | open, entry expires, new inode is read, flush through the old handle: the path still shows the old content |
| `CRListReflectsUpdate` | cache.go:112 | a list call is answered, an update is made and deletes the entry, the list call stores the old listing |
| `STOmniNeverWritable` | README.md:161-162 | the talosconfig cannot be read at the gate, or `--cluster` stands for its cluster field |
| `TRListedFileIsFound` | format.go:15, README.md:142 | an ID `a+` is listed, and leads to `a/` |

Other disagreements the models contain, without a run of their own: nothing is
"fetched eagerly at Open time" (nodes.go:38-39), so two reads of one handle may
differ; closing a file that was only read on a writable mount flushes an empty buffer
and fails with EIO, and on a read-only mount with EACCES (the plan, line 267, gives a
buffer only to handles "opened for write"); a parse error is EIO where the plan has
EINVAL (line 275); a stat waits for a concurrent read's RPC (nodes.go:423-424 says it
reports 0); maintenance mode without `--nodes` opens the talosconfig
(client.go:28-29, 50); of two nodes with one host name only the last can be entered
(nodes.go:93-94); an alias other than the first is not found (nodes.go:277-278); an
update that the node answers with PermissionDenied is EACCES where the plan has EPERM
(line 275, and plan-review-2.md:19): only a denied talosconfig is EPERM, and
`ErrnoTellsCause` leaves the errno of such a save open.

The bounds are CONSTANTS: `MaxVersion`, `MaxBuf`, `Parts`, `MaxFlight`, `TTLs`,
`Defs`, `MaxCalls`, `Integers64` and `Mantissa`. Symmetry is used in `RFTwoInodes` only,
which has no liveness property. Deadlock is checked in every run: a kernel can always send another request, and the talosconfig can always be edited.

## Fairness

`LocalFairness`: a goroutine that can run runs (weak), and one waiting for
`contentMu` gets it if it becomes free again and again (strong): Go's mutex hands
itself to a waiter that has starved for 1 ms. `ServerFairness`: calls return. The
code sets no deadline, so this is an assumption about nodes and connections;
without it a stat may wait for ever behind a read. The cache needs time to pass and
calls that return; `Prefetch`, `Warming`, `Startup` and `RepositoryAdapter` need
goroutines that run and calls that return, well or not. No request, edit, user call or
server change is assumed to happen. Under this `Answered`, `OutdatedIsDropped`,
`CallReturns`, `WalkEnds` and `StartsOrFails` are model-checked. That they hold is not
proved, but the part of each that needs no fairness is: see "On the way to liveness".

## Proofs

`ResourceFileProofs` proves for any threads, inodes, handles, versions, written data
and mount options, from `ConstantsAssumption` alone:

- `Invariance`: `Spec => []IInv`. The safety properties are not inductive: that
  `FetchStore` does not put an old version over a newer floor depends on who holds
  `contentMu` and on when the server answered. `IInv` adds `LockHeldAcrossFetch` (the
  lock is held exactly in a fetch's RPC, so no invalidation of that inode falls into
  it), `VersionsInOrder` (floor, cached and carried versions, and the server's, are
  ordered) and `FetchLeavesTrace` (what is cached or under way is of a fetch of this
  epoch, and a fetch of it is cached or under way). Each conjunct has a lemma with one
  step per action.
- `ReadSafety`, `SingleFetch`, `NothingOutlivesInvalidation`, `TypeCorrectness`:
  consequences of `IInv`. The third is about errors too, which have no version and which
  the register therefore allows at any time: an error is cached like content and has to
  go with it.
- `Refinement`: a step of `ResourceFile` is a step of `Register` or a stutter. What
  makes a read legal is `VersionsInOrder`, and that a hit returns what the lock held.
- `LockProtectsContent`: the cached fields of an inode change only while its lock is
  free, or by the store of the fetch that holds it; every assignment to them is covered,
  those of `Lookup` too, which takes no lock because it takes an inode nobody uses.
- `ReadOnlySafety`, from an argument of its own: the three gates refuse before anything
  is buffered or sent, and `opts` is constant.

`CachingRepositoryProofs` proves from `CacheAssumption`, for any ttl: `CacheInvariance`
(the life left of an entry, how long it has been out of date, and the trip of the
call that brought it add up), `StalenessTheorem`, `InvalidationTheorem`, and
`StoreRefinement`: a tick ages the abstract copies as it ages entries and carried
answers, and the sum above keeps both under the bound.

`RepositoryAdapterProofs` proves from `AdapterAssumption`, for any number of concurrent
callers (the run has one) and any nodes and codes: `AdapterInvariance` (`InOrder` ties
where a call is to its open client, its context, its result and the nodes it has
asked; `ErrorInOrder` says which chains its error can be, and that one made of a node's
answer needs a node that was asked), `NoClientLeaksTheorem`, `RoutingTheorem` and
`AdapterRefinement`. `ErrnoTheorem` follows a refusal through its layers:
`WrappingIsTransparent` says of any chain that wrapping changes no errno, so what is
left is what each chain ends in (`SaidPlainly`) and what a link that does not unwrap
hides (`SaidHidden`). It leaves open the errno of a save the node denies.
`ScopeTheorem` has an inductive invariant of its own, `InScope`: in maintenance mode,
where nothing behind the endpoint would choose a node, every RPC names some, and in the
other mode at most the call's own.

`PrefetchProofs` proves from `PrefetchAssumption`, for any walks, definitions and slots:
`PrefetchInvariance`, `AccountingTheorem`, `ThrottledTheorem`,
`NothingLeftBehindTheorem`. `Accounting` equates a channel's length and a counter with
cardinalities of sets of goroutines; `InOrder` adds that the loop has started nothing
it has not passed and passed nothing it has not asked for.

`WarmingProofs` proves from `WarmingAssumption` (and `PrefetchAssumption`) that the
composition implements both its parts (`WarmingIsPrefetch`, `WarmingIsCaching`), so
that their theorems hold of it (`WarmingWalks`); the assumptions of the cache's module
follow from the composition's own constants. `ColdWalkWarmsTheorem` is about both at once
and neither part's invariant implies it. `WarmingIInv` couples them: a goroutine is in a
call only while it lists, and in the call for its own definition (`InCall`); and whatever
a cold walk has been given, or finds in the cache, lasts for what the walk's age leaves
of the time to live (`StaysWarm`). That needs the entries of others too, since a hit of
one is what a goroutine may be given: an entry that is valid while a cold walk is under
way was stored after it began, for none was valid then.

`StartupProofs` proves `StartupInvariance`, `OmniGateTheorem` and `LabelsSettledTheorem`
from `StartupAssumption`. The gate has to be remembered: past it, a context that is
Omni and has not been edited comes with flags that do not ask to write. `ServedTheorem`
says what a mount that serves has behind it (nodes, no goroutine, labels of its own
nodes only, the write mode asked for), from an invariant on what each stage leaves to
the next (`Settled`).

`SaveProofs` proves from `TreeAssumption` and `SaveAssumption`, for any catalogs, labels,
IDs and integers: `TreeInvariance` and `PathNamesTheorem` (`TreeInv` is `IInv` with the
type of `path`: an inode has the fields of its level, its path that length, and each
name in it is the one its inode is shown under), `ListedTheorem` (a name that Readdir
lists is found: the lemmas `NodeFound`, `TypeFound` and `Escapes` say so for each
level), `EscapeTheorem` (escaping an ID can be undone exactly if it has no '+', and only
with such an ID can two files of a directory share a name), `SaveInvariance`, `SavedTheorem`, `UneditedTheorem` and `DropsTheorem`. `Min` and
`Max` over sets of positions get their meaning in `Least` and `Greatest`, from the
well-foundedness of `<`.

### On the way to liveness

A liveness property says that a measure runs out and that nobody is stuck meanwhile.
Both are safety, and proved where the run checks the property:

| Property | Runs out | Never stuck |
|---|---|---|
| `Answered` | `RequestAdvances`: a request has at most four steps and no step of another sets it back | `NoCircularWait`: who waits for `contentMu` waits for the one fetch of that inode, which waits for no lock |
| `CallReturns` | `CallAdvances`: at most six steps to the return | no step of a call waits for anything but the answer to an RPC |
| `WalkEnds` | `WalkAdvances`, `WarmingCallsAdvance`: each step of a walk, and of a goroutine's call of the cache, leaves fewer | `WalkNeverStuck`, `WarmingNeverStuck`: a walk that waits for a slot or for the WaitGroup has a goroutine that can go on, also inside the cache |
| `StartsOrFails` | `StartAdvances`: stages only go on, goroutines waited for only become fewer | the goroutines wait for nobody |
| `OutdatedIsDropped` | `LifeRunsDown`: only a store gives an entry life, and every tick takes some | the clock waits for nobody but a call that has taken `MaxFlight` ticks, which fairness ends |

The "never stuck" theorems state the guards of the actions; `ENABLED` and the step from
these facts and fairness to `~>` are out of the prover's reach. Entries of
the last column that name no theorem can be read off the guards, and TLC checks them as
part of the property.

Every named assumption on constants is evaluated by TLC in the runs. What stays with
TLC: the five liveness properties themselves, and recursion over data, which the prover
cannot reach (no proved module declares a recursive operator). Every invariant and
action property that a passing run checks has a theorem.

## Not modelled

- `fileHandle.Setattr`: unreachable, see above. Offsets and lengths of reads, attribute
  timeouts other than that entries expire, modes and owners.
- The layout of what the formatter writes and the encoders under it: `ResourceFile` has
  a content stand for its version, `Save` for the metadata and the numbers in it.
- How many prefetches run at once: each Readdir of a node starts another and nothing
  bounds them, so there is no bound to state; each is throttled by itself.
- gRPC, TLS, the COSI runtime, go-fuse and the kernel: external, modelled by how the
  code uses them (any answer, any error, replies lost after the effect).
- `main.go`, flag parsing, mount option strings, debug output.

## Plan

Done, in this order: ResourceFile, CachingRepository, Startup, Prefetch, Tree and the
proofs of the first two; then RepositoryAdapter with the errnos, the three abstract
specifications and their refinements, Save, Warming, and the proofs of Prefetch,
Startup, Tree and Save; then the proofs of ErrnoTellsCause and of Warming, and the
theorems on the way to liveness.

Left: `Mount`, the composition of `ResourceFile` with the list cache, for what a process
that saves a file and lists its directory sees. `SaveDropsItsList` and the refuted
`ListReflectsUpdate` are its two halves.
