# Verification of unixd and unixd-cache

`unixd` is a Rust library for small per-user daemons: a service manager owns a
Unix socket, starts the daemon at the first connection, and the daemon exits
when nobody uses it. `unixd-cache` is a disk cache that the short-lived
commands around such a daemon share without any daemon at all. Both are
libraries of protocols: between processes that share files, between threads
and tasks that share maps, and between a daemon and whoever starts it. This
directory holds TLA+ models of those protocols, the TLC runs that check them
on small instances, and TLAPS proofs of their safety for every instance.

## Inventory

| Part | Source | State it keeps | Operations |
|---|---|---|---|
| Key lock files | `unixd-cache/src/private.rs`, `cache.rs` | one file per held key, flock(2) locks, `maintenance.lock` | `lock_exclusive`, `try_lock_exclusive`, drop of `Held`, `clear` |
| Disk cache | `unixd-cache/src/cache.rs` | entry files, temporary files, `prune.lock` and its time | `lookup` locked and unlocked, `lock`, `store`, `prune`, `clear`, `usage` |
| Cache keys, policy | `key.rs`, `policy.rs` | none | digest of named parts; `serves_stale` |
| Private directories | `private.rs` | modes and owners | `ensure_root`, `ensure_dir`, `validate_root`, `create_private` |
| Single flight | `unixd/src/single_flight.rs` | a map of running flights | `run`, the task of a flight, `Landed::drop` |
| Lifecycle | `unixd/src/serve.rs` | open connections, a `Notify`, two cancellation tokens | accept loop, idle exit, signals, `Shutdown`, drain |
| Secret store | `unixd/src/secrets.rs` | a map of secrets with two lifetimes each | `put`, `get`, `remove`, `clear`, sweep task |
| Server transport | `server.rs`, `envelope.rs`, `limits.rs` | one connection | read a frame, answer, close, with two deadlines |
| Client transport | `client.rs`, `sys.rs` | one call | connect, write, read, with one deadline |
| Installation | `install.rs` | unit files, the socket and its directory | `install`, `uninstall` |

How they meet. A cache caller takes `maintenance.lock` shared and then its
key's lock file, reads, fetches, stores under the lock, and lets both go; a
store may then run a prune. A prune takes `maintenance.lock` shared,
`prune.lock` exclusively, and each key's lock without waiting. `clear` takes
`maintenance.lock` exclusively and nothing else. Unlocked lookups take no lock
at all. In the daemon, each accepted connection is a task that runs the server
transport and then counts itself out; the accept loop reads that count to
decide when to leave. Handlers call `SingleFlight`, `SecretStore` and the
cache, and may ask for the drain. A client and the server meet only in the
bytes of one connection, which each end bounds by its own cap and its own
deadlines. Installation meets the daemon only through the service manager: two
majors of one service have units and sockets of their own, in one directory
that the last of them removes. A prune judges an entry by its header, which
`read_header` cuts out of the file while it reads.

What is hard:

- *Lock files are deleted by their holder.* A waiter may be granted a lock on
  a file that is no longer at the path. Correct when there is one holder, when
  a drop never deletes somebody else's file, and when a waiter neither starves
  nor blocks the key.
- *Files are judged and then removed by path.* Correct when what is removed is
  what was judged, although writers rename over the same path, and when no
  writer loses its temporary file.
- *Prune has bounds, an order and a deadlock to avoid.* Correct when both
  low-water targets hold at its end, the least recently used go, and it waits
  for no key.
- *A flight's task, its callers and the runtime end in any order.* Correct when
  one flight of a key runs, a dead one is never joined, and every caller is
  answered.
- *The idle exit sleeps on a count it read minutes ago*, the drain races the
  handlers, and connections arrive while the daemon leaves. Correct when no
  request is cut by idleness, every drain ends, and every connection is taken
  by some daemon.
- *Lifetimes are computed from a clock that was read before the lock.* Correct
  when no secret is served past its age, and none dropped before its time.
- *Two implementations of one frame cap*, one of which reads through a line
  codec, race five deadlines over sockets that fill up, and a close may throw
  away what the peer has not read. Correct when both agree at the boundary, no
  written response is lost, and neither end can keep the other.
- *Installation is a sequence of steps that each may fail*, against a service
  manager that answers before it is done and whose silence is read as an
  answer. Correct when an operation that returns Ok has done what it says,
  whatever earlier failures left behind.
- *The header is searched chunk by chunk.* Correct when no cut between two
  reads hides the key or moves its place.

`PROJECT.json` lists every hazard at its line, with the properties that cover
it or the reason why none does yet.

## Modules

| Module | Models | EXTENDS / INSTANCE |
|---|---|---|
| `Mutex` | what a key's lock promises | |
| `LockFile` | the protocol of one lock file | `Mutex`, by refinement |
| `Cache` | reads, stores, prune, clear over several keys | |
| `SingleFlight` | `SingleFlight` | |
| `Lifecycle` | `serve_listener` and the service manager | |
| `SecretStore` | `SecretStore` and its sweep task | |
| `Transport` | one call: `Client::call` and `serve_as` over a stream | |
| `Daemon` | the daemon: `Transport`'s calls in `Lifecycle`'s loop and tasks | EXTENDS `Transport`; `Lifecycle`, by composition and refinement |
| `Install` | `install` and `uninstall`, on Linux and on macOS | |
| `HeaderScan` | `read_header` | |
| `MC_*` | instances for TLC | the module they name |
| `*Proofs` | theorems | the module they name; `DaemonProofs` also `LifecycleProofs` |

### LockFile and Mutex

`path` is the inode the lock file's path names, `fd[p]` the inode process `p`
has open, `owner[i]` who has flock on inode `i`. Every system call of
`private.rs` is an action: `OpenLock` (`open_lock`), `Flock` and `WouldBlock`
(`File::lock`, `try_lock`), `Hold` and `Retry` (the two outcomes of `names`),
`DropPath` and `DropFile` (`Held::drop`, then the drop of its file). `Crash`
stands for a process death and for a failed call, which leave the same state.
An inode number may be reused as soon as no path and no open file refers to
it, which is the case `names` must survive. `maintenance.lock` is a
readers-writer lock.

`Mutex` has a holder and the set of processes that were told they hold.
`LockFile` implements it with `Holder`, the flock owner of the inode at the
path. `Cache` therefore treats a key's lock as one variable.

### Cache

An entry file is replaced by rename, so it is one value: its kind (well
formed, garbled, or with a value that no longer parses), schema, times, size
and modification time. An operation is cut where another process can see or
change something in between:

- a read takes the bytes and metadata of the open file (`Lookup`), judges them
  (`Miss`, `Hit`), and touches by path (`Touch`), with the time it judged at;
- a store creates its temporary file (`Store`), renames it (`Persist`), drops
  the `KeyLock` (`StoreUnlock`), and decides on maintenance (`Maintain`);
- a prune takes its two locks, lists the directory (`PruneBegin`), handles one
  name at a time (`ScanSkip`, `ScanTmp`, `ScanKeep`, `ScanEntry` and `Remove`),
  evicts (`EvictSkip`, `Evict` and `Remove`), and stamps `prune.lock`;
- `clear` lists and then removes one file at a time.

A file that appears during the listing of a prune may or may not be listed.
`StoreFails`, `PruneFails`, `ClearFails` and `CallFails` are I/O errors that a
call returns, and so is a header that cannot be read in `ScanEntry`, which
`live` takes for no header, so that a live entry goes. `Crash` is a process
death. `calm` and `evicted` are history variables: a
prune is calm while nobody took a key and nobody touched an entry since it
began.

Abstractions: `usage` is one step (it only decides whether to prune, and gives
a prune its first totals); a thread has at most one `KeyLock`; a digest is its
key, and namespaces are not told apart; files of other names in the directory
are left out, as are a temporary file whose name holds no digest and anything
that is not a regular file. The header scan of `live` is its result, which is
what `HeaderScan` checks. Lock
files that a prune removes on its way are `LockFile`'s matter.

### SingleFlight

One caller is one call after the other. The map's mutex is explicit (`guard`),
so that `run`'s critical section, the panic of the caller's `work()` inside
it, and `Landed::drop` on either thread can meet. `Drop` is a caller's future
going away where it can: at the await, once it was polled. `Shared` and
`tokio::spawn` are external: `Shared` polls one at a time and wakes everybody;
a spawn on a runtime that shuts down drops the task on the caller's thread
(`"landing"`).

### Lifecycle

The loop is `select!` with one action for each branch; the idle future reads
the open count at its first poll (`Arm`) and keeps it until the next turn. A
connection's task serves, counts itself out (`FetchSub`) and notifies
(`Notify`) in two steps. `Panic` is a handler that panics, after which neither
runs. The service manager keeps the socket's backlog and starts the next
daemon when somebody waits in it (`Activate`). A start that fails (no `/`, a
stdin that is no socket, no signal handler) is left out: it changes nothing, and
`QueuedIsTaken` is about managers whose daemons do start.

### SecretStore

Every operation reads the clock (`Call`) and later gets the lock; the closure
of `get` runs without the lock and may call `put`, `remove` and `clear`. The
sweep task upgrades its `Weak` and reads the clock (`SweepTick`), and later
locks and sweeps (`Sweep`), during which it may be the store's last owner.
`born` and `used` are history: the true times of the put and the latest use.
`harden`, and a `get` inside the closure of a `get`, are not modelled.

### Transport

A frame is a number of bytes with its newline last, so a state says how many
bytes of the request the client has written (`sent`) and the server has read
(`taken`), and `rsent` and `rtaken` the same of the response. `kind` is what
the server will make of the request: the handler's (`good`), one the transport
answers itself because of its version or its body, or closes on because it is
no envelope (`bad`), or one of another user (`alien`). `answer` is what the
handler or the transport replied: a value, an error, or a value of a type other
than the caller's (`other`), which `call` refuses as `InvalidFrame` (`Decoded`).
Ids are left out, because a connection carries one request.

The client's actions are the system calls of `call`: `Call` (encode, and the cap
on the request), `Connect` or `Unavailable`, `PeerMismatch`, `Write` or
`BrokenPipe`, `ShutdownWrite`, `Read` with `read_frame`'s two tests of the cap,
and `ReadEnd`. `Expire` is its one deadline passing, which it sees before its
next system call or in it (`TimedOut`). `SocketFails` is any of its system calls
failing by itself: a connect with EACCES, `peer_uid`, a timeout that cannot be
set, the half close. Its result is `local`, to tell it from the `io` of a peer
that closed; both are `ClientError::Io`. The server's are the awaits of
`serve_as`: `Deny`, `ServeRead` (which stops at the cap, as `take` does),
`ServeEof`, `ReadTimeout`, `Handle`, `ServeWrite`, `WriteFails`,
`WriteTimeout` and, for a system call of its own that fails, `ServeFails`. `Drop` is the task dropped at any of them. A timeout fires only
when what it wraps cannot go on, because tokio polls that first; the client
checks the clock first, so a response that is there may still come too late.
That a JSON object cut off before its end does not parse is taken from
`serde_json` (`Parses`).

The socket is external: it holds `Buffer` bytes each way, and a socket closed
with bytes it has not read gives its peer `ECONNRESET` where the end would be.

### Daemon

Every step of a connection is a step of `Transport`, of `Lifecycle`, or of both
at once: a close by the server is also the task's `Serve`, a cut is also a
`Drop`. `Lifecycle`'s `conn` is no variable here but a function of the server's
end (`spc`) and of how far the task is after it (`task`). `Exit` is the process
going: the kernel closes whatever it still has. Accept errors are left to
`Lifecycle`, where they start the same drain. `ImplementsLifecycle` says that
the composition is an instance of `Lifecycle`'s fair specification.

### Install

`Plan` is the order of the steps of both operations on both hosts, and each step
is an action that succeeds or fails (`Fail`, `FailClean`): a write that fails
may leave the file as it was or torn, `enable --now` may fail between its two
halves. `QueryFails` is a query that fails and that the code reads as "no":
`launchctl print` in `loaded`, before the bootout and in the wait after it, and
the stat of the unit before `disable`. The history variable `stray` marks a
service that such a query hid, until the manager has stopped it. `unit` and `service` are the files (the plist is a `unit`), `job`,
`enabled` and `loaded` what the service manager has, `sock` and `dir` the
socket's path and its directory. A file is the program it names. The length and
UTF-8 checks of `install` fail before any change and are no step. Operations on
different services overlap; two on one service do not.

The service manager is external. systemd keeps what it read at `daemon-reload`,
does not touch an active socket at `enable --now`, and may refuse to disable a
socket whose `.service` is missing. launchd's `bootout` returns early (`Unload`
comes later, or never), `bootstrap` fails while the old job is there and binds
the socket as root, and `Chown` comes later, or never.

### HeaderScan

`Fill` is one turn of `read_header`'s loop: a chunk of any length up to the
buffer's, and the search of the part that may hold a new key. `ReadFails` is the
open or a read that fails, also None. The file is a
sequence of bytes, and the key any sequence, `,"value":` in the code.

## Runs

| Run | Instance | Checks |
|---|---|---|
| `lock_file` | 3 processes, 4 inodes, 1 crash | `MutualExclusion`, `HeldIsNamed`, `NoStrayFile`, `SomeoneGetsIt`, `MutexSpec` |
| `single_flight` | 3 callers, 1 key, 2 flights | `OneFlightPerKey`, `ResultIsForgotten`, `NoSelfLock`, `LandsOnlyItself`, `Answered`, `AbandonedLands` |
| `lifecycle` | 3 clients, 2 signals or requests, 1 accept error, 1 panic | `IdleIsQuiet`, `ReturnsClean`, `DrainEnds`, `IdleExitsAtZero`, `QueuedIsTaken` |
| `lifecycle_panic` | 2 clients, 1 panic | `IdleExits` is **violated** |
| `daemon` | 1 client with call after call, 3 request and 2 response sizes around both caps, 1 signal or request, 1 panic | `CapIsExact`, `LossIsExplained`, `IdleNeverCuts`, `CallReturns`, `ConnectionEnds`, `ImplementsLifecycle` |
| `cache` | a writer that also prunes, reader, maintainer, 1 key, 1 tick, 1 fault | `WriterKeepsTmp`, `LocksAreOwned`, `RemovesWhatItJudged`, `SweepsAll`, `ClearEmpties`, `PruneReturns` |
| `cache_evict` | maintainer, reader, 3 keys, mixed entries | `ReachesTarget`, `EvictsOldest` |
| `header_scan` | all files to 8 bytes and all limits, chunks to 3, a key of 3 | `ScanIsExact` |
| `secret_store` | 2 threads, 1 key, 3 ticks, 2 pairs of lifetimes | `ServedInAge`, `CallsReturn`, `AgedIsSwept`, `DroppedIsZeroed` |
| `secret_store_idle` | as above | `IdleKept` is **violated** |
| `install` | 2 services, 2 programs, 1 failing step or query, both hosts | `InstalledServes`, `RemovedIsGone`, `DirIsRemoved`, `BootstrapMeetsNoJob`, `OperationEnds` |
| `install_query` | 1 service, 1 failing query | `UninstallStops` is **violated** |

The inductive invariants of the proved modules hold by proof, for every
instance, and no run repeats them.

**Bounds.** Three processes are a holder, a waiter that has the deleted file,
and a newcomer that creates the next one; one inode more than processes makes
every reuse possible and none necessary. Three callers on one key are one that
starts a flight, one that joins it, and one that comes when it lands and starts
the next; flights of different keys share only the mutex. Three clients are one
whose task counts itself out, one in its handler and one that waits in the
backlog. One connection at a time is enough for the transport, because
connections meet only in the loop, which `lifecycle` checks with three. Its
requests are at the server's cap, over it and at the client's, and over both;
its responses at the client's cap and over it. All but the smallest are longer
than the socket's buffer and than a read, so that a write may be partial and a
read may end at, before or after a newline or a cap. Shorter frames meet no test
that these do not, and are in the proof. One key carries every race between a
read, a store, a prune and `clear`, for which locks are per key; the eviction's
run has three keys, two sizes and three ages, so that each of the two targets is
met or missed on its own. `MaxTime` lets an entry pass its stale horizon, its
unused horizon (0 in `cache`), and the sweep interval. Two services are what it
takes to share a directory, two programs an upgrade. The key of the header scan
overlaps with itself, a chunk may be shorter than, as long as, or longer than
its overlap, and a file may hold two keys.
`MaxFaults`, `MaxCrashes`, `MaxSignals`, `MaxFailures` and
`MaxPanics` cap what is otherwise unbounded; one fault in each protocol step is
what the error paths handle. A clock is capped by `MaxTime`; `AgedIsSwept`
speaks only of times at which a sweep is still to come. Deadlock is checked
everywhere except in the secret store and the header scan, which really end:
the store is dropped and its task with it, and a scan returns.

**Fairness.** Only what schedulers grant: a thread or process inside a call
keeps running, tokio polls its tasks and fires its timers, and the service
manager starts a daemon when a connection waits. Nothing is assumed of
handlers, of closures given to `get`, or of a caller that has a `KeyLock`: each
may take for ever. In `SingleFlight` the work is assumed to end, because every
caller waits for it, and a thread that keeps asking for the map's mutex is
assumed to get it (strong fairness of `Land`): the mutex is held for a few
instructions. In `Lifecycle` the same holds of `Accept`: `select!` starts at a
random branch, so it does not pass over a waiting connection for ever. In
`Daemon` the server's tasks run and deadlines pass; a client's process may stop
at any byte, so `CallReturns` states in itself that it is about one that runs.
In `Install` only the operation's own process runs: launchd may never finish.
No fairness is asked of a failing call (`SocketFails`, `ServeFails`). What ends,
ends again and again: `CallReturns`, `ConnectionEnds` and `OperationEnds` say
that the end is reached infinitely often, from every state.

## Proofs

All theorems are checked by TLAPS for every value of the constants under the
named assumptions, which say only that `None` is not a process, key or value,
that bounds, limits, caps and buffers are natural numbers (positive where a read
or a frame needs a byte), that there are finitely many keys and calls, and that
the header scan's key is not empty. Every safety property of the passing runs,
invariant or action property, is a theorem.

- **LockFileProofs.** `IInv` says that open files, flock owners and program
  counters agree, and the two facts that carry the proof: a file whose holder
  has unlinked it is not at the path (`PathsMatch`), and only an open file has
  an owner (`FlocksMatch`). Mutual exclusion follows: two holders have the
  file at the path open and locked, so they are one. The refinement
  `Spec => MutexSpec` maps each step to an `Acquire`, an `Enter`, a `Release`
  or a stutter; the interesting one is `DropPath`, at which the abstract lock is
  released although the flock lock is not. `NoStray` is a second invariant on
  top of `IInv`: while nobody died, somebody has the file at the path open and
  is on its way to lock or to delete it.
- **SingleFlightProofs.** Mutual exclusion of flights is not inductive: it
  needs that the map and the flights before their `Landed` are the same set
  (`MapIsLive`, `LiveIsMapped`), that whoever has the mutex is in the critical
  section (`GuardMatches`), and what each caller knows of its flight
  (`JoinsMatch`).
- **LifecycleProofs.** `OpenCounts` bounds the count by the tasks that have
  not counted out and by the panics. With it, a count of zero at `Arm` means
  that no handler runs, and none starts without a new turn of the loop.
- **CacheProofs.** `LocksMatch` says who has which lock, `VictimMatches` that
  prune has the key of what it is about to remove and that the file is still
  the one it looked at, `ReadMatches` the same of a locked read, `TmpMatches`
  that a temporary file is its writer's. From them: a writer keeps its
  temporary file (`TmpKept`), and outside `clear` every removal takes the file
  that was judged (`RemovesJudged`). The converse of `LocksMatch`, that every
  lock has its owner's call or `KeyLock` behind it, is inductive on top of it
  (`LocksOwned`). The lemma `Exclusive` turns the locks into
  "nobody else has this key".

  The properties of a whole pass need invariants of its middle. For `clear`,
  `ClearLists`: whatever is in the directory is still on its list, because
  while it has maintenance.lock nobody writes (`NoKeyNoChange`). For an
  undisturbed prune, `CalmPass`: it alone has a key's lock, every file is yet to
  be looked at, about to go, or a candidate; a candidate is still what was
  sorted, live and used, and no older than what was evicted. `Clears`, `Sweeps`
  and `Evicts` read their results off at the end of the pass. `Reaches` adds
  `CalmCounts`, the running count is the usage. Its bytes are a fold over a
  set, which is shown, for every finite set and whatever the fold chooses
  first, to be the number of pairs of a key and a byte of its entry
  (`FoldCountsCells`, from a least set for which it would not be). Removing an
  entry then removes its pairs.
- **SecretStoreProofs.** A Held's `stored` is the time of its put, whatever
  reads came since, so no secret is served past its maximum age.

- **DaemonProofs.** `DInv` joins `TInv`, `Lifecycle`'s `IInv` and what ties
  them. `TInv` says where the bytes of both frames are (`RequestMatches`,
  `ResponseMatches`) and what one end knows of the other (`EndsMatch`): the
  server never answers a request that is still being written, and gives up an
  answer only when the client is gone. Without the latter `LossIsExplained` is
  not inductive: a response could be reset under a client that still reads. A
  failing system call of the client's own is outside `LossIsExplained`, which is
  about what a call reports of the other end; one of the server's own is one of
  the reasons it admits.
  `StepMaps` shows that every step of the composition is a step of `Lifecycle`
  or a stutter, so `Implements` and `Lifecycle`'s invariant come from
  `LifecycleProofs`, instantiated with the composition's `conn`, and are not
  proved again. `IdleNeverCuts` needs `DrainsMatch`: a drain that nobody asked
  for has nobody to cut, which is `IdleIsQuiet` at the moment it began.
- **InstallProofs.** `IInv` says what the steps behind an operation left, and
  that the operations on other services leave it alone. The proof works with
  the steps by their numbers (`NInv`, and `AtNumber`, `PastNumber` for the
  plans), one case for each step of each plan on each host. `EndsMatch` is
  needed because a `daemon-reload` for one service reads the units of all: it
  must find what each was installed with. What it says of the service manager
  excepts a service that a failed query hid (`stray`); its files are as the
  steps left them all the same.
- **HeaderScanProofs.** The search of a turn begins one byte short of a key
  before what was already read. `NothingMissed` is the invariant, and the
  lemmas say that a window which starts earlier was whole in an earlier turn.

Only model-checked: liveness and everything under fairness, which is beyond
the prover, and with it the fairness part of `ImplementsLifecycle` and the
zeroing of dropped secrets (`DroppedIsZeroed`).

## Findings

1. **A handler panic disables the idle exit** (`lifecycle_panic`). `serve.rs`
   decrements `open` and notifies after the inner `select!`; a panic unwinds
   past both, tokio catches it, and the daemon stays for ever although
   `idle_timeout` promises to exit "after this long with no open connection".
   A daemon whose count is right does exit (`IdleExitsAtZero`, run `lifecycle`).
2. **A delayed `get` shortens an idle lifetime** (`secret_store_idle`). `get`
   reads the clock before it has the lock and stores that time without
   comparing, so it moves `read` back over a later read or put, by as long as
   it was delayed. The maximum age is not affected, as `InAge` proves.
3. **A query that fails is taken for "not installed"** (`install_query`).
   `loaded` is false when `launchctl print` cannot run or fails for any reason,
   so `bootout` returns Ok without unloading, and `uninstall`, which "stops
   `service`", deletes its files and returns Ok with the job still loaded. On
   Linux a failed stat of the unit skips `disable --now` with the same end, and
   a later install then passes over the unit that is still active, whose socket
   is gone. With its queries answered, an uninstall that returns Ok has stopped
   the service (`RemovedIsGone`, run `install`).

### Observations

Not findings, but worth knowing:

- An unlocked read records its use by path and with the time it judged at, so a
  slow one may date a younger file back, or touch an entry between prune's last
  check and its removal. The properties of eviction are therefore stated of a
  prune that nobody disturbs.
- `openspec/specs/cache/spec.md` orders the removals of a prune, expired
  entries first. The code removes both expired and unused entries in one pass
  in the order of the directory. A pass that ends has removed both
  (`SweepsAll`); only a pass that fails or dies shows the difference.
- `openspec/specs/cache/spec.md` also says that prune shall not remove an entry
  of a newer schema before its stale horizon. Prune does not compare schemas: it
  removes such an entry when it is unused or over the target, like any other.
- A header that cannot be read is no header to `live`, so one failing read makes
  prune remove a live entry and count it as expired. A cache loses no more than
  a fetch by it.
- A server that closes with part of the request unread (an oversized frame,
  another user's connection) resets the connection, so that the client reports
  `Io` and not `Closed`. It is still a failure, and of a call the server
  refused (`LossIsExplained`).
- A request that lacks only its newline is handled when the client closes,
  because the line codec gives out the rest at the end (`ServeEof`).
- `call` returns `Io` when its half close fails, before it reads. On a kernel
  whose `shutdown` fails once the peer has closed, a response written and closed
  on before that would be lost; in the model this is a `local` failure.
- An install that failed between the two files leaves a `.socket` without its
  `.service`. `disable` may refuse it, and then `uninstall` fails until an
  install has succeeded. Two operations on one service at once are not guarded
  against, in the code or here.

## Not modelled

- Two operations of `install.rs` on one service at once, and the service
  manager beyond what its answers and the socket show of it.
- A daemon that fails before its loop (`serve.rs` up to the first `select!`).
- Opening a cache (`Cache::open`, `ensure_root`): it is the initial state.
- The length-prefixed encoding of keys, whose guarantee is the hash's, and the
  table of `serves_stale`, which is a comparison or two per case.
- `harden`, peer credentials, modes, owners and symbolic links: one system
  call each, against other users, with no protocol to interleave.
- Error and `Debug` texts, serialization, the text of unit files.
- Digests are taken as injective; file systems as POSIX says they are.

## Plan

In order, the most important behaviour first:

1. *Done:* `LockFile` and `Mutex`, `Cache`, `SingleFlight`, `Lifecycle`,
   `SecretStore`, and their proofs.
2. *Done:* `Transport`, and its composition with `Lifecycle` in `Daemon`, which
   implements `Lifecycle`; `Install`; `HeaderScan`.
3. *Done:* proofs of every safety property of the passing runs, and of the
   safety part of `Daemon`'s refinement of `Lifecycle`.
4. An abstract specification of the cache ("a lookup returns what some store
   of its key put there, and not after its stale horizon") and its refinement
   by `Cache`; two keys per thread and the lock order.
