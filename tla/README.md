# Formal models of homelab-mcp-server

TLA+ modules for the parts of the server that keep state or run concurrently,
model-checked with TLC on small instances and, where it matters most, proved
with TLAPS for every value of the constants.  `PROJECT.json` is the machine-readable
index: components, runs, mutants, the map from definitions to source lines,
findings, hazards and theorems.

Paths below are relative to the repository root (`src/ssh/ssh2Client.ts` is
that file of the repository).

## 1. The system

The server is one Node process.  An MCP client calls tools; a tool handler
checks its guardrails, talks to a Proxmox node over one shared SSH connection,
writes backups and audit records on the server's own disk, and answers.  Several
calls can be in flight: a handler runs without interruption between two
`await`s, and any other handler, timer or socket event can run at an `await`.
The node's files, containers and VMs also change without the server.

| Component | State it keeps | Operations | Interacts with |
|---|---|---|---|
| Backup store (`backup/store.ts`, `policy.ts`, `eviction.ts`) | one directory per target with `<stamp>.gz` blobs and `<stamp>.meta` sidecars | `storeBackup` (evict, blob, sidecar), `restore`, `listBackupsForPath`, `latestBaseHash`, `buildExistingHashMap`, `checkDiskPressure` | called by the write tools, `revert_file`, `list_backups`, `diff_config` |
| Write pipeline (`tools/writeFile.ts` and its edit, pct, qm, docker siblings) | the call in flight | read current, choose backup, store it, write remotely, record | store, transport, audit, config history |
| Revert (`tools/revertFile.ts`) | the call in flight | resolve version, breaker, read current, restore, re-snapshot, write back, record | store, breaker, transport, audit |
| Rollback breaker (`guardrails/rollbackBreaker.ts`) | attempts per target in a window | `check`, `peek` | `revert_file`, `snapshot_rollback`, `guest_backup_restore`, `compose_update` |
| SSH transport (`ssh/ssh2Client.ts`) | client, SFTP handle, connect promise, timers | `exec`, `stat`, `readFile`, `writeFile`, `list`, `close`, the events of ssh2 | every tool |
| Audit (`audit/*`) | JSONL log, derived SQLite index | `append`, projection, backfill, rescrub, `query_audit` | every tool that changes something; the integrity forest reads it |
| Compose update (`tools/composeUpdate.ts`, `dockerUpdate.ts`) | image tags and containers on the guest | pull, hold, recreate, health gate, re-tag rollback | breaker, transport, audit |
| Snapshots, guest backups (`tools/snapshotTools.ts`, `backupTools.ts`) | snapshots and archives on the node | create with prune, rollback with stop and restart, backup, restore | breaker, transport or API, audit |
| Config history (`history/*`, `tools/configSweep.ts`) | a git mirror with manifests | `recordMutation`, sweep, push | write tools, transport |
| Files in guests (`tools/pctFiles.ts`, `qmFiles.ts`, `dockerFiles.ts` and their tools) | the call, a temporary file on the node and one in the container | read, write, edit, dry runs | write pipeline, transport |
| Advisors (`tools/composePreflight*.ts`, `imageUpdates.ts`, `dockerUpdate.ts`) | none beyond the call | read several things, one verdict | transport |
| Integrity forest (`integrity/*`) | baseline and working Merkle trees per level | compute, verify, accept, auto-accept | transport, audit |
| Node access (`node/*`, `trust/*`) | API token, pinned certificate | start and poll a task | lifecycle and backup tools |
| Guardrails (`guardrails/*`) | configuration | path, denylist, redaction verdicts | every tool |
| Census, health, metrics, Docker introspection, UI, registry, configuration | caches of the last census; static tables | read and format | transport |

What is hard, and what must hold (section 6 says where the code does not):

* **Store.** Blob and sidecar are two files; eviction runs before every store
  and knows nothing of pairs or chains; a delta applies to one content only;
  deduplication crosses targets.  A sidecar must describe its blob, a revert
  must write what its own file once held, the store must stay bounded.
* **Pipeline and revert.** Three to five awaits per call, each a place where
  another call, an edit by someone else, a failure or a crash comes in between.
  What a revert writes must be a content the same file once had; the last change
  must be undoable; nothing may change without a record.
* **Breaker.** Counting happens before the effect for some callers and after
  it for others; the window forgets.  Rollback loops must be cut, and a target
  left alone must be forgiven.
* **Transport.** Stale events of replaced connections, timers that outlive
  their commands, retries shared by several callers.  One attempt at a time, no
  dead handle, nobody waiting for ever.
* **Compose update.** The image to roll back to hangs on one tag through a
  recreation and two health gates, minutes long; the tag of a ref is shared by all
  services that use it; other updates, a redeploy, an edit of the compose file or
  an operator come in between.  The rollback image must stay held, the reported
  outcome must be what runs, and a call that changes nothing must leave the hold
  of the last real update alone.
* **Integrity forest.** Three levels of hashed trees, each read over several
  awaits while files change and containers stop; the baseline is edited leaf by
  leaf and its directories are refolded from stored hashes.  What was accepted
  must be clean, and what was not must be reported until somebody accepts it.
* **Guests.** A task may outlive the handler that started it, an answer may get
  lost after its effect, retention is planned on a listing that goes stale.
  Retention must leave a newer point, "ok" must mean done, every call must end.
* **Config history.** A commit is three git runs, a sweep is a dozen awaits, and
  both write the mirror and the manifest.  A commit must cover what it claims,
  a sweep must repair whatever it finds.
* **Files in guests.** One read or write is up to eleven commands through two
  temporary files.  It must be one read and one write all the same, keep the
  permissions and leave no temporary file.
* **Audit index.** Several processes share the log and the index, any of them
  dies anywhere, and the index is backfilled only when it is empty.  It must be
  a faithful view of the log, and queries must not depend on who answers.
* **Advisors.** `compose_preflight` and `image_updates` put one answer together
  from readings of different moments.  What they say must be true of a moment of
  the call, and one failed reading must not spoil the others.

## 2. Modules

| Module | Models | Checked by | Proofs |
|---|---|---|---|
| `BackupStore` | the disk and every operation of the store, constant-level | through `WritePipeline` | `WritePipeline_proofs`, first part |
| `WritePipeline` | write tools and `revert_file` over store, remote files, audit | `MCWritePipeline`, two configurations | `WritePipeline_proofs` |
| `RollbackBreaker` | the breaker and its callers | `MCAdvisors` | `GuestOps_proofs`, first part |
| `SshTransport` | the shared connection | itself, two configurations | `SshTransport_proofs` |
| `ComposeUpdate` | `compose_update` over tags and containers of one Docker daemon | `MCComposeUpdate` | `ComposeUpdate_proofs` |
| `IntegrityForest` | compute, verify, accept, auto-accept over both stores | `MCIntegrityForest`, two configurations | `Reports_proofs`, second part |
| `GuestOps` | snapshots, guest backups and lifecycle of one guest over `NodeOps` | `MCGuestOps` | `GuestOps_proofs`, second part |
| `ConfigHistory` | `recordMutation`, `config_sweep` and the git repository | `MCConfigHistory` | `ConfigHistory_proofs` |
| `FileChannel` | abstract: what a file tool promises of one file | as a property of `GuestFiles` | |
| `GuestFiles` | the commands of the pct, docker and qm file tools | `MCGuestFiles` | `GuestFiles_proofs` |
| `AuditIndex` | log and index shared by servers, sidecar, rescrub | `MCAuditIndex` | `AuditIndex_proofs` |
| `ComposePreflight`, `ImageUpdates` | the two advisors | `MCAdvisors`, which puts them and the breaker into one run | `Reports_proofs`, first part |

How they fit together: the file tools of `GuestFiles` implement `FileChannel`, and
the remote reads and writes of `WritePipeline` are steps of `FileChannel`;
`WritePipeline` includes `BackupStore`, its appends are those of `AuditIndex`, and
the verdict it asks before a revert is `RollbackBreaker`'s, as it is for the
restores of `GuestOps` and for `ComposeUpdate`.  Every command of all of them is one
`exec` of `SshTransport`, which says that it ends.

### BackupStore

`disk` is a record `[gz, meta]` of two functions over `Files == Targets \X
Stamps`.  A content is an abstract value and its own sha256.  A blob is either
raw bytes or a reverse diff, which yields its data over one base and throws over
any other.  `Utf8` says what survives the utf8 string round trip of the line diff;
`Binary`, `Large` and `Long` are the three classes of content the policy tells
apart.  `KeyRank` is the `readdirSync` order of the directories, which the dedup
map and eviction depend on.

Eviction is stated without its loops: an entry goes when the entries behind it
in the sorted order already fill the cap.  `Precedes` is the code's order: the
stamp in a file name has `-` in place of `:` and `.`, `new Date` does not read
that as written, and `StampGranularity` is the coarseness that is left; entries
that compare equal keep the directory order.

### WritePipeline

| Action | Code |
|---|---|
| `WriteBegin` | the handler up to the remote read |
| `RevertLatest`, `RevertAt` | `revertFileHandler` up to the remote read, with the breaker's verdict |
| `RemoteRead`, `RemoteReadFails` | `readHostPrev`, `pullContainerFile` and siblings |
| `WritePlan` | `latestBaseHash` to `selectBackupKind`; dry run and marker refusal end here |
| `WriteStore` | `storeBackup`, up to the await of the remote write |
| `RevertRestore`, `RevertSnapshot` | `restore`; the best-effort re-snapshot |
| `RemoteWrite`, `RemoteWriteFails` | the effect at the remote end, or the error, which may follow the effect |
| `AuditAppend` | record and `audit.append`, also in revert's catch block |
| `Crash`, `CrashInStore` | the process dies, the second between blob and sidecar |
| `OutOfBandEdit` | someone else changes the remote file |

`live` is the remote side, `owed` and `held` are history variables: the calls
that must leave an audit record (a write once it took effect, a revert once it asked
the breaker), and the contents each file has had or was given.

### RollbackBreaker

`history` is the map of the class; `updating` is a `compose_update` between its
`peek` and its end.  `asked`, `admitted` and `rolled` are history variables.  Time
is a counter, `Restart` empties the map.

### SshTransport

One action is one event of the loop.  `client`, `sftp` and `dial` are the three
fields of the class (`dial` is `connectingPromise`).  A connection goes through
`dialing`, `open`, `half` (peer has closed, close event to come), `wedged` and
`failed`, or becomes `lost` when it closes while it is dialed (`DialLost`), which settles
nothing: `dial` then stays as it is; `ended` holds those on which `end()` was called.  `stray` counts the
timers of commands that threw after arming them.

### ComposeUpdate

The guest is three functions: `tags` (local tag to image, the refs and the hold
tags `<repo>:mcp-hold-<service>` together), `container` (service to the ref it was
created from and the image it runs) and `fileRef` (what the compose file names
now).  `Services` are those of all compose projects of the daemon and `NameOf` is what
their files call them: a hold tag has the name and not the project, so two services may
share one (`HoldTagFor`).  `UpPulls` are the services whose `pull_policy` lets `up` pull.
`registry` is what a pull would bring.  `call` holds what the handler
carries across its awaits.  `met` is a history variable: the service
names and refs that somebody else touched while a call ran.

| Action | Code |
|---|---|
| `Begin`, `Config`, `Refuse` | scan, `docker compose config`, the preconditions |
| `Pull`, `PullFails`, `Resolve` | pull; inspect of the ref, with the early return "already-current" |
| `HoldOld`, `HoldFails`, `RestoreRef`, `RestoreRefFails` | `docker tag` of the old image, or the ref put back and a throw |
| `Recreate`, `RecreateFails`, `GatePasses`, `GateFails` | `up -d --no-deps`, which may pull first (`UpPull`) and fail halfway (`UpPartly`); the health gate and the probe |
| `Retag`, `RetagFails`, `Redo`, `RedoFails`, `RegatePasses`, `RegateFails` | the rollback |
| `Throws` | `transport.exec` throws at any stage, before or after its effect |
| `Publish`, `EditFile`, `Redeploy`, `DropHold` | registry, compose file, `compose_redeploy` of one or several services, an operator |

How the breaker decides is `RollbackBreaker`'s subject; here a call only
remembers whether its attempt was `counted`.

### IntegrityForest

A fold is injective, so a node's hash is the set of `<<leaf, payload>>` pairs it
commits to, and drift is inequality of sets.  `baseline` and `working` map a level
to a tree (node to hash); a directory keeps the hash it was given, whatever its
stored children say, as the SQLite store does.  `AssembleForest` puts the subtrees of
the sources together (`Subtree`) and folds what is above them (`FoldForestRoots`).
`settled`, `grafted` and the `alone` and `stale` of a call are history variables: which
forest was accepted whole, which levels hold hashes that are not those of their leaves,
whether anything met the call, and whether the tree it read froze a grafted subtree.
The `chosen` of a call is one too: the plan of an auto-accept as it was before its first
fold.  `Above` is a constant, all directories above a node; `TreeAssumption` makes it the
closure of `Parent` on a tree, where every set of paths has one that is above none of the
others, and TLC evaluates it on the instance.

| Action | Code |
|---|---|
| `ComputeTree`, `Verify`, `AcceptTruth` | the three tools, `Verify` with and without autoAccept |
| `Read`, `Throw` | one source (host or container) of `assembleForest`, or the transport's error |
| `LandBaseline`, `LandPromote` | `computeTree` into the baseline; `promote` of a scope |
| `LandDiff` | `computeAndDiff` of one level, then the report of `verify` |
| `LandRefold`, `Fold`, `FoldsDone` | the tree recomputed by `autoAccept`, its folds one by one, its end |
| `OutOfBand`, `ServerWrite`, `GuestTurns` | edits by hand, edits with an audit record, containers that stop and start |

### GuestOps

`backend` is the `NodeOps` in use: over SSH a command ends with its answer, over
the API a task is queued (`tasks`, `vzdump`) and the node runs it later, or never, and may
fail where no handler looks: the deletions of `guest_backup` are such tasks (`Deleting`).  A
point (snapshot or archive) has a creation order `at` and the second in its `name`,
which two points may share.  `alone`, `clean` and `dropped` are history variables.

`SnapshotCreate`, `SnapshotTaken`, `SnapshotEvicted`, `SnapshotDeleted`,
`GuestBackup`, `ArchiveEvicted`, `CreateBackup`, `TaskStopped`, `TaskDeadline`,
`Relist`, `StopGuest`, `Restore`, `StartGuest`, `RebootGuest` and
`WaitForGuestRunning` are the awaits of the handlers, each with the outcomes of a
command: done, refused, or done with its answer lost.  `NodeVzdump` and `NodeRuns`
are the node, `GuestTurns` the guest itself and its owner.

### ConfigHistory

`mirror` and `manifest` are the working tree, `index`, `head` and `remote` the three
trees of git.  A mutation is `MirrorMutation`, `Stat`; a sweep is `Enumerate`,
`HashAndDiff`, `Fetch` and `Land` per file, `Finish` or `StatBatch`; both end with `Add`, `Diff`,
`Commit` and, for a mutation, `Push`.  Each is one await; a `Restart` keeps the files and
drops the calls.

### FileChannel and GuestFiles

`GuestFiles` has one action per command (`AssertContainerRunning`, `Probe`,
`MakeNodeTemp`, `Pull`, `SftpRead`, `DockerCpOut`, `Push`, `DockerCpIn`, `RestorePerm`,
`AgentRead`, `AgentWrite`, the two removals), with the two `finally` blocks as the
operators `Unwinds`, `AfterLeg` and `Outer`.  A command is done, exits non-zero, or
throws before or after its effect.  The refinement mapping gives the moment a
call sees the file (`sample`) and the moment it replaces it (`wrote`); `touched` says that
another call or somebody else has changed the file since (`Overtakes`).

### AuditIndex

A record is its columns (`Fields`).  Of its text it keeps what tells the two searches
apart: the searches whose letters its cmd, path or note contains (`contains`), the words of
those columns that redaction leaves and takes out (`words`, `secrets`) and the words of its
diff.  `Tokens` is `buildFtsMatch`, a search's words in one case; `RowWords` is what the
full text index holds of a row.  The rescrub is `RescrubScan`, the scan of the command that
decides whether there is anything to do, `RescrubPlan`, the scan of the run that applies,
and `RescrubApply`, its transaction over the rows that scan found.  A process goes from
`down` through `opening` (a log read for a backfill) to `up`, and through `written`
between its line and its row.  `FilterAuditRecords` and `QueryRecords` are the two
answers of `query_audit`.

### ComposePreflight and ImageUpdates

Each is one call, its readings one action each, and the actors that change what
was read: containers recreated, stopped and joined by a stranger; images
published, pulled, put to use and pruned, and Diun's own scans.  `MCAdvisors` runs
both and the breaker, never two at once: they share nothing, and `AdvisorsSpec` implies
`PreflightSpec`, `UpdatesSpec` and the breaker's `Spec`.  `was` is a history variable: the images a container ran during the
call, each with whether the registry's tag led to it (`Standing`).

A service's `net` is its `network_mode`: none, `host`, `service:<x>`, or `container:<x>` of a
container outside or, by its `container_name` (`ContainerNames`, `ServiceOf`), of the stack.
`Owns` and `Key` are what `composePreflight.ts` makes of it, `Joins` is the namespace docker
gives the service.

## 3. Runs

| Run | Instance | Shows |
|---|---|---|
| `pipeline_seq` | one client, targets `h` and `g`, three contents of which one is large and long, 3 calls, 1 edit, per-file cap 3, read errors | the last write or revert of a file can be undone; drift is captured |
| `pipeline_conc` | two clients, two targets of one path, a text, a binary content and its utf8 mangling, cap 2 files and 5 bytes, write and snapshot failures, crashes | sidecars are truthful, reverts write their own history, the store is bounded, every revert leaves a record |
| `ssh` | two callers, three calls, two connect attempts, four connections, two faults, among them a close while dialing | single flight, live handles, no orphaned waiter, every call ends but one that waits for an attempt nothing can settle |
| `compose` | three services, two of them of one name and two with a `pull_policy`, two refs of two repositories, two images, two updates in flight, 2 calls, 2 faults or acts of others | the rollback image stays held, outcomes are true, no-ops keep the hold |
| `integrity` | a host and a container with one file each, one of them sensitive, below one directory; contents and times of two values, 2 calls at a time and in all, 1 event | accepted means clean; drift is reported; what an auto-accept neither folds nor covers with a fold stays reported |
| `guest` | SSH and API, caps of 1, two calls, two seconds, one failure, which may be that of a queued deletion | retention leaves a newer point, ok is real, the cap is restored, calls return |
| `history` | two files, two contents, two calls, one event | commits cover the mirror, sweeps converge, manifest entries stay |
| `files` | one call on each of four routes, two contents, three events | no temporary file stays, permissions stay, `FileChannel` is implemented |
| `audit` | two servers and the sidecar, four records of which two are history, five events, filters on every field, searches for a word, a part of one, one in other case, one that redaction takes out and none | the index is a faithful and stable view of the log |
| `advisors` | three services with and without a `container_name`, one port, two changes; four containers on two tags, three digests of two contents, three changes; a breaker with limit 2, window 2, clock to 6, 5 attempts and two updates | what the advisors say was true of a moment of the call; fewer than `limit` rollbacks are admitted per window, the overshoot of concurrent updates, forgiveness |
| `backstop_drops_other` | two callers | a disagreement of code and comment, section 6 |
| `declined_unseen` | the forest of `integrity`, one call at a time, no budget for unexplained content | a disagreement of code and ADR, section 6 |

Why the bounds are enough.  An undo needs a write, a change and a revert: three
calls, with one edit for drift.  Two clients with three calls give every pair
of stages in flight together and a third call that finds what they left.  A cap of
two files (one version) and a size cap of five (less than two versions of three)
make eviction split and remove versions at every store.  In the breaker the
window is a third of the clock, so attempts leave it, and five attempts are more
than twice the limit.  In the transport two attempts make the first failure
retry and the second give up, and four connections allow a dialing, a current
and two replaced ones at once.  In the compose update two calls overlap or the second
finds what the first left, on one service, on two that share a ref, or on two of one name
that share a hold; two faults allow a publication, without which there is nothing to update,
and a disturbance.  Runs stop at their bounds, so
`CHECK_DEADLOCK` is off: a state with no call left is the normal end.

In the integrity run one event is enough: a call in flight with another sees one
change before, between or after any of its reads.  In `guest` a cap of one makes
every create evict, two seconds allow equal and different names, and one
failure falls at every await.  In `files` a third event lets a cleanup fail after a
failure during an edit; `MaxEvents` there counts the guest's stops as well.  One
call is enough for TLC: that calls which interleave disturb each other in no other way
than `Overtakes` says is proved (section 4).  In
`audit` five events allow a restart without index, a kill, a failed projection and
a rescrub in one behaviour.  `advisors` has one port, since no check compares
two; a proposal changes one service, since each hazard is about one service and its
provider; and ports are probed for proposals that keep the namespaces (`KeepsNets`).  The running
stack has at most one service that uses `host` or a container name (`OddNets`), so a
proposal has at most two, the fewest that can share a namespace unseen.

`Symmetry` is used over clients and updates, in `ComposeUpdate` also over refs
and images, in the other runs over what no constant tells apart, and in no run
that checks liveness.  `audit` alone checks deadlock: its processes go on for ever.

Each property has a mutant in `PROJECT.json`: a definition of the model replaced
by the version a plausible bug would give, under which TLC finds the property
violated.

### Fairness

Two properties are about progress. `CallsReturn` of `GuestOps` takes weak fairness of
each handler's next step and nothing of the node: every command is bounded by the
backstop of `SshTransport`, and each loop by a deadline (`TaskDeadline`,
`WaitForGuestRunning`), which is what the property is about; a vzdump may stay "running"
for ever. The other is `EveryCallEnds` of `SshTransport`. `Fairness` is what the code
and ssh2 provide: timers fire (backstop, backoff sleep); a handshake ends by ssh2's
`readyTimeout` or by a close that the code does not act on (`DialLost`); a dead or
wedged connection is closed by ssh2's keepalive (`keepaliveInterval` is always
configured); a live connection answers SFTP requests. Answers to commands are not
assumed, the backstop exists for them. The other specifications make no progress claim
and have no fairness.

## 4. Proofs

All theorems have the shape `Spec => []P` or, for action properties, `Spec =>
[][A]_vars`, from an inductive invariant `IInv` that TLC also checked on the
instances above; those about calls one after the other assume `Sequential` besides.  Where two specifications share a module of proofs the names of one
say so: `OpsSpec` and `OpsIInv` are those of `GuestOps`.

* **WritePipeline.** `IInv` is `TypeOK` with `FutureIsEmpty` (nothing is stored
  under a stamp not given yet), `SidecarsMatch` (a sidecar next to its blob has its base), `BlobsAreOwn` (a blob holds a content
  its own target has held), `LiveIsHeld`, and `CallsAreSound` (what a call carries
  across its awaits belongs to its target).  `RevertWritesOwnHistory` alone is not
  inductive: the restored content comes from a blob that another call, perhaps
  crashed since, put there.  From `IInv` follow `SidecarTruth` and
  `RevertsOwnHistory`.
  The first part of the module has the lemmas about the store: eviction only removes,
  a store writes exactly one version, `restore` yields the blob's data, the newest
  version exists when any does.  `StoreBounded` rests on the order of eviction:
  `Precedes` is transitive and irreflexive, so what is kept has a first entry, and the
  entries from there on are what the cap was tested on (`KeptIsBounded`); only
  `storeBackup` adds a version, so that one is all a cap can be exceeded by
  (`StoreStaysBounded`).  `RevertsAudited` needs `RevertsAreTracked`: a revert that
  owes a record is in flight until it has left it.

  The last part is about calls one after the other.  Its theorems assume `Sequential`:
  at most one call in flight, no failure but of a read, a per-file cap of at least
  2 (the blob and the sidecar of one version; the code's default is 10) and a size cap that
  the versions the clock can give do not reach.  `pipeline_seq` is such an instance,
  and without any of these the properties are false: another call's version comes on
  top, a write that threw is a change without a record, the newest version is evicted.
  `InSequence` says that what the last change of a file stored is still there, and is the
  newest version of the file until the next call stores its own (`LastChangeIsKept`),
  across evictions that dedup and other files' writes cause: entries that `Precedes` does
  not put before the newest version are that version's own (`NewestIsKept`), whatever
  `Date` makes of the stamps.  So `revert_file` by path finds it (`LastWriteUndone`,
  `LastRevertUndone`), and `latestBaseHash` reads its sidecar when the next write
  plans, which then re-anchors a drift (`DriftReanchors`, `DriftCaptured`).
  The proof corrected `DriftIsCaptured`, which compared with what the previous change had
  left in the file: after a revert the newest sidecar is that of the content it
  overwrote, or there is none (section 6).
* **RollbackBreaker.** `IInv` adds that what is in the window survives pruning
  (`Remembered`) and that every update past its gate is budgeted before it rolls
  back (`OvershootBudget`): the bound on concurrent updates is inductive only when
  those in flight are counted with those recorded.
* **GuestOps.** The listing that retention is planned on is from an earlier moment, so
  `OpsIInv` says what of it still holds.  For every call (`CallFits`): a snapshot it is
  about to evict is the server's and older than one that there is, whichever of two
  creates evicts first, for neither evicts its newest; and points have orders of their own,
  below the next stamp (`PointsDiffer`).  For a call that nobody met (`AloneFits`):
  it has the node for itself (`NodeIsOwn`), so what it listed and what it did is
  still so.  `RetentionStaysSafe` follows from the first part, `CapsAreRestored` and
  `SuccessesAreReal` from the second.  The cap is the bound on what a plan keeps:
  of the elements of a finite set numbered without repetition, at most n have fewer
  than n above them (`FewOnTop`), whatever earlier creates left behind.  Over the API a
  task that is still queued while a rollback is alone can only be the start that the
  rollback itself waits for (`RestoreFits`), so no late task undoes what it reports.
  Archives leave when their deletion runs: a newer one that is not itself to be deleted
  stays (`DeletionsFit`), and the cap holds of those that no task is about to delete.
  Neither says anything of a backup whose queued deletion failed, of which the code never
  learns.
* **SshTransport.** `IInv` adds `DialIsSound`, `EndedAreAlive` and `CallsAreLive`:
  an attempt owns its connection, and a call past the connect runs on a
  connection whose close has not fired, which is why a late SFTP callback cannot
  cache a dead handle.
* **ComposeUpdate.** `IInv` follows the call stage by stage: `RunningIsKnown` and
  `RefIsKnown` say what runs and what the ref names as long as nobody disturbed
  the call, `HoldIsUntouched` and `RollbackImageIsHeld` say the same of the hold
  before and after it moves.  None of them is inductive without `OverlapIsMet`:
  two calls in flight know of each other, so when another call moves a tag,
  either the tag is not this call's or this call counts as disturbed: an update of a
  service of the same name, in whatever project, touches the shared hold.
  `OutcomesAreTrue` and `NoopsKeepTheHold` prove action properties from it.
* **AuditIndex.** `IInv` is `TypeOK` with `BackfillIsWhole` and `ServersAreWhole`:
  `Gap` is the set of records that the index lacks and nobody knows of, it is empty
  for every server that has the index open, and within the copy of the log that a
  starting server is about to insert.  `BackfillIsWhole` alone is not inductive: the
  first row may come from a server that opened the index long before, when it was
  empty because the log was.  Every step keeps track of the records on their way
  (`KeepsTrack`), so no step opens a gap (`NoNewGap`).  `Backfilled` follows from it;
  `RowsStable` and `Agreement` need only the typed part.  `Agreement` is where SQL's
  NULL meets an absent field, for every filter without a text and every record; of a search
  it says one direction, for whole words that redaction leaves, since more is not so.

* **GuestFiles.** `IInv` says stage by stage where a call that its failures let through can be
  (`StageFits`), where it has no temporary file (`TempsFit`), that the one sample is what
  travels in (`ReadFits`), that the new content travels out and lands once (`WriteFits`), and
  what a call that nobody overtook knows of the file (`PermsFit`).  `NoTempLeft` and
  `PermsAreKept` follow.  `Refinement` proves `FileChannel!Spec` step by step: every command is
  one step of the channel or none of it, for its own call, and at most an overtaking for the
  others (`Moves`, `Keeps`); one lemma per action, and one that puts the calls together.

* **ConfigHistory.** A commit is three git runs, and other calls change mirror, manifest and
  index between any two of them.  `IInv` says that calls in flight know of each other
  (`CompanyIsKnown`), that a staged tree goes on to cover the mirror except where it changed
  since (`StagedFits`), that an entry stays until a sweep comes (`EntryFits`), and how far a
  sweep that is alone has got, stage by stage (`SweepFits`).  `CommitCoversMirror` alone is not inductive:
  between `Add` and `Commit` the index may be staged anew by another call, which
  only makes it cover more.  `CommitsCover`, `SweepsConverge` and `EntriesStay` are action
  properties that follow from it.

* **Advisors.** A call reads at several moments, so each invariant says what of a
  reading survives until the next.  In `UpdatesIInv` a container that was not
  created anew since the scan still runs the image found (`ScannedFits`), which
  cannot be pruned then; and one whose tag never led elsewhere during the call
  has a single digest, which is the registry's (`InspectedFits`, `ComparedFits`).
  `VerdictsWereTrue` was first stated without `Recreated`, and the proof attempt
  refuted it: an image replaced after the scan may be pulled again by another digest,
  which the inspection then finds under its content.  That takes five changes and the
  run has three, so only the theorem covers it.  In `PreflightIInv` ids only grow
  (`StrangerIsPast`): a stranger that the scan saw in an older namespace of the
  provider cannot be in the one that is probed (`ScanFits`), so "all own" stays
  true until a stranger comes.  `OwnInstanceNoConflict` and `StrangersAreReported`
  follow, both of stacks with a provider that the scan found.  `CollisionsReported` compares the groups of the code, one step of
  `network_mode` deep, with the namespaces that a whole chain leads to: `Led` is the
  least set closed under that step, so it needs no recursion.  That no collision is reported
  wrongly holds of every edit; that one is reported is claimed of services that join by
  `service:<x>` or one `container:<x>` and of files without chains (`Unfollowed`).

* **IntegrityForest.** A theorem about trees needs an induction over the paths, and
  `TreeAssumption` gives it as set induction: a set of nodes that holds the super-root
  and every child of its members holds all nodes (`TreeInduction`).  A tree is
  `WellFolded` when the hash of a directory holds the pair of a leaf just if the leaf
  is in the tree, below it, with that pair.  What the sources return is well folded
  (`SubtreeFacts`, `FrozenFacts`, `RootsAreFolded`), and a fold of a leaf whose
  directories are all there keeps it so (`FoldKeepsFolded`); `TreesFit` says that every
  level outside `grafted` is well folded, and so is every tree in flight that is not
  `stale`.  `DriftReported` then descends along the path of a leaf that differs
  (`DiffNames`): each directory that both trees have differs too, so the walk gets
  to the leaf or stops at an entry above it.  `AcceptedClean` rests on `ForestIsStable`,
  that the forest computed over its own result is that result, whichever containers
  have stopped since; `AcceptsFit` says so of the levels an undisturbed accept has done.

  These proofs corrected the model and the property.  `DriftIsReported` left out l2,
  where it took a well-folded tree for one of all files; it covers it now.  It was
  false of a fold below a directory that the baseline lacks, where `refoldPathToRoot`
  stops, and of a `compute_tree` into the baseline while a container with a grafted
  subtree is stopped: both need more calls than the run has.  They count as grafts.
  The types of this module are only proved: TLC cannot enumerate `Trees`.

  `FlaggedReported` follows what an auto-accept did not choose through every fold of its
  plan.  `FlagsFit` says how far an undisturbed one has come: the trees it will fold from
  are those of the node (`working` equals `Fresh`), the drift of its report is still there
  (`Named`), and once it folds, what is not at or below a chosen node is (`Flagged`).  A
  fold must then keep two things.  It keeps the entries away from the folded node
  (`FoldKeepsEntries`): the refold gives a directory on the path the hash of its children,
  and this still lacks or still has the pairs in which the drift differs, so the walk comes
  through where it came through before.  And it keeps what a computation would read
  (`FoldedReadsTheSame`), for a container that is stopped reads the baseline back: the
  plan has no file of one (`StoppedIsQuiet`), and a directory of one is a graft, so the
  level is then left out unless every container runs (`Sharp`).  The numbering of the
  plan needs the least of a set of naturals (`LeastNumber`), `FoldKeepsEntries` a node of
  a set that is above none of the others, which is the new part of `TreeAssumption`.
  TLC checked `FlagsAreKept` on the instance of `integrity` first.

  The attempt refuted the property as it was stated, as an action property that excused
  only the nodes folded: with a directory goes what is below it.  It excuses that now, and
  what ADR-009 says is the violated `DeclinedStaysFlagged` (section 6).

Existence of a newest version needs the maximum of a bounded set of naturals.
Induction over an operator is not available to the installed provers;
`BoundedMax` uses `WFMin` with `NatLessThanWellFounded` instead.

The theorems rest on the named assumptions of the modules (`StoreAssumption`,
`NoneAssumption`, `PipelineAssumption`, `BreakerAssumption`, `GuestOpsAssumption`,
`TransportAssumption`, `UpdateAssumption`, `AuditAssumption`, `GuestFilesAssumption`,
`ConfigHistoryAssumption`, `PreflightAssumption`, `UpdatesAssumption`, `TreeAssumption`,
`ForestAssumption`), which TLC evaluates on every run.

**Only model-checked:** the two liveness properties, `CallsReturn` and `EveryCallEnds`,
which are out of reach of the prover.
Where a module has a proof its type invariant is a theorem and no longer part of a
run, except that of `AuditIndex`, which says that the index is a part of the log.

## 5. Abstractions

* Contents are values, hashes are exact, compression is the identity on them.
* Stamps are distinct and increasing, an assumption the code does not secure: two versions
  of one file stored in one millisecond share a path, and the later overwrites the earlier
  (`backup/store.ts:207`).  So nothing is claimed about versions being immutable.
* The four kinds of target share one pipeline; `RemoteRead` and `RemoteWrite` are
  one step each, which `IsOneReadOneWrite` justifies: a guest transfer takes
  effect at one moment.  Its temporary files and permissions are `GuestFiles`.
* Guardrail verdicts are nondeterministic: a refusal ends the call with no
  effect.  In the same way `Revert` allows any verdict of the breaker.
* A disk write of the server itself does not fail halfway, apart from the crash
  between blob and sidecar.  Config history, which runs before `audit.append`,
  never throws and is left out.
* The wall clock does not run backwards, which would only keep rollback
  attempts in the breaker's window for longer.
* Hashes of the forest are sets of pairs; `sha256sum` and `stat` of one subtree read
  one moment.  An autoAccept is the code's `verify` and fold in one call.
* In `GuestOps` free space, permissions and the parsing of listings are one way to
  fail; the breaker's verdict is any.
* In `ConfigHistory` a git run is atomic; the `index.lock` that a killed git leaves,
  excluded files and size limits are left out.
* In `GuestFiles` size limits, quoting and the `truncated` flag of the guest agent are left out.
* In `AuditIndex` SQL and FTS are set operations: a text is the searches it contains and the
  words it has, both given.  A substring filter is not empty, and the log has no torn line.
  The index is updated and its full text rebuilt in one step of the rescrub.
* In `ComposePreflight` one port and one holder per namespace, and a `container_name` is no
  service's name; in `ImageUpdates`
  ranking of newer tags and Watchtower are left out.
* In `ComposeUpdate` every service starts running and every ref has been pulled
  once; image refs are identities, and the repository of a ref is given.  The
  health gate is its verdict; how it samples is not modelled.  `Throws` also
  stands for the death of the process: nothing on the guest is undone either way.

## 6. Where code and documentation differ

Run `backstop_drops_other`: *the backstop drops the wrong connection*
(`src/ssh/ssh2Client.ts:170`).  It ends the current client, not the command's,
so of two commands that outlast the backstop the second takes the healthy new
connection down.

Run `declined_unseen`: *a fold of a directory hides a declined leaf*
(`src/integrity/integrityEngine.ts:353`).  ADR-009 (`docs/adr/ADR-009-merkle-integrity-forest.md:97`):
"Whatever the policy declines stays flagged until an explicit `accept_truth`."  A
`compute_tree` of l1 while `pct list` fails leaves the container out of that baseline
alone, and the container's file has changed since the baselines of l2 and l3.  A smart
verify reports the container's directory added at l1 and the file changed at l3.  The
policy folds the directory, as drift of l1 only, and declines the file.
`foldLeafIntoBaseline` copies the directory's new hash into every level, and the walk of
l3 stops there from then on.  The comment at line 212, "Only file-leaf drift drives the
policy", is not what the filter at line 216 does.

The following have no run; the properties of section 3 are stated so that they
hold with the code as it is.  Their paths are below `src/`.

* **Store and pipeline.**  A content already stored anywhere makes a write store
  nothing, whatever it overwrites (`backup/policy.ts:227`; README: "every write
  backed up and revertible").  With only a path, `revert_file` takes the newest
  blob and throws when that is a delta for another content, although
  `list_backups` shows a revertible version (`tools/revertFile.ts:95`, comment at
  45).  Eviction sorts by stamps that are not dates (`backup/eviction.ts:25`,
  comment at 15), and its plan empties the store if it must, so the
  disk-pressure fail-safe is unreachable.  A write that throws after it took
  effect has no record (`tools/writeFile.ts:191`); `revert_file` records that case.
  A revert checks its delta against a content read several awaits earlier
  (`tools/revertFile.ts:231`).  The drift guard compares with the newest sidecar
  (`backup/store.ts:356`), which after a revert is that of what the revert overwrote:
  the next write takes the restored content for drift, and misses a real drift back to
  the overwritten content or after the revert of a missing file, which stores nothing
  (`backup/policy.ts:212`: "since our last managed write").
  Two versions stored in the same millisecond overwrite each other (section 5).
* **SSH transport.**  A connection that closes before `ready` or `error`
  (`ssh/ssh2Client.ts:110-123`) settles nothing, so `connectingPromise` stays set and every
  later call joins it and waits for ever; `EveryCallEnds` allows that wait and no other.
* **Compose update.**  A command of the rollback that throws leaves no count
  (`tools/composeUpdate.ts:445`, comment at 419).  The hold tag has no compose project in it
  (`tools/dockerUpdate.ts:731`; comment at 730 and ADR-025:86: "one hold per service"), so
  an update of a service of the same name and repository in another stack on the daemon
  moves it, and a rollback then puts back the other stack's image.  `up -d` runs without
  `--pull never` (`tools/composeUpdate.ts:410`; the rollback has it): with a `pull_policy`
  an update may end on another image than the `newImageId` it reports, and the health gate
  only warns.
* **Integrity forest.**  Accepting a directory entry by itself grafts its hash onto
  the baseline and hides later drift below it, hence `grafted` in
  `DriftIsReported`; "identical subtree" in `integrity/diff.ts` is then not the case.
  `autoAccept` folds leaves of a tree that it recomputed after the policy decided
  (`integrityEngine.ts:317`), so a sensitive leaf below a folded directory gets in.
  A fold below a directory that the baseline lacks stops at the first missing ancestor
  (`integrityEngine.ts:367`; comment at 362: "up to the super-root") and leaves a node
  that later diffs prune.  A failing `pct list` silently drops all containers from the forest.
* **Guests.**  A rollback that fails after its stop leaves the guest stopped
  (`tools/snapshotTools.ts:289`).  Two `guest_backup` calls at once can delete the only
  other archive each relies on, against "retention never deletes the only
  rollback point" (`tools/backups.ts:81`); two in one second share their note
  (`tools/backupTools.ts:299`).  A `vzdump` whose start lost its answer runs without a
  record.  A restore over the API is answered when it is queued, and so is the deletion of an
  archive (`node/apiBackend.ts:320-326`): `guest_backup` lists it as evicted
  (`tools/backupTools.ts:184-193`) before it has run, and also when it fails later.
* **Config history.**  `commit` may answer false although HEAD holds the file,
  when another call committed it (`history/configHistory.ts:226`).
  `config_sweep` commits and never pushes (`tools/configSweep.ts:324`; ADR-006: "Push
  runs after each commit").  A sweep may overwrite or delete a mirror file that a
  mutation has just recorded, and drops manifest entries recorded since it read
  the manifest (`tools/configSweep.ts:240`).  A file that it cannot fetch is skipped in
  silence (`tools/configSweep.ts:219-225`: "vanished mid-sweep", whatever the error).
* **Files in guests.**  A container that stops between the check and the probe
  looks like one without the file (`tools/pctFiles.ts:159`), which is why
  `FileChannel` has `Miss`.  A failed `stat` silently uses the configured
  permissions (`tools/pctWriteFile.ts:213`).  `readQmPrev` ignores `truncated`
  (`tools/qmWriteFile.ts:76`).
* **Audit.**  The sidecar's log has no projector (`ui/server.ts:67`), so its records
  are in answers from the log and never in answers from the index
  ("never a contract change", `tools/queryAudit.ts:155`), unless a backfill comes
  later.  A row whose projection failed is never repaired (`index.ts:173`).  A
  backfilled row has no diff, also when another server's backfill inserts the row before
  the server that has the diff does; and a rebuild after a rescrub brings the old text back.
  The two searches differ, against "strictly richer" (`tools/queryAudit.ts:136`) and
  "provably in parity" (`audit/auditDb.ts:149`): "ngin" is found only in the log, a
  case-sensitive substring (`queryAudit.ts:138-146`); "NGINX" for a record with "nginx" only
  in the index, whose words have no case; a search without a word, such as "--", matches
  every row of the index (`audit/auditProjection.ts:166`); and a word that redaction takes
  out is found in the log and no longer in a rescrubbed row.
* **Advisors.**  A service that joins a service that joins a provider is put in a
  group of its own, so their collision is missed (`composePreflight.ts:256`).  So are those of
  two services with `network_mode: host` and of one that joins another by its
  `container_name`: `netnsOwner` (`composePreflight.ts:260-264`) gives null for the first and
  a name that is no service for the second, which does not count as a dependent of the
  provider's recreation either.  A stack without a provider has the ports it publishes
  reported as held by a foreign holder, severity "error": docker-proxy has no container and
  there is no namespace whose members are all its own (`composePreflight.ts:484-502`),
  against the handler's promise that "a port held by this stack's own running instance is
  told apart from a real conflict" (`composePreflightHandler.ts:85-90`).  A
  process named like a service hides a foreign holder of the port.  A stranger in
  the provider's namespace that comes after the scan is taken for an own
  instance.  A registry that times out does not fall back to Diun, though one
  that answers with an error does (`imageUpdates.ts:318`).  The first `RepoDigest` of an
  image stands for all, which can say "update-available" falsely
  (`dockerUpdate.ts:98`).

## 7. Not modelled

Listed in `PROJECT.json` with the reason: what is one remote command and a parser
(services, docker introspection, listings, execution, census, health), string
matching (guardrails, redaction, host keys, command building), and HTTP (API
client, TLS pins, the sidecar's pages).  None of it keeps state that two steps
share, which is what these models are about.

## 8. Plan

1. **Composition** of `GuestFiles` with `BackupStore` through `FileChannel` in one run.
2. **Pure operators** against reference definitions: reverse diff, host-key
   decision, health poll, census drift.
