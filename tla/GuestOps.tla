------------------------------ MODULE GuestOps ------------------------------
(***************************************************************************)
(* The whole-guest tools on one guest: snapshot_create, snapshot_rollback, *)
(* snapshot_delete (src/tools/snapshotTools.ts, always over SSH), guest_   *)
(* backup, guest_backup_restore (backupTools.ts) and guest_start, stop and *)
(* restart (lifecycle.ts), which go through NodeOps: over SSH a command    *)
(* blocks and throws when it fails, over the API it returns a task that    *)
(* the node runs later.                                                    *)
(*                                                                         *)
(* The circuit breaker in front of the two restores is RollbackBreaker.    *)
(***************************************************************************)
EXTENDS Naturals, FiniteSets

CONSTANTS
    SnapshotCap,  \* cfg.snapshot.perGuestCap
    ArchiveCap,   \* cfg.backup.guestArchivePerGuestCap
    CallIds,      \* the calls of a behaviour
    MaxClock,     \* BOUND: seconds in which calls begin
    MaxEvents     \* BOUND: failures, and outside changes of the power state

ASSUME GuestOpsAssumption ==
    /\ SnapshotCap \in Nat /\ ArchiveCap \in Nat
    /\ MaxClock \in Nat \ {0} /\ MaxEvents \in Nat
    /\ IsFiniteSet(CallIds)

VARIABLES
    backend,    \* "api" or "ssh": the NodeOps in use
    power,      \* "running" or "stopped"
    disk,       \* the point that was last restored, Live when none was
    snapshots,  \* [at, name, mcp]: creation order, second in the name, owner
    archives,   \* [at, name, mcp]: creation order, second in the note, owner
    vzdump,     \* call -> how its vzdump stands on the node
    tasks,      \* <<call, kind, point>>: the node's other tasks, not yet run
    call,       \* call -> its progress
    dropped,    \* snapshot_delete has removed a snapshot (history variable)
    clock,      \* the second of the last call
    stamp,      \* the creation order of the next point
    events      \* failures so far

node == <<power, disk, snapshots, archives, vzdump, tasks, stamp>>
opsVars == <<backend, node, call, dropped, clock, events>>

Live == [at |-> 0, name |-> 0, mcp |-> FALSE]

----------------------------------------------------------------------------
(* Retention *)

Owned(points) == {p \in points : p.mcp}

\* The n newest of a set, by creation time for archives, by name for snapshots.
NewestArchives(points, n) == {p \in points : Cardinality({q \in points : q.at > p.at}) < n}
NewestSnapshots(points, n) == {p \in points : Cardinality({q \in points : q.name > p.name}) < n}

\* cap less the one point about to be created.
Allowed(cap) == IF cap = 0 THEN 0 ELSE cap - 1

AtLeastOne(cap) == IF cap = 0 THEN 1 ELSE cap

\* planArchiveEviction
PlanArchiveEviction(points, cap) == Owned(points) \ NewestArchives(Owned(points), Allowed(cap))

\* Mutant: the new archive is a candidate too.
PlanWithoutNew(points, new, cap) == PlanArchiveEviction(points, cap)

\* planPostCreateEviction
PlanPostCreateEviction(points, new, cap) == PlanArchiveEviction(points \ {new}, AtLeastOne(cap))

\* Mutant: the pre-create listing is trimmed to the cap.
PlanToCap(points, cap) == Owned(points) \ NewestSnapshots(Owned(points), cap)

\* planSnapshotEviction
PlanSnapshotEviction(points, cap) == Owned(points) \ NewestSnapshots(Owned(points), Allowed(cap))

----------------------------------------------------------------------------
(* Calls *)

Over == {"ok", "pending", "failed"}
InFlight(c) == call[c].stage \notin Over \cup {"idle"}

NoCall == [op |-> "guest_start", stage |-> "idle", name |-> 0, todo |-> {}, point |-> Live,
           was |-> FALSE, early |-> FALSE, alone |-> FALSE, clean |-> TRUE, kept |-> FALSE]

Disturbed == [c \in CallIds |-> [call[c] EXCEPT !.alone = FALSE]]

NodeIsQuiet == tasks = {} /\ \A c \in CallIds : vzdump[c] # "running"

\* A call begins: its handler takes the time, which goes into the name or note.
Begin(c, rec) ==
    /\ call[c].stage = "idle"
    /\ clock' \in clock..MaxClock
    /\ call' = [Disturbed EXCEPT ![c] =
                   [rec EXCEPT !.name = clock',
                               !.alone = NodeIsQuiet /\ \A d \in CallIds : ~InFlight(d)]]
    /\ UNCHANGED <<backend, node, dropped, events>>

At(c, op, stage) == call[c].op = op /\ call[c].stage = stage
Goes(c, stage) == call' = [call EXCEPT ![c].stage = stage]

\* How a command ends: done; failed, without an effect; lost, with its effect but
\* no exit code before the timeout.
Outcomes == {"done", "failed", "lost"}

Charge(bad) ==
    /\ bad => events < MaxEvents
    /\ events' = IF bad THEN events + 1 ELSE events

----------------------------------------------------------------------------
(* snapshot_create *)

\* The listing before the create is what retention chooses from.
SnapshotCreate(c) ==
    Begin(c, [NoCall EXCEPT !.op = "snapshot_create", !.stage = "create",
                            !.todo = PlanSnapshotEviction(snapshots, SnapshotCap)])

\* pct snapshot: refused when the name is taken.
SnapshotTaken(c, outcome) ==
    /\ At(c, "snapshot_create", "create")
    /\ Charge(outcome # "done")
    /\ LET s == [at |-> stamp, name |-> call[c].name, mcp |-> TRUE]
           taken == \E t \in snapshots : t.mcp /\ t.name = s.name
       IN IF taken \/ outcome = "failed"
          THEN UNCHANGED <<snapshots, stamp>> /\ Goes(c, "failed")
          ELSE /\ snapshots' = snapshots \cup {s}
               /\ stamp' = stamp + 1
               /\ Goes(c, IF outcome = "done" THEN "evict" ELSE "failed")
    /\ UNCHANGED <<backend, power, disk, archives, vzdump, tasks, dropped, clock>>

\* One eviction, oldest first: a failed one is reported and skipped.
SnapshotEvicted(c, outcome) ==
    /\ At(c, "snapshot_create", "evict")
    /\ Charge(outcome # "done")
    /\ \E s \in call[c].todo :
          /\ \A t \in call[c].todo : s.name <= t.name
          /\ snapshots' = IF outcome = "failed" THEN snapshots ELSE snapshots \ {s}
          /\ call' = [call EXCEPT ![c].todo = @ \ {s},
                                  ![c].clean = @ /\ outcome = "done" /\ s \in snapshots]
    /\ UNCHANGED <<backend, power, disk, archives, vzdump, tasks, stamp, dropped, clock>>

\* The audit record, and the result.
EvictionsDone(c) ==
    /\ call[c].stage = "evict" /\ call[c].todo = {}
    /\ Goes(c, "ok")
    /\ UNCHANGED <<backend, node, dropped, clock, events>>

----------------------------------------------------------------------------
(* snapshot_delete *)

SnapshotDelete(c, s) ==
    /\ s.mcp
    /\ Begin(c, [NoCall EXCEPT !.op = "snapshot_delete", !.stage = "create", !.point = s])

SnapshotDeleted(c, outcome) ==
    /\ At(c, "snapshot_delete", "create")
    /\ Charge(outcome # "done")
    /\ LET gone == call[c].point \notin snapshots
       IN /\ snapshots' = IF outcome = "failed" THEN snapshots ELSE snapshots \ {call[c].point}
          /\ dropped' = (dropped \/ (outcome # "failed" /\ ~gone))
          /\ Goes(c, IF outcome = "done" /\ ~gone THEN "ok" ELSE "failed")
    /\ UNCHANGED <<backend, power, disk, archives, vzdump, tasks, stamp, clock>>

----------------------------------------------------------------------------
(* guest_backup *)

\* evictBeforeCreate plans from the listing before the create and evicts first; a
\* storage without headroom refuses the call here, which leaves no trace.
GuestBackup(c, early) ==
    Begin(c, [NoCall EXCEPT !.op = "guest_backup", !.early = early,
                            !.stage = IF early THEN "early" ELSE "create",
                            !.todo = IF early THEN PlanArchiveEviction(archives, ArchiveCap) ELSE {}])

\* One deletion, newest first; in the old order a failed one ends the call after the last.
\* Over the API the answer is a task, which the handler neither waits for nor checks.
ArchiveEvicted(c, outcome) ==
    /\ call[c].op = "guest_backup" /\ call[c].stage \in {"early", "evict"}
    /\ Charge(outcome # "done")
    /\ \E a \in call[c].todo :
          /\ \A b \in call[c].todo : b.at <= a.at
          /\ archives' = IF outcome = "failed" \/ backend = "api" THEN archives ELSE archives \ {a}
          /\ tasks' = IF outcome = "failed" \/ backend = "ssh" THEN tasks
                      ELSE tasks \cup {<<c, "delete", a>>}
          /\ call' = [call EXCEPT ![c].todo = @ \ {a},
                                  ![c].clean = @ /\ outcome = "done" /\ (backend = "ssh" => a \in archives)]
    /\ UNCHANGED <<backend, power, disk, snapshots, vzdump, stamp, dropped, clock>>

EarlyEvictionsDone(c) ==
    /\ call[c].stage = "early" /\ call[c].todo = {}
    /\ Goes(c, IF call[c].clean THEN "create" ELSE "failed")
    /\ UNCHANGED <<backend, node, dropped, clock, events>>

\* vzdump is started; over the API the answer may be lost while the task runs.
CreateBackup(c, outcome) ==
    /\ At(c, "guest_backup", "create")
    /\ Charge(outcome # "done")
    /\ outcome = "lost" => backend = "api"
    /\ vzdump' = [vzdump EXCEPT ![c] = IF outcome = "failed" THEN "none" ELSE "running"]
    /\ Goes(c, IF outcome = "done" THEN "poll" ELSE "failed")
    /\ UNCHANGED <<backend, power, disk, snapshots, archives, tasks, stamp, dropped, clock>>

\* waitForBackupTask, and the return of a blocking vzdump.
TaskStopped(c) ==
    /\ At(c, "guest_backup", "poll") /\ vzdump[c] # "running"
    /\ Goes(c, IF vzdump[c] = "ok" THEN "relist" ELSE "failed")
    /\ UNCHANGED <<backend, node, dropped, clock, events>>

\* The last poll finds it running: the call returns as pending and evicts nothing.  Over
\* SSH the timeout on the node kills it.
TaskDeadline(c) ==
    /\ At(c, "guest_backup", "poll") /\ vzdump[c] = "running"
    /\ Goes(c, IF backend = "api" THEN "pending" ELSE "failed")
    /\ vzdump' = [vzdump EXCEPT ![c] = IF backend = "api" THEN @ ELSE "failed"]
    /\ UNCHANGED <<backend, power, disk, snapshots, archives, tasks, stamp, dropped, clock, events>>

\* The new archive is the newest with the call's own note; a listing that fails leaves
\* it unresolved, and nothing is evicted.
Relist(c, fails) ==
    /\ At(c, "guest_backup", "relist")
    /\ Charge(fails)
    /\ LET mine == {a \in archives : a.mcp /\ a.name = call[c].name}
           found == ~fails /\ mine # {}
           new == CHOOSE a \in mine : \A b \in mine : b.at <= a.at
       IN call' = [call EXCEPT ![c].stage = "evict",
                      ![c].clean = @ /\ found,
                      ![c].todo = IF found THEN PlanPostCreateEviction(archives, new, ArchiveCap) ELSE {}]
    /\ UNCHANGED <<backend, node, dropped, clock>>

----------------------------------------------------------------------------
(* snapshot_rollback, guest_backup_restore and the lifecycle tools *)

\* Only server-owned points; a running guest is stopped first (without stopIfRunning
\* the call is refused).
RestorePoint(c, op, p) ==
    /\ p.mcp
    /\ Begin(c, [NoCall EXCEPT !.op = op, !.point = p, !.was = power = "running",
                               !.stage = IF power = "running" THEN "stop" ELSE "restore"])

\* guestStartHandler: nothing is done when the guest already runs.
GuestStart(c) ==
    Begin(c, [NoCall EXCEPT !.op = "guest_start", !.stage = IF power = "running" THEN "ok" ELSE "start"])

GuestStop(c) == Begin(c, [NoCall EXCEPT !.op = "guest_stop", !.stage = "stop"])
GuestRestart(c) == Begin(c, [NoCall EXCEPT !.op = "guest_restart", !.stage = "start"])

Blocks(c) == backend = "ssh" \/ call[c].op = "snapshot_rollback"

\* A NodeOps call over the API: the task is queued and the handler goes on, or it throws.
Queue(c, kind, outcome, next) ==
    /\ tasks' = IF outcome = "failed" THEN tasks ELSE tasks \cup {<<c, kind, call[c].point>>}
    /\ Goes(c, IF outcome = "done" THEN next ELSE "failed")

StopGuest(c, outcome) ==
    /\ call[c].stage = "stop"
    /\ Charge(outcome # "done")
    /\ LET next == IF call[c].op = "guest_stop" THEN "ok" ELSE "restore"
       IN IF Blocks(c)
          THEN /\ power' = IF outcome = "failed" THEN power ELSE "stopped"
               /\ Goes(c, IF outcome = "done" THEN next ELSE "failed")
               /\ UNCHANGED tasks
          ELSE Queue(c, "stop", outcome, next) /\ UNCHANGED power
    /\ UNCHANGED <<backend, disk, snapshots, archives, vzdump, stamp, dropped, clock>>

\* The node restores a stopped guest from a point it still has.
CanRestore(p) == power = "stopped" /\ p \in snapshots \cup archives

AfterRestore(c) == IF call[c].was THEN "start" ELSE "ok"

\* Mutant: the exit code of the rollback is not looked at.
RestoreUnchecked(c, outcome) ==
    /\ call[c].stage = "restore"
    /\ Charge(outcome # "done")
    /\ disk' = IF CanRestore(call[c].point) /\ outcome # "failed" THEN call[c].point ELSE disk
    /\ Goes(c, AfterRestore(c))
    /\ UNCHANGED <<backend, power, snapshots, archives, vzdump, tasks, stamp, dropped, clock>>

\* The rollback or restore: when it fails the handler throws, and a guest that was
\* stopped for it stays stopped.
Restore(c, outcome) ==
    /\ call[c].stage = "restore"
    /\ Charge(outcome # "done")
    /\ IF Blocks(c)
       THEN LET works == CanRestore(call[c].point)
            IN /\ disk' = IF works /\ outcome # "failed" THEN call[c].point ELSE disk
               /\ Goes(c, IF works /\ outcome = "done" THEN AfterRestore(c) ELSE "failed")
               /\ UNCHANGED tasks
       ELSE Queue(c, "restore", outcome, AfterRestore(c)) /\ UNCHANGED disk
    /\ UNCHANGED <<backend, power, snapshots, archives, vzdump, stamp, dropped, clock>>

\* The start: snapshot_rollback ignores its exit code and asks for the state, and the
\* guest may come up after the command.
StartGuest(c, outcome) ==
    /\ call[c].stage = "start" /\ call[c].op # "guest_restart"
    /\ Charge(outcome # "done")
    /\ IF call[c].op = "snapshot_rollback"
       THEN /\ \/ power' = (IF outcome = "failed" THEN power ELSE "running") /\ UNCHANGED tasks
               \/ outcome = "lost" /\ tasks' = tasks \cup {<<c, "start", Live>>} /\ UNCHANGED power
            /\ Goes(c, "wait")
       ELSE IF Blocks(c)
       THEN /\ power' = IF outcome = "failed" THEN power ELSE "running"
            /\ Goes(c, IF outcome = "done" THEN "ok" ELSE "failed")
            /\ UNCHANGED tasks
       ELSE Queue(c, "start", outcome, "ok") /\ UNCHANGED power
    /\ UNCHANGED <<backend, disk, snapshots, archives, vzdump, stamp, dropped, clock>>

\* A reboot ends in the state it began in.
RebootGuest(c, outcome) ==
    /\ At(c, "guest_restart", "start")
    /\ Charge(outcome # "done")
    /\ IF backend = "ssh"
       THEN Goes(c, IF outcome = "done" /\ power = "running" THEN "ok" ELSE "failed") /\ UNCHANGED tasks
       ELSE Queue(c, "reboot", outcome, "ok")
    /\ UNCHANGED <<backend, power, disk, snapshots, archives, vzdump, stamp, dropped, clock>>

\* Mutant: the wait for a guest that does not come up has no deadline.
WaitWithoutDeadline(c) ==
    /\ At(c, "snapshot_rollback", "wait") /\ power = "running"
    /\ Goes(c, "ok")
    /\ UNCHANGED <<backend, node, dropped, clock, events>>

\* waitForGuestRunning: until the guest runs, or the deadline.
WaitForGuestRunning(c) ==
    /\ At(c, "snapshot_rollback", "wait")
    /\ Goes(c, IF power = "running" THEN "ok" ELSE "failed")
    /\ UNCHANGED <<backend, node, dropped, clock, events>>

----------------------------------------------------------------------------
(* The node and other people *)

NodeVzdump(c, ok) ==
    /\ vzdump[c] = "running"
    /\ Charge(~ok)
    /\ vzdump' = [vzdump EXCEPT ![c] = IF ok THEN "ok" ELSE "failed"]
    /\ archives' = IF ok THEN archives \cup {[at |-> stamp, name |-> call[c].name, mcp |-> TRUE]}
                   ELSE archives
    /\ stamp' = IF ok THEN stamp + 1 ELSE stamp
    /\ UNCHANGED <<backend, power, disk, snapshots, tasks, call, dropped, clock>>

\* A queued task runs, or fails without anybody noticing (kept remembers that of a deletion);
\* a restore of a guest that runs fails.
NodeRuns(t, ok) ==
    /\ t \in tasks
    /\ Charge(~ok)
    /\ tasks' = tasks \ {t}
    /\ power' = CASE ok /\ t[2] = "stop" -> "stopped" [] ok /\ t[2] = "start" -> "running" [] OTHER -> power
    /\ disk' = IF ok /\ t[2] = "restore" /\ CanRestore(t[3]) THEN t[3] ELSE disk
    /\ archives' = IF ok /\ t[2] = "delete" THEN archives \ {t[3]} ELSE archives
    /\ call' = IF ~ok /\ t[2] = "delete" THEN [call EXCEPT ![t[1]].kept = TRUE] ELSE call
    /\ UNCHANGED <<backend, snapshots, vzdump, dropped, clock, stamp>>

\* The guest dies, or somebody starts or stops it.
GuestTurns ==
    /\ Charge(TRUE)
    /\ power' = IF power = "running" THEN "stopped" ELSE "running"
    /\ call' = Disturbed
    /\ UNCHANGED <<backend, disk, snapshots, archives, vzdump, tasks, dropped, clock, stamp>>

----------------------------------------------------------------------------
(* The specification *)

Left(at, mcp) == [at |-> at, name |-> 0, mcp |-> mcp]

\* A guest with points of an earlier process, among them one that a person made.
OpsInit ==
    /\ backend \in {"api", "ssh"}
    /\ power \in {"running", "stopped"}
    /\ disk = Live
    /\ snapshots = {Left(1, FALSE), Left(2, TRUE)}
    /\ archives = {Left(3, FALSE), Left(4, TRUE)}
    /\ vzdump = [c \in CallIds |-> "none"] /\ tasks = {}
    /\ call = [c \in CallIds |-> NoCall]
    /\ dropped = FALSE /\ clock = 1 /\ stamp = 5 /\ events = 0

SnapshotTools(c) ==
    \/ SnapshotCreate(c)
    \/ \E s \in snapshots : SnapshotDelete(c, s) \/ RestorePoint(c, "snapshot_rollback", s)

LifecycleTools(c) == GuestStart(c) \/ GuestStop(c) \/ GuestRestart(c)

BackupTools(c) ==
    \/ \E early \in BOOLEAN : GuestBackup(c, early)
    \/ \E a \in archives : RestorePoint(c, "guest_backup_restore", a)

\* What the server does once a call has begun.
Handler(c) ==
    \/ \E outcome \in Outcomes :
          \/ SnapshotTaken(c, outcome)
          \/ SnapshotEvicted(c, outcome)
          \/ SnapshotDeleted(c, outcome)
          \/ ArchiveEvicted(c, outcome)
          \/ CreateBackup(c, outcome)
          \/ StopGuest(c, outcome)
          \/ Restore(c, outcome)
          \/ StartGuest(c, outcome)
          \/ RebootGuest(c, outcome)
    \/ EvictionsDone(c)
    \/ EarlyEvictionsDone(c)
    \/ TaskStopped(c)
    \/ TaskDeadline(c)
    \/ \E fails \in BOOLEAN : Relist(c, fails)
    \/ WaitForGuestRunning(c)

OpsNext ==
    \/ \E c \in CallIds : SnapshotTools(c) \/ LifecycleTools(c) \/ BackupTools(c) \/ Handler(c)
    \/ \E c \in CallIds, ok \in BOOLEAN : NodeVzdump(c, ok)
    \/ \E t \in tasks, ok \in BOOLEAN : NodeRuns(t, ok)
    \/ GuestTurns

\* Every await of a handler ends; nothing is assumed of the node.
OpsSpec == OpsInit /\ [][OpsNext]_opsVars /\ \A c \in CallIds : WF_opsVars(Handler(c))

----------------------------------------------------------------------------
(* Properties *)

\* The archives whose deletion is queued.
Deleting == {t[3] : t \in {u \in tasks : u[2] = "delete"}}

\* What a step removes for the backup c: itself over SSH, by its tasks over the API.
Removed(c) == {a \in archives \ archives' :
                  call'[c] # call[c] \/ <<c, "delete", a>> \in tasks \ tasks'}

\* evictBeforeCreate gives up the older archives before there is a new one.
Early(c) == call[c].stage = "early" \/ (call[c].early /\ backend = "api")

\* Retention (snapshotTools.ts:130-166, backupTools.ts:184-193, 299-321) removes only points
\* the server owns, and each time a newer one of them remains: for snapshots whatever other
\* calls run, unless snapshot_delete took it; for archives when the backup is alone, until
\* the last deletion it queued has run, unless it asked for evictBeforeCreate.
RetentionIsSafe ==
    [][\A c \in CallIds :
          /\ call[c].op = "snapshot_create" /\ call'[c] # call[c] =>
                \A s \in snapshots \ snapshots' :
                   s.mcp /\ (dropped \/ \E t \in snapshots' : t.mcp /\ t.at > s.at)
          /\ \A a \in Removed(c) :
                /\ a.mcp
                /\ ~Early(c) => vzdump[c] = "ok"
                /\ call[c].alone /\ ~Early(c) => \E b \in archives' : b.mcp /\ b.at > a.at]_opsVars

\* A restore that the server waits for (snapshot_rollback, and guest_backup_restore over
\* SSH) and reports as done has put the point on the disk and left the guest in the power
\* state it found, unless somebody else interfered (snapshotTools.ts:281-316,
\* backupTools.ts:439-447).
SuccessIsReal ==
    [][\A c \in CallIds :
          /\ call[c].op \in {"snapshot_rollback", "guest_backup_restore"} /\ Blocks(c)
          /\ InFlight(c) /\ call[c].alone /\ call'[c].stage = "ok"
          => disk' = call[c].point /\ (power' = "running" <=> call[c].was)]_opsVars

\* A create that is alone and whose evictions all worked leaves no more points than the
\* cap, at least one, whatever earlier creates left behind: a pending or unresolved backup,
\* a failed eviction, a create that lost its answer (backups.ts:76-86, snapshots.ts:77-82).
\* Over the API an eviction is a queued task (backupTools.ts:184-193): archives whose task
\* is still to run are not counted, and nothing is said once a task has failed.
CapIsRestored ==
    [][\A c \in CallIds :
          InFlight(c) /\ call[c].alone /\ call[c].clean /\ call'[c].stage = "ok" =>
             /\ call[c].op = "snapshot_create" =>
                   Cardinality(Owned(snapshots')) <= AtLeastOne(SnapshotCap)
             /\ call[c].op = "guest_backup" /\ ~call[c].kept =>
                   Cardinality(Owned(archives') \ Deleting') <= AtLeastOne(ArchiveCap)]_opsVars

\* Every call returns, even when a vzdump never ends or the guest never comes up
\* (backupTools.ts:53-80, snapshotTools.ts:84-101).
CallsReturn == \A c \in CallIds : InFlight(c) ~> ~InFlight(c)

----------------------------------------------------------------------------
(* The inductive invariant *)

Point == [at : Nat, name : Nat, mcp : BOOLEAN]

Restores == {"snapshot_rollback", "guest_backup_restore"}

\* The stages of each operation.
Course == ({"snapshot_create"} \X {"create", "evict"})
            \cup ({"guest_backup"} \X {"early", "create", "poll", "relist", "evict"})
            \cup ({"snapshot_rollback"} \X {"stop", "restore", "start", "wait"})
            \cup ({"guest_backup_restore"} \X {"stop", "restore", "start"})
            \cup {<<"snapshot_delete", "create">>, <<"guest_start", "start">>,
                  <<"guest_stop", "stop">>, <<"guest_restart", "start">>}

Calling == [op : {"snapshot_create", "snapshot_delete", "guest_backup", "guest_start",
                  "guest_stop", "guest_restart"} \cup Restores,
            stage : {"idle", "early", "create", "poll", "relist", "evict", "stop", "restore",
                     "start", "wait"} \cup Over,
            name : Nat, todo : SUBSET Point, point : Point, was : BOOLEAN, early : BOOLEAN,
            alone : BOOLEAN, clean : BOOLEAN, kept : BOOLEAN]

NodeTypeOK ==
    /\ backend \in {"api", "ssh"} /\ power \in {"running", "stopped"} /\ disk \in Point
    /\ snapshots \in SUBSET Point /\ IsFiniteSet(snapshots)
    /\ archives \in SUBSET Point /\ IsFiniteSet(archives)
    /\ vzdump \in [CallIds -> {"none", "running", "ok", "failed"}]
    /\ tasks \in SUBSET (CallIds \X {"stop", "start", "restore", "reboot", "delete"} \X Point)
    /\ dropped \in BOOLEAN /\ clock \in Nat /\ stamp \in Nat /\ events \in Nat

OpsTypeOK == NodeTypeOK /\ call \in [CallIds -> Calling]

\* No two archives have one creation order, no two snapshots of the server's one name.
PointsDiffer ==
    /\ \A p \in snapshots \cup archives : p.at < stamp
    /\ \A a, b \in archives : a.at = b.at => a = b
    /\ \A s, t \in Owned(snapshots) : s.name = t.name => s = t

NewerIn(points, p) == \E q \in points : q.mcp /\ q.at > p.at

\* Whatever others do: what a call is about to delete is the server's, and older than a
\* snapshot that there is.
CallFits(c) ==
    /\ InFlight(c) => <<call[c].op, call[c].stage>> \in Course
    /\ call[c].stage = "early" => call[c].early
    /\ \A p \in call[c].todo : p.mcp /\ p.at < stamp
    /\ At(c, "snapshot_create", "evict") /\ ~dropped => \A s \in call[c].todo : NewerIn(snapshots, s)
    /\ call[c].op = "guest_backup" /\ call[c].stage \in {"relist", "evict"} => vzdump[c] = "ok"

\* A queued deletion is of a backup over the API, and unless it came before the vzdump, of
\* one that ended well.
TaskFits(t) ==
    t[2] = "delete" =>
        /\ backend = "api" /\ t[3].mcp /\ t[3].at < stamp
        /\ call[t[1]].op = "guest_backup" /\ call[t[1]].stage # "idle"
        /\ ~call[t[1]].early => call[t[1]].stage \in Over \cup {"evict"} /\ vzdump[t[1]] = "ok"

\* A call that is alone has the node for itself.
NodeIsOwn(c) ==
    /\ \A d \in CallIds \ {c} : ~InFlight(d) /\ vzdump[d] # "running"
    /\ \A t \in tasks : t[1] = c

CreateFits(c) ==
    call[c].clean =>
        /\ call[c].stage = "create" => call[c].todo = PlanSnapshotEviction(snapshots, SnapshotCap)
        /\ call[c].stage = "evict" =>
              /\ call[c].todo \subseteq snapshots
              /\ Cardinality(Owned(snapshots) \ call[c].todo) <= AtLeastOne(SnapshotCap)

\* What a backup is about to delete, or has queued.
Doomed(c) == call[c].todo \cup Deleting

BackupFits(c) ==
    /\ call[c].stage \in {"poll", "relist"} /\ vzdump[c] = "ok" =>
          \E a \in archives \ Deleting :
             a.mcp /\ a.name = call[c].name /\ \A b \in archives : b.at <= a.at
    /\ call[c].stage = "evict" /\ ~Early(c) => \A a \in Doomed(c) : NewerIn(archives \ Doomed(c), a)
    /\ call[c].stage = "evict" /\ call[c].clean /\ ~call[c].kept =>
          Cardinality(Owned(archives) \ Doomed(c)) <= AtLeastOne(ArchiveCap)

RestoreFits(c) ==
    /\ tasks # {} => call[c].stage = "wait" /\ \A t \in tasks : t[2] = "start"
    /\ call[c].stage = "restore" => power = "stopped"
    /\ call[c].stage = "stop" => call[c].was
    /\ call[c].stage \in {"start", "wait"} => call[c].was /\ disk = call[c].point

\* Also once the call is over: each deletion still queued leaves a newer archive.
DeletionsFit(c) == ~call[c].early => \A a \in Deleting : NewerIn(archives \ Deleting, a)

AloneFits(c) ==
    call[c].alone =>
        /\ NodeIsOwn(c) /\ DeletionsFit(c)
        /\ InFlight(c) /\ call[c].op = "snapshot_create" => CreateFits(c)
        /\ InFlight(c) /\ call[c].op = "guest_backup" => BackupFits(c)
        /\ InFlight(c) /\ call[c].op \in Restores /\ Blocks(c) => RestoreFits(c)

OpsIInv ==
    /\ OpsTypeOK /\ PointsDiffer
    /\ \A c \in CallIds : CallFits(c) /\ AloneFits(c)
    /\ \A t \in tasks : TaskFits(t)
=============================================================================
