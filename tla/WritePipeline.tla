--------------------------- MODULE WritePipeline ---------------------------
(***************************************************************************)
(* write_file, pct_write_file, qm_write_file, docker_write_file, the       *)
(* *_edit_file tools that share their pipeline, and revert_file, over the  *)
(* backup store, the remote files and the audit log.                       *)
(*                                                                         *)
(* The server is one Node process: a handler runs without interruption     *)
(* between two awaits, and other handlers run in between.  One action is   *)
(* one such stretch, or one effect at the remote end of the SSH            *)
(* connection.  A client is a slot for one tool call in flight.            *)
(***************************************************************************)
EXTENDS BackupStore

CONSTANTS
    Clients,      \* tool calls that can be in flight together
    HostTargets,  \* the targets of kind "host"
    HostPath,     \* Targets -> HostTargets: the host file with a target's remotePath
    Initial,      \* what a remote file may hold before the first call
    FailSafe,     \* cfg.backup.diskPressureFailSafe
    MaxCalls,     \* BOUND: tool calls in a behaviour
    MaxEdits,     \* BOUND: out-of-band edits in a behaviour
    Faults        \* which failures the environment may produce

ASSUME PipelineAssumption ==
    /\ HostTargets \subseteq Targets
    /\ HostPath \in [Targets -> HostTargets]
    /\ Initial \subseteq Content \cup {None}
    /\ FailSafe \in {"refuse", "warn"}
    /\ MaxCalls \in Nat /\ MaxCalls <= MaxStamp /\ MaxEdits \in Nat
    /\ Faults \subseteq {"read", "write", "snapshot", "crash"}

VARIABLES
    disk,     \* the backup store
    stamp,    \* the last stamp used for a version
    live,     \* the remote files: content, or None for a missing file
    call,     \* the tool call each client has in flight
    calls,    \* tool calls begun so far, the ids of calls
    edits,    \* out-of-band edits so far
    audit,    \* the audit records appended
    owed,     \* calls that must leave a record: a write once it took effect, a revert
              \* once it has asked the breaker (history variable)
    held      \* contents a file has held or was given by a call (history variable)

vars == <<disk, stamp, live, call, calls, edits, audit, owed, held>>

Ids == 1 .. MaxCalls

NoKind == [type |-> "gzip-full", at |-> None, blob |-> None, reanchored |-> FALSE]

Idle == [pc |-> "idle", op |-> "write", id |-> 0, tgt |-> None,
         prev |-> None, new |-> None, kind |-> NoKind, at |-> None]

Call == [pc   : {"idle", "read", "plan", "restore", "store", "apply", "audit", "fail"},
         op   : {"write", "revert"},
         id   : Ids \cup {0},
         tgt  : Targets \cup {None},
         prev : Content \cup {None},
         new  : Content \cup {None},
         kind : Kind,
         at   : Files \cup {None}]

Record == [id : Ids, op : {"write", "revert"}, outcome : {"ok", "failed", "refused"},
           tgt : Targets, prev : Content \cup {None}, new : Content \cup {None},
           type : {"dedup", "metadata-only", "gzip-diff", "gzip-full"},
           reanchored : BOOLEAN, at : Files \cup {None}]

Debt == [id : Ids, op : {"write", "revert"}]

Init ==
    /\ disk = EmptyDisk
    /\ stamp = 0
    /\ live \in [Targets -> Initial]
    /\ call = [c \in Clients |-> Idle]
    /\ calls = 0
    /\ edits = 0
    /\ audit = {}
    /\ owed = {}
    /\ held = [k \in Targets |-> {live[k]} \ {None}]

Step(c, fields) == call' = [call EXCEPT ![c] = fields]

RecordFor(r, outcome) ==
    [id |-> r.id, op |-> r.op, outcome |-> outcome, tgt |-> r.tgt, prev |-> r.prev,
     new |-> r.new, type |-> r.kind.type, reanchored |-> r.kind.reanchored, at |-> r.at]

----------------------------------------------------------------------------
(* Reading the current content: both handlers start with it *)

\* writeFileHandler and its guest siblings, up to the remote read.
WriteBegin(c, k, x) ==
    /\ call[c].pc = "idle" /\ calls < MaxCalls
    /\ calls' = calls + 1
    /\ Step(c, [Idle EXCEPT !.pc = "read", !.op = "write", !.id = calls + 1,
                            !.tgt = k, !.new = x])
    /\ held' = [held EXCEPT ![k] = @ \cup {x}]
    /\ UNCHANGED <<disk, stamp, live, edits, audit, owed>>

\* The target a backupPath belongs to: its sidecar's, or the host file of the
\* path the caller supplied when there is no sidecar.
ReadBackupTarget(f) == IF HasMeta(disk, f) THEN KeyOf(f) ELSE HostPath[KeyOf(f)]

\* revertFileHandler up to the remote read: resolve the backup and its target,
\* ask the circuit breaker (any verdict), which audits a refusal.
Revert(c, f, k) ==
    LET r == [Idle EXCEPT !.pc = "read", !.op = "revert", !.id = calls + 1,
                          !.tgt = k, !.at = f]
    IN  /\ call[c].pc = "idle" /\ calls < MaxCalls
        /\ calls' = calls + 1
        /\ owed' = owed \cup {[id |-> r.id, op |-> "revert"]}
        /\ \/ Step(c, r) /\ UNCHANGED audit
           \/ audit' = audit \cup {RecordFor(r, "refused")} /\ UNCHANGED call
        /\ UNCHANGED <<disk, stamp, live, edits, held>>

\* revert_file with path: the newest content-bearing version of the target.
RevertLatest(c, k) ==
    /\ LatestRevertible(disk, k) # None
    /\ Revert(c, LatestRevertible(disk, k), k)

\* revert_file with backupPath: a listed version or one an earlier call returned.
RevertAt(c, f) ==
    /\ f \in Versions(disk, KeyOf(f)) \cup {r.at : r \in audit}
    /\ Revert(c, f, ReadBackupTarget(f))

AfterRead(op) == IF op = "write" THEN "plan" ELSE "restore"

\* The remote end reads the file.
RemoteRead(c) ==
    /\ call[c].pc = "read"
    /\ Step(c, [call[c] EXCEPT !.pc = AfterRead(call[c].op), !.prev = live[call[c].tgt]])
    /\ UNCHANGED <<disk, stamp, live, calls, edits, audit, owed, held>>

\* The read fails.  A host read error, and a failed existence probe in a guest,
\* look like a missing file; any other guest error throws, which revert_file audits.
RemoteReadFails(c) ==
    /\ "read" \in Faults
    /\ call[c].pc = "read"
    /\ \/ Step(c, [call[c] EXCEPT !.pc = AfterRead(call[c].op)])
       \/ /\ call[c].tgt \notin HostTargets
          /\ Step(c, IF call[c].op = "write" THEN Idle ELSE [call[c] EXCEPT !.pc = "fail"])
    /\ UNCHANGED <<disk, stamp, live, calls, edits, audit, owed, held>>

----------------------------------------------------------------------------
(* Write: plan and store the backup *)

\* writeResolvedHost up to the await of the compression: choose the backup from the
\* store as it is now, unless the disk-pressure fail-safe refuses.  A dry run and a
\* content that introduces redaction markers end here as well, with no effect.
WritePlan(c) ==
    LET r == call[c]
        kind == SelectBackupKind(r.new, r.prev, BuildExistingHashMap(disk),
                                 LatestBaseHash(disk, r.tgt))
    IN  /\ r.pc = "plan"
        /\ \/ Step(c, Idle)
           \/ /\ ~(FailSafe = "refuse" /\ CheckDiskPressure(disk))
              /\ Step(c, [r EXCEPT !.pc = "store", !.kind = kind])
        /\ UNCHANGED <<disk, stamp, live, calls, edits, audit, owed, held>>

\* Mutant: targetKeyString drops the kind and vmid, so targets share a directory.
SharedFile(r) == <<HostPath[r.tgt], stamp + 1>>

\* The version file the next storeBackup writes for a target: its own directory,
\* under a stamp not used before.  The code takes the millisecond: two stores of one file
\* in the same one are not modelled.
NextFile(r) == <<r.tgt, stamp + 1>>

\* storeBackup, then the remote write is sent.
WriteStore(c) ==
    LET r == call[c]
        f == NextFile(r)
    IN  /\ r.pc = "store" /\ r.op = "write" /\ stamp < MaxStamp
        /\ disk' = StoreBackup(disk, f, r.kind, r.new)
        /\ stamp' = IF r.kind.type = "dedup" THEN stamp ELSE stamp + 1
        /\ Step(c, [r EXCEPT !.pc = "apply", !.at = ResultPath(r.kind, f)])
        /\ UNCHANGED <<live, calls, edits, audit, owed, held>>

----------------------------------------------------------------------------
(* Revert: restore the backup, then snapshot what it is about to overwrite *)

\* backupStore.restore, and the refusal of a version that holds no content.
RevertRestore(c) ==
    LET r == call[c]
        restored == Restore(disk, r.at, r.prev)
    IN  /\ r.pc = "restore"
        /\ Step(c, IF restored = None THEN [r EXCEPT !.pc = "fail"]
                   ELSE [r EXCEPT !.pc = "store", !.new = restored])
        /\ UNCHANGED <<disk, stamp, live, calls, edits, audit, owed, held>>

\* Mutant: the re-snapshot is left out, as before H5/F3.
RevertWithoutSnapshot(c) ==
    /\ call[c].pc = "store" /\ call[c].op = "revert"
    /\ Step(c, [call[c] EXCEPT !.pc = "apply"])
    /\ UNCHANGED <<disk, stamp, live, calls, edits, audit, owed, held>>

\* The self-contained re-snapshot of the current content, best effort.
RevertSnapshot(c) ==
    LET r == call[c]
    IN  /\ r.pc = "store" /\ r.op = "revert"
        /\ Step(c, [r EXCEPT !.pc = "apply"])
        /\ \/ /\ r.prev # None /\ stamp < MaxStamp
              /\ disk' = StoreBackup(disk, NextFile(r), FullKind(RawBlob(r.prev), FALSE), r.prev)
              /\ stamp' = stamp + 1
           \/ /\ r.prev = None \/ "snapshot" \in Faults
              /\ UNCHANGED <<disk, stamp>>
        /\ UNCHANGED <<live, calls, edits, audit, owed, held>>

----------------------------------------------------------------------------
(* The remote write and the audit record *)

Take(c) ==
    /\ live' = [live EXCEPT ![call[c].tgt] = call[c].new]
    /\ owed' = owed \cup {[id |-> call[c].id, op |-> call[c].op]}
    /\ held' = [held EXCEPT ![call[c].tgt] = @ \cup {call[c].new}]

\* The remote end writes the file.
RemoteWrite(c) ==
    /\ call[c].pc = "apply"
    /\ Take(c)
    /\ Step(c, [call[c] EXCEPT !.pc = "audit"])
    /\ UNCHANGED <<disk, stamp, calls, edits, audit>>

\* The remote write throws, before or after it took effect: a write ends without
\* a record, a revert goes to its catch block.
RemoteWriteFails(c) ==
    /\ "write" \in Faults
    /\ call[c].pc = "apply"
    /\ Take(c) \/ UNCHANGED <<live, owed, held>>
    /\ Step(c, IF call[c].op = "write" THEN Idle ELSE [call[c] EXCEPT !.pc = "fail"])
    /\ UNCHANGED <<disk, stamp, calls, edits, audit>>

\* Mutant: a failed revert is not recorded, as before H6/F4.
AuditAppendSuccessOnly(c) ==
    /\ call[c].pc \in {"audit", "fail"}
    /\ audit' = IF call[c].pc = "fail" THEN audit ELSE audit \cup {RecordFor(call[c], "ok")}
    /\ Step(c, Idle)
    /\ UNCHANGED <<disk, stamp, live, calls, edits, owed, held>>

\* audit.append of the completed call, or of the failed revert.
AuditAppend(c) ==
    /\ call[c].pc \in {"audit", "fail"}
    /\ audit' = audit \cup {RecordFor(call[c], IF call[c].pc = "audit" THEN "ok" ELSE "failed")}
    /\ Step(c, Idle)
    /\ UNCHANGED <<disk, stamp, live, calls, edits, owed, held>>

----------------------------------------------------------------------------
(* The environment *)

\* Someone changes or removes a remote file without the server.
OutOfBandEdit(k, x) ==
    /\ edits < MaxEdits /\ x # live[k]
    /\ live' = [live EXCEPT ![k] = x]
    /\ edits' = edits + 1
    /\ held' = [held EXCEPT ![k] = @ \cup ({x} \ {None})]
    /\ UNCHANGED <<disk, stamp, call, calls, audit, owed>>

\* The process dies and restarts: the calls in flight are gone and owe nothing, the
\* disk stays.
Crash ==
    /\ "crash" \in Faults
    /\ \E c \in Clients : call[c].pc # "idle"
    /\ call' = [c \in Clients |-> Idle]
    /\ owed' = {}
    /\ UNCHANGED <<disk, stamp, live, calls, edits, audit, held>>

\* The process dies inside storeBackup, after the blob and before the sidecar.
CrashInStore(c) ==
    LET r == call[c]
        kind == IF r.op = "write" THEN r.kind ELSE FullKind(RawBlob(r.prev), FALSE)
    IN  /\ "crash" \in Faults
        /\ r.pc = "store" /\ stamp < MaxStamp
        /\ IF r.op = "write" THEN kind.blob # None ELSE r.prev # None
        /\ disk' = StoreBlob(disk, NextFile(r), kind)
        /\ stamp' = stamp + 1
        /\ call' = [d \in Clients |-> Idle]
        /\ owed' = {}
        /\ UNCHANGED <<live, calls, edits, audit, held>>

----------------------------------------------------------------------------
Next ==
    \/ \E c \in Clients :
         \/ \E k \in Targets, x \in Content : WriteBegin(c, k, x)
         \/ \E k \in Targets : RevertLatest(c, k)
         \/ \E f \in Files : RevertAt(c, f)
         \/ RemoteRead(c) \/ RemoteReadFails(c)
         \/ RemoteWrite(c) \/ RemoteWriteFails(c)
         \/ WritePlan(c) \/ WriteStore(c)
         \/ RevertRestore(c) \/ RevertSnapshot(c)
         \/ AuditAppend(c)
         \/ CrashInStore(c)
    \/ \E k \in Targets, x \in Content \cup {None} : OutOfBandEdit(k, x)
    \/ Crash

Spec == Init /\ [][Next]_vars

----------------------------------------------------------------------------
(* Properties *)

TypeOK ==
    /\ disk \in Disk
    /\ stamp \in 0 .. MaxStamp
    /\ live \in [Targets -> Content \cup {None}]
    /\ call \in [Clients -> Call]
    /\ calls \in 0 .. MaxCalls
    /\ edits \in 0 .. MaxEdits
    /\ audit \subseteq Record
    /\ owed \subseteq Debt
    /\ held \in [Targets -> SUBSET Content]

\* Nothing is stored under a stamp the clock has not given yet.
FutureIsEmpty ==
    \A f \in Files : StampOf(f) > stamp => ~HasBlob(disk, f) /\ ~HasMeta(disk, f)

\* What list_backups says of a version that has its sidecar is exactly what
\* revert_file can do with it, for every content the live file may have: the
\* requiresBaseHash storeBackup recorded and the base inside the blob agree.
SidecarTellsTheTruth ==
    \A f \in Files : HasBlob(disk, f) /\ HasMeta(disk, f) =>
        \A x \in Content \cup {None} :
            ClassifyRevertible(disk, f, x) <=> Restore(disk, f, x) # None

\* The contents a target has held, and what a reverse diff makes of them.
OwnContent(k) == held[k] \cup {Utf8[x] : x \in held[k]}

\* What revert_file is about to write was a content of the file the backup was
\* taken of, across concurrent writes, dedup, drift, failures and restarts.
RevertWritesOwnHistory ==
    \A c \in Clients :
        call[c].op = "revert" /\ call[c].pc \in {"store", "apply", "audit"} =>
            call[c].new \in OwnContent(KeyOf(call[c].at))

Quiet == \A c \in Clients : call[c].pc = "idle"

\* The last completed change of a target.
IsLast(r, k) ==
    /\ r \in audit /\ r.tgt = k /\ r.outcome = "ok"
    /\ \A q \in audit : q.tgt = k /\ q.outcome = "ok" => q.id <= r.id

\* "Undo my last change to this file": as long as the file still is what the last
\* write made it, revert_file with only its path brings back what that write
\* overwrote, when the write stored a diff or a re-anchor snapshot of it.
LastWriteIsUndone ==
    Quiet => \A k \in Targets : \A r \in audit :
        /\ IsLast(r, k) /\ r.op = "write" /\ live[k] = r.new
        /\ r.type = "gzip-diff" \/ r.reanchored
        => /\ LatestRevertible(disk, k) # None
           /\ Restore(disk, LatestRevertible(disk, k), live[k]) \in {r.prev, Utf8[r.prev]}

\* A completed revert is itself undoable by another revert_file with the same
\* path, whatever happens to the live file in between.
LastRevertIsUndone ==
    Quiet => \A k \in Targets : \A r \in audit :
        IsLast(r, k) /\ r.op = "revert" /\ r.prev # None
        => /\ LatestRevertible(disk, k) # None
           /\ \A x \in Content \cup {None} :
                 Restore(disk, LatestRevertible(disk, k), x) = r.prev

\* The content whose hash the sidecar of a change records: what a write wrote, what a
\* revert overwrote.
Recorded(q) == IF q.op = "write" THEN q.new ELSE q.prev

\* The write r, right after the change q of the same file, finds another text there than
\* q's sidecar records, and stores a blob.
FindsDrift(q, r) ==
    /\ q.tgt = r.tgt /\ q.outcome = "ok" /\ q.id = r.id - 1
    /\ q.type # "dedup" /\ Recorded(q) \notin {None, r.prev}
    /\ r.op = "write" /\ r.type \in {"gzip-diff", "gzip-full"}
    /\ r.prev # None /\ r.new \notin Binary

\* "always get back to what the file was just before the server overwrote it": a
\* write that finds something else than the previous change put on record keeps it
\* in a self-contained version, however the file got there.
DriftIsCaptured ==
    \A q, r \in audit : IsLast(r, r.tgt) /\ FindsDrift(q, r) =>
        \E f \in Versions(disk, r.tgt) : disk.gz[f] = RawBlob(r.prev)

\* Every attempt the breaker has counted can be reconciled with the audit trail: once
\* no call is in flight, each revert since the last start has a record, whether it was
\* refused, failed at any of its awaits, or went through.
EveryRevertAudited ==
    Quiet => \A o \in owed : o.op = "revert" => \E r \in audit : r.id = o.id

\* planEviction runs before every store, so a directory exceeds its cap, and the
\* store its size cap, by at most the one version stored since.
StoreIsBounded ==
    LET E == ListEntries(disk)
    IN  /\ \A k \in Targets : Cardinality({e \in E : e.key = k}) <= PerFileVersionCap + 2
        /\ TotalSize(E) <= GlobalSizeCapBytes + BlobBytes + MetaBytes

----------------------------------------------------------------------------
(* The inductive invariant *)

\* A sidecar next to its blob describes it.
SidecarsMatch ==
    \A f \in Files : HasBlob(disk, f) /\ HasMeta(disk, f) =>
        disk.meta[f].base = disk.gz[f].base /\ disk.meta[f].kind # "metadata-only"

\* A blob holds a content of the target whose directory it is in.
BlobsAreOwn ==
    \A f \in Files : HasBlob(disk, f) => disk.gz[f].data \in OwnContent(KeyOf(f))

LiveIsHeld == \A k \in Targets : live[k] \in held[k] \cup {None}

\* What a call in flight carries across its awaits.
CallIsSound(r) ==
    /\ r.tgt \in Targets /\ r.id \in Ids
    /\ r.prev \in held[r.tgt] \cup {None}
    /\ r.op = "write" => r.new \in held[r.tgt] /\ r.pc \notin {"restore", "fail"}
    /\ r.op = "revert" => r.at \in Files /\ r.pc # "plan"
    /\ r.op = "revert" /\ r.pc \in {"store", "apply", "audit"} =>
         r.new \in OwnContent(KeyOf(r.at))
    /\ r.op = "write" /\ r.pc = "store" =>
         /\ r.kind.blob # None <=> r.kind.type \in {"gzip-diff", "gzip-full"}
         /\ r.kind.blob # None => r.kind.blob.data \in OwnContent(r.tgt)

CallsAreSound == \A c \in Clients : call[c].pc # "idle" => CallIsSound(call[c])

IInv ==
    /\ TypeOK /\ FutureIsEmpty /\ SidecarsMatch /\ BlobsAreOwn
    /\ LiveIsHeld /\ CallsAreSound

\* A revert that must leave a record has left it, or is the call a client has in flight.
RevertsAreTracked ==
    \A o \in owed : o.op = "revert" =>
        \/ \E r \in audit : r.id = o.id
        \/ \E c \in Clients : call[c].pc # "idle" /\ call[c].op = "revert" /\ call[c].id = o.id

----------------------------------------------------------------------------
(* The inductive invariant of the calls one after the other *)

\* One call at a time, no failure but of a read, and caps that leave a file its newest
\* version: the blob and the sidecar stay together, and the size cap is out of reach.
Sequential ==
    /\ \A c, d \in Clients : c = d
    /\ Faults \subseteq {"read"}
    /\ PerFileVersionCap >= 2
    /\ (BlobBytes + MetaBytes) * Cardinality(Files) <= GlobalSizeCapBytes

\* Whether a change puts a version on the disk.
Stores(q) ==
    IF q.op = "write" THEN q.reanchored \/ q.type # "dedup" ELSE q.prev # None

\* Version f is what a change stored.
Holds(q, f, d) ==
    /\ KeyOf(f) = q.tgt
    /\ HasMeta(d, f) /\ d.meta[f].hash = Recorded(q)
    /\ q.op = "revert" \/ q.reanchored => HasBlob(d, f) /\ d.gz[f] = RawBlob(q.prev)
    /\ q.op = "write" /\ q.type = "gzip-diff" =>
         HasBlob(d, f) /\ d.gz[f] = ComputeReverseDiff(q.new, q.prev)

Newest(f, d) == \A g \in Versions(d, KeyOf(f)) : StampOf(g) <= StampOf(f)

\* What a change stored is still there, and is still the newest version of its file.
IsKept(q, d)  == Stores(q) => \E f \in Files : Holds(q, f, d)
IsOnTop(q, d) == Stores(q) => \E f \in Files : Holds(q, f, d) /\ Newest(f, d)

\* A call that has stored its version and has not been recorded yet.
Stored(r) == r.pc \in {"apply", "audit"}

\* Calls end in the order they began.
IdsInOrder ==
    /\ \A r \in audit : r.id <= calls
    /\ \A c \in Clients : call[c].pc # "idle" =>
         call[c].id = calls /\ \A r \in audit : r.id < calls

\* The last change of a file is kept, on top until the next call stores its own version.
LastChangeIsKept ==
    \A r \in audit : IsLast(r, r.tgt) =>
        /\ IsKept(r, disk)
        /\ IsOnTop(r, disk) \/ \E c \in Clients : Stored(call[c]) /\ call[c].tgt = r.tgt

StoredIsOnTop ==
    \A c \in Clients : Stored(call[c]) => IsOnTop(RecordFor(call[c], "ok"), disk)

\* The backup a write has planned holds what the write overwrites.
HoldsPrevious(r) ==
    /\ r.kind.type = "gzip-diff" => r.kind.blob = ComputeReverseDiff(r.new, r.prev)
    /\ r.kind.reanchored => r.kind.blob # None /\ r.kind.blob = RawBlob(r.prev)

PlanHoldsPrevious ==
    \A c \in Clients : call[c].pc = "store" /\ call[c].op = "write" => HoldsPrevious(call[c])

\* Drift makes a re-anchor snapshot, from the plan of the write to its record.
Reanchors(r) ==
    \A q \in audit : FindsDrift(q, RecordFor(r, "ok")) => r.kind.reanchored

DriftReanchors ==
    /\ \A q, r \in audit : FindsDrift(q, r) => r.reanchored
    /\ \A c \in Clients : call[c].pc \in {"store", "apply", "audit"} => Reanchors(call[c])

InSequence ==
    /\ IdsInOrder /\ LastChangeIsKept /\ StoredIsOnTop
    /\ PlanHoldsPrevious /\ DriftReanchors

=============================================================================
