---------------------------- MODULE BackupStore ----------------------------
(***************************************************************************)
(* The backup store on the server's own disk: backup/store.ts with its     *)
(* pure parts backup/policy.ts and backup/eviction.ts.  Constant-level:    *)
(* every operator takes the disk as a record d = [gz, meta], so that       *)
(* WritePipeline decides which of them happen without interruption.        *)
(*                                                                         *)
(* A target (host, pct, qm or docker file) owns one directory; a version   *)
(* in it is a stamp, with a blob file "<stamp>.gz", a sidecar              *)
(* "<stamp>.meta", or both.  A content stands for the bytes of a file and  *)
(* is its own sha256 (collisions are left out).                            *)
(***************************************************************************)
EXTENDS Naturals, FiniteSets

CONSTANTS
    Targets,             \* backup targets (targetKeyString), one directory each
    KeyRank,             \* Targets -> place in the readdir order of the directory names
    Content,             \* file contents
    Binary,              \* contents with a NUL in the first 8 KB (~isTextContent)
    Large,               \* contents above largeFileBytesThreshold
    Long,                \* contents above MAX_DIFF_LINES lines
    Utf8,                \* Content -> Content: what a round trip through a utf8 string keeps
    MaxStamp,            \* BOUND: stamps the clock can give
    StampGranularity,    \* stamps that new Date(<file stamp>) cannot tell apart
    LargeFilePolicy,     \* cfg.backup.largeFilePolicy
    PerFileVersionCap,   \* cfg.backup.perFileVersionCap
    GlobalSizeCapBytes,  \* cfg.backup.globalSizeCapBytes
    BlobBytes,           \* size of a blob file
    MetaBytes,           \* size of a sidecar
    None                 \* "no content", "no hash", "no file", "undefined"

ASSUME StoreAssumption ==
    /\ IsFiniteSet(Targets) /\ IsFiniteSet(Content)
    /\ KeyRank \in [Targets -> 1 .. Cardinality(Targets)]
    /\ \A j, k \in Targets : KeyRank[j] = KeyRank[k] => j = k
    /\ Binary \subseteq Content /\ Large \subseteq Content /\ Long \subseteq Content
    /\ Utf8 \in [Content -> Content]
    /\ MaxStamp \in Nat
    /\ StampGranularity \in Nat \ {0}
    /\ LargeFilePolicy \in {"diff", "metadata-only"}
    /\ PerFileVersionCap \in Nat /\ GlobalSizeCapBytes \in Nat
    /\ BlobBytes \in Nat /\ MetaBytes \in Nat

Stamps == 1 .. MaxStamp

\* A version of a target: the path <baseDir>/<key>/<stamp> without its extension.
Files == Targets \X Stamps

KeyOf(f)   == f[1]
StampOf(f) == f[2]

\* A blob is raw bytes (base = None) or a reverse diff that yields data when it is
\* applied to base, and to nothing else.
Blob == [base : Content \cup {None}, data : Content]

Meta == [hash       : Content,
         kind       : {"gzip-full", "gzip-diff", "metadata-only"},
         base       : Content \cup {None},     \* requiresBaseHash
         reanchored : BOOLEAN]

ASSUME NoneAssumption ==
    None \notin Targets /\ None \notin Content /\ None \notin Files /\ None \notin Blob /\ None \notin Meta

\* What selectBackupKind decides; at is the existingPath of a dedup.
Kind == [type       : {"dedup", "metadata-only", "gzip-diff", "gzip-full"},
         at         : Files \cup {None},
         blob       : Blob \cup {None},
         reanchored : BOOLEAN]

Disk == [gz : [Files -> Blob \cup {None}], meta : [Files -> Meta \cup {None}]]

EmptyDisk == [gz |-> [f \in Files |-> None], meta |-> [f \in Files |-> None]]

HasBlob(d, f) == d.gz[f] # None
HasMeta(d, f) == d.meta[f] # None

----------------------------------------------------------------------------
(* Backup policy *)

\* computeReverseDiff: lines are compared as utf8 strings, so the bytes that come
\* back are Utf8[prev]; beyond MAX_DIFF_LINES the raw previous bytes are kept.
ComputeReverseDiff(new, prev) ==
    IF new \in Long \/ prev \in Long
    THEN [base |-> None, data |-> prev]
    ELSE [base |-> new, data |-> Utf8[prev]]

RawBlob(c) == [base |-> None, data |-> c]

\* Mutant: the drift check is forgotten.
NeverDrifted(prev, chainBase) == prev # prev /\ chainBase # None

\* driftedSinceLastWrite
Drifted(prev, chainBase) == chainBase # None /\ prev # None /\ prev # chainBase

FullKind(b, re) ==
    [type |-> "gzip-full", at |-> None, blob |-> b, reanchored |-> re]

\* selectBackupKind.  existing maps a content hash to a stored blob or None.
SelectBackupKind(new, prev, existing, chainBase) ==
    CASE existing[new] # None ->
           [type |-> "dedup", at |-> existing[new], blob |-> None, reanchored |-> FALSE]
      [] existing[new] = None /\ new \in Large
         /\ (LargeFilePolicy = "metadata-only" \/ new \in Binary) ->
           [type |-> "metadata-only", at |-> None, blob |-> None, reanchored |-> FALSE]
      [] OTHER ->
           IF prev = None \/ new \in Binary
           THEN FullKind(RawBlob(new), FALSE)
           ELSE IF Drifted(prev, chainBase)
                THEN FullKind(RawBlob(prev), TRUE)
                ELSE [type |-> "gzip-diff", at |-> None,
                      blob |-> ComputeReverseDiff(new, prev), reanchored |-> FALSE]

\* applyReverseDiff: the content a blob yields over the current content, or None
\* where the code throws.
ApplyReverseDiff(blob, current) ==
    IF blob.base = None \/ blob.base = current THEN blob.data ELSE None

----------------------------------------------------------------------------
(* Eviction *)

\* listEntries: blobs and sidecars are entries alike.
ListEntries(d) ==
    {[key |-> KeyOf(f), ts |-> StampOf(f), ext |-> "gz"] : f \in {g \in Files : HasBlob(d, g)}}
    \cup
    {[key |-> KeyOf(f), ts |-> StampOf(f), ext |-> "meta"] : f \in {g \in Files : HasMeta(d, g)}}

\* The sum of sizeBytes: all blobs have one size, and all sidecars.
TotalSize(E) ==
    BlobBytes * Cardinality({e \in E : e.ext = "gz"}) + MetaBytes * Cardinality({e \in E : e.ext = "meta"})

\* readdirSync order: directories by name, then files by name ("gz" < "meta").
DirPrecedes(a, b) ==
    \/ KeyRank[a.key] < KeyRank[b.key]
    \/ /\ a.key = b.key
       /\ \/ a.ts < b.ts
          \/ a.ts = b.ts /\ a.ext = "gz" /\ b.ext = "meta"

\* The stable sort of planEviction.  The stamp in a file name has '-' for ':' and
\* '.', which Date does not read as written: stamps of one granule compare equal
\* and keep the readdir order.
Precedes(a, b) ==
    LET pa == a.ts \div StampGranularity
        pb == b.ts \div StampGranularity
    IN  pa < pb \/ (pa = pb /\ DirPrecedes(a, b))

\* Mutant: one entry too many is kept.
OverFileCapOffByOne(E) ==
    {e \in E : Cardinality({f \in E : f.key = e.key /\ ~Precedes(f, e)}) > PerFileVersionCap + 1}

\* versions.slice(0, excess) of each directory: the entries with at least
\* PerFileVersionCap entries of the same directory behind them.
OverFileCap(E) ==
    {e \in E : Cardinality({f \in E : f.key = e.key /\ ~Precedes(f, e)}) > PerFileVersionCap}

\* The shift loop: an entry goes while it and all behind it exceed the cap.
OverSizeCap(E) ==
    {e \in E : TotalSize({f \in E : ~Precedes(f, e)}) > GlobalSizeCapBytes}

\* planEviction
PlanEviction(d) ==
    LET E    == ListEntries(d)
        file == OverFileCap(E)
        size == OverSizeCap(E \ file)
    IN  [toDelete |-> file \cup size, toKeep |-> E \ (file \cup size)]

\* runEviction
RunEviction(d) ==
    LET keep == PlanEviction(d).toKeep
        Kept(f, x) == [key |-> KeyOf(f), ts |-> StampOf(f), ext |-> x] \in keep
    IN  [gz   |-> [f \in Files |-> IF Kept(f, "gz") THEN d.gz[f] ELSE None],
         meta |-> [f \in Files |-> IF Kept(f, "meta") THEN d.meta[f] ELSE None]]

\* checkDiskPressure with isOverCap
CheckDiskPressure(d) == TotalSize(PlanEviction(d).toKeep) > GlobalSizeCapBytes

----------------------------------------------------------------------------
(* Reading the store *)

\* buildExistingHashMap: over every directory, the last readdir entry wins;
\* re-anchor snapshots and sidecars without their blob are skipped.
BuildExistingHashMap(d) ==
    LET Holders(c) == {f \in Files : /\ HasMeta(d, f) /\ HasBlob(d, f)
                                     /\ d.meta[f].hash = c /\ ~d.meta[f].reanchored}
        After(f, g) == \/ KeyRank[KeyOf(f)] > KeyRank[KeyOf(g)]
                       \/ KeyOf(f) = KeyOf(g) /\ StampOf(f) >= StampOf(g)
    IN  [c \in Content |->
           IF Holders(c) = {} THEN None
           ELSE CHOOSE f \in Holders(c) : \A g \in Holders(c) : After(f, g)]

\* latestBaseHash: the hash of the newest sidecar of the target.
LatestBaseHash(d, k) ==
    LET metas == {t \in Stamps : HasMeta(d, <<k, t>>)}
    IN  IF metas = {} THEN None
        ELSE d.meta[<<k, CHOOSE t \in metas : \A u \in metas : t >= u>>].hash

\* listBackupsForPath: the versions of a target and what each one claims.
Versions(d, k) == {f \in Files : KeyOf(f) = k /\ (HasBlob(d, f) \/ HasMeta(d, f))}

ViewKind(d, f) ==
    IF ~HasBlob(d, f) THEN "metadata-only"
    ELSE IF HasMeta(d, f) THEN d.meta[f].kind ELSE "gzip-full"

ViewBase(d, f) == IF HasBlob(d, f) /\ HasMeta(d, f) THEN d.meta[f].base ELSE None

\* classifyRevertibility, as list_backups applies it to a listed version.
ClassifyRevertible(d, f, current) ==
    /\ ViewKind(d, f) # "metadata-only"
    /\ ViewBase(d, f) = None \/ ViewBase(d, f) = current

\* Mutant: oldest first.
OldestRevertible(d, k) ==
    LET held == {f \in Versions(d, k) : HasBlob(d, f)}
    IN  IF held = {} THEN None
        ELSE CHOOSE f \in held : \A g \in held : StampOf(f) <= StampOf(g)

\* revert_file without backupPath: versions.find(v => v.revertible), newest first,
\* where revertible still means content-bearing.
LatestRevertible(d, k) ==
    LET held == {f \in Versions(d, k) : HasBlob(d, f)}
    IN  IF held = {} THEN None
        ELSE CHOOSE f \in held : \A g \in held : StampOf(f) >= StampOf(g)

\* restore: None where it throws (no such file, stale delta) or returns null.
Restore(d, f, current) ==
    IF HasBlob(d, f) THEN ApplyReverseDiff(d.gz[f], current) ELSE None

----------------------------------------------------------------------------
(* storeBackup *)

\* Mutant: every stored version claims to be self-contained.
MetaForNoBase(kind, hash) ==
    [hash |-> hash, kind |-> kind.type, base |-> None, reanchored |-> kind.reanchored]

\* The sidecar written after the blob: requiresBaseHash is the diff's base.
MetaFor(kind, hash) ==
    [hash       |-> hash,
     kind       |-> kind.type,
     base       |-> IF kind.blob = None THEN None ELSE kind.blob.base,
     reanchored |-> kind.reanchored]

\* Eviction, then the blob (the disk a crash before the sidecar leaves behind).
StoreBlob(d, f, kind) ==
    LET e == RunEviction(d)
    IN  IF kind.blob = None THEN e ELSE [e EXCEPT !.gz[f] = kind.blob]

\* The whole storeBackup; a dedup stores nothing.
StoreBackup(d, f, kind, hash) ==
    LET stored == StoreBlob(d, f, kind)
    IN  IF kind.type = "dedup" THEN stored
        ELSE [stored EXCEPT !.meta[f] = MetaFor(kind, hash)]

\* The path the caller gets back.
ResultPath(kind, f) == IF kind.type = "dedup" THEN kind.at ELSE f
=============================================================================
