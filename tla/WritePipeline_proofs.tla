------------------------ MODULE WritePipeline_proofs -----------------------
(***************************************************************************)
(* Proofs about WritePipeline and the store under it, for every set of     *)
(* clients, targets and contents, every cap and policy, and every choice   *)
(* of faults: first what the operators of BackupStore do, then the         *)
(* invariants of the calls, and last what holds of calls that come one     *)
(* after the other.                                                        *)
(***************************************************************************)
EXTENDS WritePipeline, FiniteSetTheorems, WellFoundedInduction, TLAPS

----------------------------------------------------------------------------
(* Greatest elements: what makes the CHOOSEs of the store well defined *)

\* A non-empty set of naturals up to n has a greatest element.
LEMMA BoundedMax ==
    ASSUME NEW n \in Nat, NEW S, S \subseteq 0 .. n, S # {}
    PROVE  \E m \in S : \A x \in S : x <= m
  <1> DEFINE T == {n - x : x \in S}
             R == OpToRel(<, Nat)
  <1>0. \A x \in S : x \in Nat /\ n - x \in Nat
    <2> HIDE DEF T, R
    <2> QED
      OBVIOUS
  <1>1. T \subseteq Nat /\ T # {}
    <2>1. T \subseteq Nat
      BY <1>0
    <2>2. PICK x \in S : TRUE
      OBVIOUS
    <2>3. n - x \in T
      OBVIOUS
    <2> QED
      BY <2>1, <2>3
  <1>2. PICK y \in T : \A z \in T : ~(<<z, y>> \in R)
    <2>1. IsWellFoundedOn(R, Nat)
      BY NatLessThanWellFounded
    <2> HIDE DEF T, R
    <2> QED
      BY <1>1, <2>1, WFMin
  <1>3. \A z \in T : ~(z < y)
    BY <1>1, <1>2 DEF OpToRel
  <1>4. PICK m \in S : y = n - m
    OBVIOUS
  <1>5. \A x \in S : n - x \in T
    OBVIOUS
  <1> HIDE DEF T, R
  <1>6. \A x \in S : ~(n - x < n - m)
    BY <1>3, <1>4, <1>5
  <1>7. \A x \in S : x <= m
    BY <1>0, <1>4, <1>6
  <1> QED
    BY <1>4, <1>7

\* A set of stamps that is not empty has a newest one.
LEMMA NewestStamp ==
    ASSUME NEW S, S \subseteq Stamps, S # {}
    PROVE  \E m \in S : \A x \in S : m >= x
  <1>1. MaxStamp \in Nat /\ S \subseteq 0 .. MaxStamp
    BY StoreAssumption DEF Stamps
  <1>2. \E m \in S : \A x \in S : x <= m
    BY <1>1, BoundedMax
  <1> QED
    BY <1>1, <1>2

\* Among versions that are not none, one comes last in readdir order:
\* buildExistingHashMap's "last one wins" names a version.
LEMMA LastVersion ==
    ASSUME NEW H, H \subseteq Files, H # {}
    PROVE  \E f \in H : \A g \in H :
             \/ KeyRank[KeyOf(f)] > KeyRank[KeyOf(g)]
             \/ KeyOf(f) = KeyOf(g) /\ StampOf(f) >= StampOf(g)
  <1> USE StoreAssumption
  <1> DEFINE N == Cardinality(Targets)
             ranks == {KeyRank[KeyOf(f)] : f \in H}
  <1>1. N \in Nat
    BY FS_CardinalityType
  <1>2. \A f \in H : KeyOf(f) \in Targets /\ StampOf(f) \in Stamps
    BY DEF Files, KeyOf, StampOf
  <1>3. ranks \subseteq 0 .. N /\ ranks # {}
    BY <1>1, <1>2
  <1>4. PICK r \in ranks : \A x \in ranks : x <= r
    <2> HIDE DEF ranks, N
    <2> QED
      BY <1>1, <1>3, BoundedMax
  <1> DEFINE top == {f \in H : KeyRank[KeyOf(f)] = r}
             stamps == {StampOf(f) : f \in top}
  <1>5. stamps \subseteq Stamps /\ stamps # {}
    BY <1>2, <1>4
  <1>6. PICK m \in stamps : \A x \in stamps : m >= x
    <2> HIDE DEF stamps
    <2> QED
      BY <1>5, NewestStamp
  <1>7. PICK f \in top : StampOf(f) = m
    BY <1>6
  <1>8. ASSUME NEW g \in H
        PROVE  \/ KeyRank[KeyOf(f)] > KeyRank[KeyOf(g)]
               \/ KeyOf(f) = KeyOf(g) /\ StampOf(f) >= StampOf(g)
    <2>1. KeyRank[KeyOf(g)] \in Nat /\ KeyRank[KeyOf(f)] \in Nat
      BY <1>1, <1>2, <1>7
    <2>2. KeyRank[KeyOf(g)] <= r
      BY <1>4
    <2>3. CASE KeyRank[KeyOf(g)] = r
      <3>1. KeyOf(f) = KeyOf(g)
        BY <1>2, <1>7, <2>3
      <3>2. StampOf(g) \in stamps
        BY <2>3
      <3> QED
        BY <1>6, <1>7, <3>1, <3>2
    <2> QED
      BY <1>7, <2>1, <2>2, <2>3
  <1> QED
    BY <1>7, <1>8

----------------------------------------------------------------------------
(* Reading the store *)

\* buildExistingHashMap maps a hash to a stored version or to nothing.
LEMMA HashMapType ==
    ASSUME NEW d
    PROVE  BuildExistingHashMap(d) \in [Content -> Files \cup {None}]
  <1> DEFINE Holders(c) == {f \in Files : /\ HasMeta(d, f) /\ HasBlob(d, f)
                                          /\ d.meta[f].hash = c /\ ~d.meta[f].reanchored}
             After(f, g) == \/ KeyRank[KeyOf(f)] > KeyRank[KeyOf(g)]
                            \/ KeyOf(f) = KeyOf(g) /\ StampOf(f) >= StampOf(g)
             Last(c) == CHOOSE f \in Holders(c) : \A g \in Holders(c) : After(f, g)
  <1>1. ASSUME NEW c \in Content, Holders(c) # {}
        PROVE  Last(c) \in Files
    <2>1. Holders(c) \subseteq Files
      OBVIOUS
    <2>2. \E f \in Holders(c) : \A g \in Holders(c) : After(f, g)
      <3> HIDE DEF Holders
      <3> QED
        BY <1>1, <2>1, LastVersion
    <2> HIDE DEF Holders, After
    <2>3. Last(c) \in Holders(c)
      BY <2>2
    <2> QED
      BY <2>1, <2>3
  <1>2. BuildExistingHashMap(d) = [c \in Content |-> IF Holders(c) = {} THEN None ELSE Last(c)]
    BY DEF BuildExistingHashMap
  <1> HIDE DEF Holders, Last
  <1> QED
    BY <1>1, <1>2

\* versions.find(...) over the newest-first list names a version of the target
\* that holds a blob, or nothing.
LEMMA LatestRevertibleIsAVersion ==
    ASSUME NEW d, NEW k \in Targets, LatestRevertible(d, k) # None
    PROVE  /\ LatestRevertible(d, k) \in Files
           /\ KeyOf(LatestRevertible(d, k)) = k
           /\ HasBlob(d, LatestRevertible(d, k))
  <1> DEFINE H == {f \in Versions(d, k) : HasBlob(d, f)}
             newest == CHOOSE f \in H : \A g \in H : StampOf(f) >= StampOf(g)
  <1>1. H # {} /\ LatestRevertible(d, k) = newest
    BY DEF LatestRevertible
  <1>2. H \subseteq Files /\ \A f \in H : KeyOf(f) = k /\ HasBlob(d, f) /\ StampOf(f) \in Stamps
    BY DEF Versions, Files, StampOf
  <1> DEFINE stamps == {StampOf(f) : f \in H}
  <1>3. stamps \subseteq Stamps /\ stamps # {}
    BY <1>1, <1>2
  <1>4. PICK m \in stamps : \A x \in stamps : m >= x
    <2> HIDE DEF stamps
    <2> QED
      BY <1>3, NewestStamp
  <1>5. \E f \in H : \A g \in H : StampOf(f) >= StampOf(g)
    BY <1>4
  <1> HIDE DEF H
  <1>6. newest \in H
    BY <1>5
  <1> QED
    BY <1>1, <1>2, <1>6

----------------------------------------------------------------------------
(* Policy *)

\* selectBackupKind decides within its type; only the two gzip kinds carry a
\* blob, and what a blob holds is the new content, the previous one, or what a
\* utf8 round trip makes of the previous one.
LEMMA SelectKindIsSound ==
    ASSUME NEW new \in Content, NEW prev \in Content \cup {None},
           NEW existing \in [Content -> Files \cup {None}], NEW chainBase
    PROVE  LET k == SelectBackupKind(new, prev, existing, chainBase)
           IN  /\ k \in Kind
               /\ k.blob # None <=> k.type \in {"gzip-diff", "gzip-full"}
               /\ k.blob # None =>
                    \/ k.blob.data = new
                    \/ prev # None /\ k.blob.data \in {prev, Utf8[prev]}
  <1> USE StoreAssumption, NoneAssumption
  <1> DEFINE k == SelectBackupKind(new, prev, existing, chainBase)
             dedup == [type |-> "dedup", at |-> existing[new], blob |-> None, reanchored |-> FALSE]
             note == [type |-> "metadata-only", at |-> None, blob |-> None, reanchored |-> FALSE]
             delta == [type |-> "gzip-diff", at |-> None,
                       blob |-> ComputeReverseDiff(new, prev), reanchored |-> FALSE]
             Sound(x) == /\ x \in Kind
                         /\ x.blob # None <=> x.type \in {"gzip-diff", "gzip-full"}
                         /\ x.blob # None => \/ x.blob.data = new
                                             \/ prev # None /\ x.blob.data \in {prev, Utf8[prev]}
  <1>1. None \notin Blob
    BY NoneAssumption
  <1>2. ASSUME NEW x \in Content, NEW b \in BOOLEAN
        PROVE  LET full == FullKind(RawBlob(x), b)
               IN  /\ full \in Kind /\ full.type = "gzip-full"
                   /\ full.blob # None /\ full.blob.data = x
    <2>1. RawBlob(x) \in Blob /\ RawBlob(x).data = x
      BY DEF RawBlob, Blob
    <2> QED
      BY <1>1, <2>1 DEF FullKind, Kind
  <1>3. Sound(note) /\ Sound(dedup)
    BY DEF Kind
  <1>4. Sound(FullKind(RawBlob(new), FALSE))
    <2> HIDE DEF k
    <2> QED
      BY <1>2
  <1>5. prev # None => Sound(FullKind(RawBlob(prev), TRUE))
    <2> HIDE DEF k
    <2> QED
      BY <1>2
  <1>6. prev # None => Sound(delta)
    <2> SUFFICES ASSUME prev # None PROVE Sound(delta)
      OBVIOUS
    <2>1. ComputeReverseDiff(new, prev) \in Blob
          /\ ComputeReverseDiff(new, prev).data \in {prev, Utf8[prev]}
      BY DEF ComputeReverseDiff, Blob
    <2>2. delta \in Kind
      BY <2>1 DEF Kind
    <2> QED
      BY <1>1, <2>1, <2>2
  <1>7. \/ k = dedup \/ k = note \/ k = FullKind(RawBlob(new), FALSE)
        \/ prev # None /\ (k = FullKind(RawBlob(prev), TRUE) \/ k = delta)
    <2>1. CASE existing[new] # None
      BY <2>1 DEF SelectBackupKind
    <2>2. CASE existing[new] = None /\ new \in Large
               /\ (LargeFilePolicy = "metadata-only" \/ new \in Binary)
      BY <2>2 DEF SelectBackupKind
    <2>3. CASE existing[new] = None /\ ~(new \in Large
               /\ (LargeFilePolicy = "metadata-only" \/ new \in Binary))
      <3>1. k = IF prev = None \/ new \in Binary THEN FullKind(RawBlob(new), FALSE)
                ELSE IF Drifted(prev, chainBase) THEN FullKind(RawBlob(prev), TRUE) ELSE delta
        BY <2>3 DEF SelectBackupKind
      <3> QED
        BY <3>1
    <2> QED
      BY <2>1, <2>2, <2>3
  <1>8. Sound(k)
    <2> HIDE DEF Sound, dedup, note, delta, k
    <2> QED
      BY <1>3, <1>4, <1>5, <1>6, <1>7
  <1> QED
    BY <1>8

----------------------------------------------------------------------------
(* Storing *)

\* Eviction leaves a version as it is or removes a part of it.
LEMMA EvictionOnlyRemoves ==
    ASSUME NEW d \in Disk
    PROVE  /\ RunEviction(d) \in Disk
           /\ \A f \in Files : /\ RunEviction(d).gz[f] \in {d.gz[f], None}
                               /\ RunEviction(d).meta[f] \in {d.meta[f], None}
  <1> DEFINE keep == PlanEviction(d).toKeep
             Kept(f, x) == [key |-> KeyOf(f), ts |-> StampOf(f), ext |-> x] \in keep
             gz == [f \in Files |-> IF Kept(f, "gz") THEN d.gz[f] ELSE None]
             meta == [f \in Files |-> IF Kept(f, "meta") THEN d.meta[f] ELSE None]
  <1>1. RunEviction(d) = [gz |-> gz, meta |-> meta]
    BY DEF RunEviction
  <1> HIDE DEF Kept
  <1>2. gz \in [Files -> Blob \cup {None}] /\ meta \in [Files -> Meta \cup {None}]
    BY DEF Disk
  <1>3. \A f \in Files : gz[f] \in {d.gz[f], None} /\ meta[f] \in {d.meta[f], None}
    OBVIOUS
  <1> HIDE DEF gz, meta
  <1> QED
    BY <1>1, <1>2, <1>3 DEF Disk

\* What storeBackup does to the disk, with its blob alone or with the sidecar:
\* f gets what the kind says, any other version stays or is evicted.
LEMMA StoreWritesOneVersion ==
    ASSUME NEW d \in Disk, NEW f \in Files, NEW kind \in Kind, NEW hash \in Content
    PROVE  LET b == StoreBlob(d, f, kind)
               s == StoreBackup(d, f, kind, hash)
           IN  /\ b \in Disk /\ (kind.type # "dedup" => s \in Disk)
               /\ kind.type = "dedup" => s = b
               /\ \A g \in Files : g # f => /\ b.gz[g] \in {d.gz[g], None}
                                            /\ s.gz[g] \in {d.gz[g], None}
                                            /\ s.meta[g] \in {d.meta[g], None}
               /\ \A g \in Files : b.meta[g] \in {d.meta[g], None}
               /\ s.gz[f] = b.gz[f]
               /\ kind.blob # None => b.gz[f] = kind.blob
               /\ kind.blob = None => b.gz[f] \in {d.gz[f], None}
               /\ kind.type # "dedup" => s.meta[f] = MetaFor(kind, hash)
  <1> DEFINE e == RunEviction(d)
             b == StoreBlob(d, f, kind)
             s == StoreBackup(d, f, kind, hash)
  <1>1. e \in Disk /\ \A g \in Files : e.gz[g] \in {d.gz[g], None} /\ e.meta[g] \in {d.meta[g], None}
    BY EvictionOnlyRemoves
  <1>2. /\ b \in Disk
        /\ \A g \in Files : b.meta[g] = e.meta[g]
        /\ \A g \in Files : g # f => b.gz[g] = e.gz[g]
        /\ kind.blob # None => b.gz[f] = kind.blob
        /\ kind.blob = None => b.gz[f] = e.gz[f]
    <2> HIDE DEF e
    <2>1. b = IF kind.blob = None THEN e ELSE [e EXCEPT !.gz = [@ EXCEPT ![f] = kind.blob]]
      BY DEF StoreBlob, e
    <2>2. kind.blob \in Blob \cup {None}
      BY DEF Kind
    <2> QED
      BY <1>1, <2>1, <2>2 DEF Disk
  <1>3. kind.type # "dedup" => MetaFor(kind, hash) \in Meta
    BY DEF MetaFor, Meta, Kind, Blob
  <1>4. /\ kind.type = "dedup" => s = b
        /\ kind.type # "dedup" => s = [b EXCEPT !.meta = [@ EXCEPT ![f] = MetaFor(kind, hash)]]
    BY DEF StoreBackup
  <1> HIDE DEF e, b, s
  <1>5. /\ s.gz = b.gz
        /\ kind.type # "dedup" => s \in Disk /\ s.meta[f] = MetaFor(kind, hash)
        /\ \A g \in Files : g # f => s.meta[g] = b.meta[g]
    BY <1>2, <1>3, <1>4 DEF Disk
  <1>6. \A g \in Files : g # f => /\ b.gz[g] \in {d.gz[g], None}
                                  /\ s.gz[g] \in {d.gz[g], None}
                                  /\ s.meta[g] \in {d.meta[g], None}
    BY <1>1, <1>2, <1>5
  <1> QED
    BY <1>1, <1>2, <1>4, <1>5, <1>6 DEF b, s

\* restore yields a content or nothing, and what it yields is in the blob.
LEMMA RestoreYieldsTheBlob ==
    ASSUME NEW d \in Disk, NEW f \in Files, NEW current
    PROVE  /\ Restore(d, f, current) \in Content \cup {None}
           /\ Restore(d, f, current) # None => HasBlob(d, f) /\ Restore(d, f, current) = d.gz[f].data
  <1>1. HasBlob(d, f) => d.gz[f] \in Blob
    BY DEF Disk, HasBlob
  <1> QED
    BY <1>1, NoneAssumption DEF Restore, ApplyReverseDiff, Blob

----------------------------------------------------------------------------
(* Eviction meets the caps *)

\* A blob file or a sidecar.
Entry == [key : Targets, ts : Stamps, ext : {"gz", "meta"}]

LEMMA EntriesAreFinite == IsFiniteSet(Entry)
  <1> DEFINE box == (Targets \X Stamps) \X {"gz", "meta"}
             entry == [x \in box |-> [key |-> x[1][1], ts |-> x[1][2], ext |-> x[2]]]
  <1>1. IsFiniteSet(Targets) /\ IsFiniteSet(Stamps) /\ IsFiniteSet({"gz", "meta"})
    <2>1. IsFiniteSet(Stamps)
      BY StoreAssumption, FS_Interval DEF Stamps
    <2>2. IsFiniteSet({"gz"} \cup {"meta"})
      BY FS_Singleton, FS_AddElement
    <2>3. {"gz"} \cup {"meta"} = {"gz", "meta"}
      OBVIOUS
    <2> QED
      BY <2>1, <2>2, <2>3, StoreAssumption
  <1>2. IsFiniteSet(box)
    BY <1>1, FS_Product
  <1>3. entry \in [box -> Entry]
    BY DEF Entry
  <1>4. \A e \in Entry : \E x \in box : entry[x] = e
    <2> SUFFICES ASSUME NEW e \in Entry PROVE \E x \in box : entry[x] = e
      OBVIOUS
    <2>1. <<<<e.key, e.ts>>, e.ext>> \in box
      BY DEF Entry
    <2>2. entry[<<<<e.key, e.ts>>, e.ext>>] = e
      BY <2>1 DEF Entry
    <2> QED
      BY <2>1, <2>2
  <1>5. entry \in Surjection(box, Entry)
    BY <1>3, <1>4 DEF Surjection
  <1> HIDE DEF box, entry
  <1> QED
    BY <1>2, <1>5, FS_Surjection

\* What listEntries lists.
LEMMA ListEntriesType ==
    ASSUME NEW d
    PROVE  ListEntries(d) \subseteq Entry
  BY DEF ListEntries, Entry, Files, KeyOf, StampOf

\* The order of planEviction is one: nothing comes before itself, and what comes before
\* something that comes before a third comes before that as well.
LEMMA PrecedesIsAnOrder ==
    ASSUME NEW a \in Entry, NEW b \in Entry, NEW c \in Entry
    PROVE  /\ ~Precedes(a, a)
           /\ Precedes(a, b) /\ Precedes(b, c) => Precedes(a, c)
  <1> DEFINE pa == a.ts \div StampGranularity
             pb == b.ts \div StampGranularity
             pc == c.ts \div StampGranularity
  <1>1. /\ a.ts \in Nat /\ b.ts \in Nat /\ c.ts \in Nat
        /\ a.key \in Targets /\ b.key \in Targets /\ c.key \in Targets
        /\ a.ext \in {"gz", "meta"} /\ b.ext \in {"gz", "meta"} /\ c.ext \in {"gz", "meta"}
    BY StoreAssumption DEF Entry, Stamps
  <1>2. pa \in Int /\ pb \in Int /\ pc \in Int
    BY <1>1, StoreAssumption
  <1>3. \A k \in Targets : KeyRank[k] \in Int
    <2>1. Cardinality(Targets) \in Nat
      BY StoreAssumption, FS_CardinalityType
    <2> QED
      BY <2>1, StoreAssumption
  <1>4. ~DirPrecedes(a, a)
    BY <1>1, <1>3 DEF DirPrecedes
  <1>5. DirPrecedes(a, b) /\ DirPrecedes(b, c) => DirPrecedes(a, c)
    BY <1>1, <1>3 DEF DirPrecedes
  <1>6. /\ Precedes(a, a) <=> pa < pa \/ (pa = pa /\ DirPrecedes(a, a))
        /\ Precedes(a, b) <=> pa < pb \/ (pa = pb /\ DirPrecedes(a, b))
        /\ Precedes(b, c) <=> pb < pc \/ (pb = pc /\ DirPrecedes(b, c))
        /\ Precedes(a, c) <=> pa < pc \/ (pa = pc /\ DirPrecedes(a, c))
    BY DEF Precedes
  <1> HIDE DEF pa, pb, pc
  <1> QED
    BY <1>2, <1>4, <1>5, <1>6

\* Among entries that are not none, one comes first.
LEMMA FirstEntry ==
    ASSUME NEW S, S \subseteq Entry, S # {}
    PROVE  \E e \in S : \A f \in S : ~Precedes(f, e)
  <1> DEFINE From(e) == {f \in S : ~Precedes(f, e)}
             counts == {Cardinality(From(e)) : e \in S}
             n == Cardinality(S)
  <1>1. IsFiniteSet(S) /\ n \in Nat
    BY EntriesAreFinite, FS_Subset, FS_CardinalityType
  <1>2. \A e \in S : /\ From(e) \subseteq S /\ IsFiniteSet(From(e))
                     /\ Cardinality(From(e)) \in Nat /\ Cardinality(From(e)) <= n
    <2> SUFFICES ASSUME NEW e \in S
                 PROVE  /\ From(e) \subseteq S /\ IsFiniteSet(From(e))
                        /\ Cardinality(From(e)) \in Nat /\ Cardinality(From(e)) <= n
      OBVIOUS
    <2>1. From(e) \in SUBSET S
      OBVIOUS
    <2> HIDE DEF From
    <2> QED
      BY <1>1, <2>1, FS_Subset, FS_CardinalityType
  <1>3. \E m \in counts : \A x \in counts : x <= m
    <2>1. counts \subseteq 0 .. n /\ counts # {}
      <3> HIDE DEF From, n
      <3> QED
        BY <1>1, <1>2
    <2> HIDE DEF counts, n
    <2> QED
      BY <1>1, <2>1, BoundedMax
  <1>4. PICK e \in S : \A f \in S : Cardinality(From(f)) <= Cardinality(From(e))
    <2> HIDE DEF From
    <2> QED
      BY <1>3
  <1>5. ASSUME NEW f \in S, Precedes(f, e)
        PROVE  FALSE
    <2>1. From(e) \in SUBSET From(f)
      BY <1>5, PrecedesIsAnOrder
    <2>2. f \in From(f) /\ f \notin From(e)
      BY <1>5, PrecedesIsAnOrder
    <2> HIDE DEF From
    <2>3. /\ IsFiniteSet(From(f)) /\ Cardinality(From(e)) <= Cardinality(From(f))
          /\ Cardinality(From(f)) = Cardinality(From(e)) => From(f) = From(e)
      BY <1>2, <2>1, FS_Subset
    <2>4. Cardinality(From(f)) \in Nat /\ Cardinality(From(e)) \in Nat
      BY <1>2
    <2> QED
      BY <1>4, <2>2, <2>3, <2>4
  <1> QED
    BY <1>4, <1>5

LEMMA ProductGrows ==
    ASSUME NEW b \in Nat, NEW m \in Nat, NEW n \in Nat, m <= n
    PROVE  b * m <= b * n /\ b * m \in Nat
  <1>1. b * n = b * m + b * (n - m) /\ b * (n - m) >= 0 /\ b * m >= 0
    OBVIOUS
  <1> QED
    BY <1>1

LEMMA SizeGrows ==
    ASSUME NEW T, IsFiniteSet(T), NEW S \in SUBSET T
    PROVE  TotalSize(S) <= TotalSize(T) /\ TotalSize(S) \in Nat /\ TotalSize(T) \in Nat
  <1> DEFINE Of(X, x) == {e \in X : e.ext = x}
  <1>1. ASSUME NEW x
        PROVE  /\ Cardinality(Of(S, x)) <= Cardinality(Of(T, x))
               /\ Cardinality(Of(S, x)) \in Nat /\ Cardinality(Of(T, x)) \in Nat
    <2>1. Of(T, x) \in SUBSET T /\ Of(S, x) \in SUBSET Of(T, x)
      OBVIOUS
    <2> HIDE DEF Of
    <2>2. IsFiniteSet(Of(T, x))
      BY <2>1, FS_Subset
    <2>3. IsFiniteSet(Of(S, x)) /\ Cardinality(Of(S, x)) <= Cardinality(Of(T, x))
      BY <2>1, <2>2, FS_Subset
    <2> QED
      BY <2>2, <2>3, FS_CardinalityType
  <1>2. /\ TotalSize(S) = BlobBytes * Cardinality(Of(S, "gz")) + MetaBytes * Cardinality(Of(S, "meta"))
        /\ TotalSize(T) = BlobBytes * Cardinality(Of(T, "gz")) + MetaBytes * Cardinality(Of(T, "meta"))
    BY DEF TotalSize
  <1> HIDE DEF Of
  <1>3. /\ BlobBytes * Cardinality(Of(S, "gz")) <= BlobBytes * Cardinality(Of(T, "gz"))
        /\ MetaBytes * Cardinality(Of(S, "meta")) <= MetaBytes * Cardinality(Of(T, "meta"))
        /\ BlobBytes * Cardinality(Of(S, "gz")) \in Nat /\ MetaBytes * Cardinality(Of(S, "meta")) \in Nat
    BY <1>1, ProductGrows, StoreAssumption
  <1>4. BlobBytes * Cardinality(Of(T, "gz")) \in Nat /\ MetaBytes * Cardinality(Of(T, "meta")) \in Nat
    BY <1>1, ProductGrows, StoreAssumption
  <1> QED
    BY <1>2, <1>3, <1>4

\* What a plan keeps is within both caps.
LEMMA KeptIsBounded ==
    ASSUME NEW d
    PROVE  LET keep == PlanEviction(d).toKeep
           IN  /\ keep \subseteq ListEntries(d)
               /\ \A k : Cardinality({e \in keep : e.key = k}) <= PerFileVersionCap
               /\ TotalSize(keep) <= GlobalSizeCapBytes
  <1> DEFINE E == ListEntries(d)
             rest == E \ OverFileCap(E)
             keep == PlanEviction(d).toKeep
  <1>1. E \subseteq Entry /\ IsFiniteSet(E)
    BY ListEntriesType, EntriesAreFinite, FS_Subset
  <1>2. keep = rest \ OverSizeCap(rest) /\ keep \subseteq rest /\ rest \subseteq E
    BY DEF PlanEviction, OverSizeCap
  <1>3. IsFiniteSet(rest)
    BY <1>1, <1>2, FS_Subset
  <1> HIDE DEF keep
  <1>4. ASSUME NEW k
        PROVE  Cardinality({e \in keep : e.key = k}) <= PerFileVersionCap
    <2> DEFINE own == {e \in keep : e.key = k}
    <2>1. CASE own = {}
      <3> HIDE DEF own
      <3>1. Cardinality(own) = 0
        BY <2>1, FS_EmptySet
      <3> QED
        BY <3>1, StoreAssumption DEF own
    <2>2. CASE own # {}
      <3>1. own \subseteq Entry
        BY <1>1, <1>2
      <3>2. PICK e \in own : \A f \in own : ~Precedes(f, e)
        <4> HIDE DEF own
        <4> QED
          BY <2>2, <3>1, FirstEntry
      <3> DEFINE from == {f \in E : f.key = e.key /\ ~Precedes(f, e)}
      <3>3. own \in SUBSET from /\ from \in SUBSET E
        BY <1>2, <3>2
      <3>4. ~(Cardinality(from) > PerFileVersionCap)
        BY <1>2, <3>2 DEF OverFileCap
      <3> HIDE DEF own, from
      <3>5. IsFiniteSet(from) /\ Cardinality(from) \in Nat
        BY <1>1, <3>3, FS_Subset, FS_CardinalityType
      <3>6. Cardinality(own) <= Cardinality(from) /\ Cardinality(own) \in Nat
        BY <3>3, <3>5, FS_Subset, FS_CardinalityType
      <3> QED
        BY <3>4, <3>5, <3>6, StoreAssumption DEF own
    <2> QED
      BY <2>1, <2>2
  <1>5. TotalSize(keep) <= GlobalSizeCapBytes
    <2>1. CASE keep = {}
      <3> DEFINE none == {}
      <3>1. Cardinality(none) = 0 /\ {e \in none : e.ext = "gz"} = none /\ {e \in none : e.ext = "meta"} = none
        BY FS_EmptySet
      <3>2. TotalSize(none) = BlobBytes * Cardinality(none) + MetaBytes * Cardinality(none)
        BY <3>1 DEF TotalSize
      <3> HIDE DEF none
      <3>3. TotalSize(none) = 0
        BY <3>1, <3>2, StoreAssumption
      <3> QED
        BY <2>1, <3>3, StoreAssumption DEF none
    <2>2. CASE keep # {}
      <3>1. PICK e \in keep : \A f \in keep : ~Precedes(f, e)
        BY <1>1, <1>2, <2>2, FirstEntry
      <3> DEFINE from == {f \in rest : ~Precedes(f, e)}
      <3>2. keep \in SUBSET from /\ from \in SUBSET rest
        BY <1>2, <3>1
      <3>3. ~(TotalSize(from) > GlobalSizeCapBytes)
        BY <1>2, <3>1 DEF OverSizeCap
      <3> HIDE DEF from
      <3>4. IsFiniteSet(from)
        BY <1>3, <3>2, FS_Subset
      <3>5. TotalSize(keep) <= TotalSize(from) /\ TotalSize(keep) \in Nat /\ TotalSize(from) \in Nat
        BY <3>2, <3>4, SizeGrows
      <3> QED
        BY <3>3, <3>5, StoreAssumption
    <2> QED
      BY <2>1, <2>2
  <1> QED
    BY <1>2, <1>4, <1>5 DEF keep

LEMMA OneMore ==
    ASSUME NEW S, IsFiniteSet(S), NEW x
    PROVE  /\ IsFiniteSet(S \cup {x}) /\ Cardinality(S) \in Nat /\ Cardinality(S \cup {x}) \in Nat
           /\ Cardinality(S \cup {x}) <= Cardinality(S) + 1
  <1> DEFINE n == Cardinality(S)
             t == Cardinality(S \cup {x})
  <1>1. IsFiniteSet(S \cup {x}) /\ (t = IF x \in S THEN n ELSE n + 1)
    BY FS_AddElement
  <1>2. n \in Nat
    BY FS_CardinalityType
  <1> HIDE DEF n, t
  <1>3. t \in Nat /\ t <= n + 1
    BY <1>1, <1>2
  <1> QED
    BY <1>1, <1>2, <1>3 DEF n, t

\* Two entries more, a blob and its sidecar, add at most their number and their sizes.
LEMMA TwoMore ==
    ASSUME NEW S, IsFiniteSet(S), NEW b, b.ext = "gz", NEW m, m.ext = "meta"
    PROVE  /\ \A k : Cardinality({e \in S \cup {b, m} : e.key = k})
                     <= Cardinality({e \in S : e.key = k}) + 2
           /\ TotalSize(S \cup {b, m}) <= TotalSize(S) + BlobBytes + MetaBytes
  <1> DEFINE T == S \cup {b, m}
  <1>1. ASSUME NEW U \in SUBSET S, NEW V, V \subseteq U \cup {b, m}
        PROVE  /\ Cardinality(V) <= Cardinality(U) + 2
               /\ Cardinality(V) \in Nat /\ Cardinality(U) \in Nat /\ IsFiniteSet(V)
    <2>1. IsFiniteSet(U) /\ Cardinality(U) \in Nat
      BY FS_Subset, FS_CardinalityType
    <2> DEFINE W == U \cup {b}
               X == W \cup {m}
    <2>2. IsFiniteSet(W) /\ Cardinality(W) \in Nat /\ Cardinality(W) <= Cardinality(U) + 1
      BY <2>1, OneMore
    <2>3. V \in SUBSET X
      BY <1>1
    <2> HIDE DEF W
    <2>4. IsFiniteSet(X) /\ Cardinality(X) \in Nat /\ Cardinality(X) <= Cardinality(W) + 1
      BY <2>2, OneMore
    <2> HIDE DEF X
    <2>5. Cardinality(V) <= Cardinality(X) /\ IsFiniteSet(V) /\ Cardinality(V) \in Nat
      BY <2>3, <2>4, FS_Subset, FS_CardinalityType
    <2> QED
      BY <2>1, <2>2, <2>4, <2>5
  <1>2. ASSUME NEW k
        PROVE  Cardinality({e \in T : e.key = k}) <= Cardinality({e \in S : e.key = k}) + 2
    <2>1. {e \in S : e.key = k} \in SUBSET S
          /\ {e \in T : e.key = k} \subseteq {e \in S : e.key = k} \cup {b, m}
      OBVIOUS
    <2> QED
      BY <1>1, <2>1
  <1>3. ASSUME NEW x \in {"gz", "meta"}, NEW g, g = IF x = "gz" THEN b ELSE m
        PROVE  /\ Cardinality({e \in T : e.ext = x}) <= Cardinality({e \in S : e.ext = x}) + 1
               /\ Cardinality({e \in T : e.ext = x}) \in Nat /\ Cardinality({e \in S : e.ext = x}) \in Nat
    <2> DEFINE U == {e \in S : e.ext = x}
               V == {e \in T : e.ext = x}
    <2>1. V \in SUBSET (U \cup {g}) /\ U \in SUBSET S
      BY <1>3
    <2> HIDE DEF U, V
    <2>2. IsFiniteSet(U) /\ Cardinality(U) \in Nat
      BY <2>1, FS_Subset, FS_CardinalityType
    <2>3. IsFiniteSet(U \cup {g}) /\ Cardinality(U \cup {g}) \in Nat /\ Cardinality(U \cup {g}) <= Cardinality(U) + 1
      BY <2>2, OneMore
    <2>4. Cardinality(V) <= Cardinality(U \cup {g}) /\ Cardinality(V) \in Nat
      BY <2>1, <2>3, FS_Subset, FS_CardinalityType
    <2> QED
      BY <2>2, <2>3, <2>4 DEF U, V
  <1> DEFINE gs == Cardinality({e \in S : e.ext = "gz"})
             ms == Cardinality({e \in S : e.ext = "meta"})
             gt == Cardinality({e \in T : e.ext = "gz"})
             mt == Cardinality({e \in T : e.ext = "meta"})
  <1>4. /\ gt <= gs + 1 /\ gt \in Nat /\ gs \in Nat
        /\ mt <= ms + 1 /\ mt \in Nat /\ ms \in Nat
    BY <1>3
  <1>5. TotalSize(S) = BlobBytes * gs + MetaBytes * ms /\ TotalSize(T) = BlobBytes * gt + MetaBytes * mt
    BY DEF TotalSize
  <1> HIDE DEF gs, ms, gt, mt, T
  <1>6. /\ BlobBytes * gt <= BlobBytes * (gs + 1) /\ MetaBytes * mt <= MetaBytes * (ms + 1)
        /\ BlobBytes * gt \in Nat /\ MetaBytes * mt \in Nat
    <2>1. gs + 1 \in Nat /\ ms + 1 \in Nat
      BY <1>4
    <2> QED
      BY <1>4, <2>1, ProductGrows, StoreAssumption
  <1>7. /\ BlobBytes * (gs + 1) = BlobBytes * gs + BlobBytes
        /\ MetaBytes * (ms + 1) = MetaBytes * ms + MetaBytes
        /\ BlobBytes * gs \in Nat /\ MetaBytes * ms \in Nat
    BY <1>4, StoreAssumption
  <1>8. TotalSize(T) <= TotalSize(S) + BlobBytes + MetaBytes
    BY <1>5, <1>6, <1>7, StoreAssumption
  <1> QED
    BY <1>2, <1>8 DEF T

\* A directory and the store are over their caps by one version at most.
WithinCaps(d) ==
    LET E == ListEntries(d)
    IN  /\ \A k \in Targets : Cardinality({e \in E : e.key = k}) <= PerFileVersionCap + 2
        /\ TotalSize(E) <= GlobalSizeCapBytes + BlobBytes + MetaBytes

\* Whatever the store held before, storeBackup leaves it within the caps and one version.
LEMMA StoreStaysBounded ==
    ASSUME NEW d \in Disk, NEW f \in Files, NEW kind, NEW hash
    PROVE  WithinCaps(StoreBlob(d, f, kind)) /\ WithinCaps(StoreBackup(d, f, kind, hash))
  <1> DEFINE e == RunEviction(d)
             keep == PlanEviction(d).toKeep
             b == [key |-> KeyOf(f), ts |-> StampOf(f), ext |-> "gz"]
             m == [key |-> KeyOf(f), ts |-> StampOf(f), ext |-> "meta"]
             All == keep \cup {b, m}
  <1>1. /\ keep \subseteq Entry /\ IsFiniteSet(keep)
        /\ \A k : Cardinality({x \in keep : x.key = k}) <= PerFileVersionCap
        /\ TotalSize(keep) <= GlobalSizeCapBytes
    BY KeptIsBounded, ListEntriesType, EntriesAreFinite, FS_Subset
  <1>2. IsFiniteSet(All) /\ All = (keep \cup {b}) \cup {m}
    <2>1. IsFiniteSet(keep \cup {b})
      BY <1>1, FS_AddElement
    <2>2. IsFiniteSet((keep \cup {b}) \cup {m})
      BY <2>1, FS_AddElement
    <2>3. All = (keep \cup {b}) \cup {m}
      OBVIOUS
    <2> QED
      BY <2>2, <2>3
  <1>3. /\ b.ext = "gz" /\ m.ext = "meta"
        /\ \A g \in Files : /\ e.gz[g] # None
                               => [key |-> KeyOf(g), ts |-> StampOf(g), ext |-> "gz"] \in keep
                            /\ e.meta[g] # None
                               => [key |-> KeyOf(g), ts |-> StampOf(g), ext |-> "meta"] \in keep
    BY DEF RunEviction
  <1>4. /\ \A k : Cardinality({x \in All : x.key = k}) <= PerFileVersionCap + 2
        /\ TotalSize(All) <= GlobalSizeCapBytes + BlobBytes + MetaBytes
    <2> HIDE DEF keep, b, m
    <2>1. /\ \A k : Cardinality({x \in All : x.key = k}) <= Cardinality({x \in keep : x.key = k}) + 2
          /\ TotalSize(All) <= TotalSize(keep) + BlobBytes + MetaBytes
      BY <1>1, <1>3, TwoMore
    <2>2. TotalSize(All) \in Nat /\ TotalSize(keep) \in Nat
      BY <1>2, SizeGrows
    <2>3. \A k : /\ Cardinality({x \in All : x.key = k}) \in Nat
                 /\ Cardinality({x \in keep : x.key = k}) \in Nat
      <3> SUFFICES ASSUME NEW k
                   PROVE  /\ Cardinality({x \in All : x.key = k}) \in Nat
                          /\ Cardinality({x \in keep : x.key = k}) \in Nat
        OBVIOUS
      <3>1. {x \in All : x.key = k} \in SUBSET All /\ {x \in keep : x.key = k} \in SUBSET keep
        OBVIOUS
      <3> QED
        BY <1>1, <1>2, <3>1, FS_Subset, FS_CardinalityType
    <2>4. \A k : Cardinality({x \in All : x.key = k}) <= PerFileVersionCap + 2
      <3> SUFFICES ASSUME NEW k
                   PROVE  Cardinality({x \in All : x.key = k}) <= PerFileVersionCap + 2
        OBVIOUS
      <3> DEFINE na == Cardinality({x \in All : x.key = k})
                 nk == Cardinality({x \in keep : x.key = k})
      <3>1. na <= nk + 2 /\ nk <= PerFileVersionCap /\ na \in Nat /\ nk \in Nat
        BY <1>1, <2>1, <2>3
      <3> HIDE DEF na, nk
      <3>2. na <= PerFileVersionCap + 2
        BY <3>1, StoreAssumption
      <3> QED
        BY <3>2 DEF na
    <2>5. TotalSize(All) <= GlobalSizeCapBytes + BlobBytes + MetaBytes
      <3> DEFINE ta == TotalSize(All)
                 tk == TotalSize(keep)
      <3>1. ta <= tk + BlobBytes + MetaBytes /\ tk <= GlobalSizeCapBytes /\ ta \in Nat /\ tk \in Nat
        BY <1>1, <2>1, <2>2
      <3> HIDE DEF ta, tk
      <3>2. ta <= GlobalSizeCapBytes + BlobBytes + MetaBytes
        BY <3>1, StoreAssumption
      <3> QED
        BY <3>2 DEF ta
    <2> HIDE DEF All
    <2> QED
      BY <2>4, <2>5
  <1>5. ASSUME NEW s, \A g \in Files \ {f} : s.gz[g] = e.gz[g] /\ s.meta[g] = e.meta[g]
        PROVE  WithinCaps(s)
    <2> DEFINE E == ListEntries(s)
    <2>1. E \subseteq All
      BY <1>3, <1>5 DEF ListEntries, HasBlob, HasMeta
    <2> HIDE DEF E, All
    <2>2. TotalSize(E) <= TotalSize(All) /\ TotalSize(E) \in Nat /\ TotalSize(All) \in Nat
      BY <1>2, <2>1, SizeGrows
    <2>3. ASSUME NEW k
          PROVE  Cardinality({x \in E : x.key = k}) <= PerFileVersionCap + 2
      <3> DEFINE own == {x \in E : x.key = k}
                 all == {x \in All : x.key = k}
      <3>1. own \in SUBSET all /\ all \in SUBSET All
        BY <2>1
      <3>2. Cardinality(all) <= PerFileVersionCap + 2
        BY <1>4
      <3> HIDE DEF own, all
      <3>3. Cardinality(own) <= Cardinality(all) /\ Cardinality(own) \in Nat /\ Cardinality(all) \in Nat
        BY <1>2, <3>1, FS_Subset, FS_CardinalityType
      <3> QED
        BY <3>2, <3>3, StoreAssumption DEF own
    <2>4. TotalSize(E) <= GlobalSizeCapBytes + BlobBytes + MetaBytes
      BY <1>4, <2>2, StoreAssumption
    <2> QED
      BY <2>3, <2>4 DEF WithinCaps, E
  <1>6. /\ DOMAIN e.gz = Files /\ DOMAIN e.meta = Files
        /\ e = [gz |-> e.gz, meta |-> e.meta]
    BY DEF RunEviction
  <1> HIDE DEF e, keep, b, m, All
  <1> DEFINE blob == StoreBlob(d, f, kind)
             full == StoreBackup(d, f, kind, hash)
  <1>7. \A g \in Files \ {f} : blob.gz[g] = e.gz[g] /\ blob.meta[g] = e.meta[g]
    <2>1. blob = IF kind.blob = None THEN e ELSE [e EXCEPT !.gz = [@ EXCEPT ![f] = kind.blob]]
      BY DEF StoreBlob, e
    <2> HIDE DEF blob
    <2> QED
      BY <1>6, <2>1
  <1>8. \A g \in Files \ {f} : full.gz[g] = e.gz[g] /\ full.meta[g] = e.meta[g]
    <2>1. full = IF kind.type = "dedup" THEN blob ELSE [blob EXCEPT !.meta = [@ EXCEPT ![f] = MetaFor(kind, hash)]]
      BY DEF StoreBackup
    <2>2. e \in Disk
      BY EvictionOnlyRemoves DEF e
    <2>3. /\ DOMAIN blob.gz = Files /\ DOMAIN blob.meta = Files /\ DOMAIN blob = {"gz", "meta"}
      <3>1. blob = IF kind.blob = None THEN e ELSE [e EXCEPT !.gz = [@ EXCEPT ![f] = kind.blob]]
        BY DEF StoreBlob, e
      <3> HIDE DEF blob
      <3> QED
        BY <2>2, <3>1 DEF Disk
    <2> HIDE DEF blob, full
    <2> QED
      BY <1>7, <2>1, <2>3
  <1> HIDE DEF blob, full
  <1>9. WithinCaps(blob) /\ WithinCaps(full)
    BY <1>5, <1>7, <1>8
  <1> QED
    BY <1>9 DEF blob, full

\* So does an empty store.
LEMMA EmptyIsWithinCaps == WithinCaps(EmptyDisk)
  <1> DEFINE none == {}
  <1>1. ListEntries(EmptyDisk) = none
    BY DEF ListEntries, EmptyDisk, HasBlob, HasMeta
  <1>2. /\ Cardinality(none) = 0 /\ {e \in none : e.ext = "gz"} = none /\ {e \in none : e.ext = "meta"} = none
        /\ \A k : {e \in none : e.key = k} = none
    BY FS_EmptySet
  <1>3. TotalSize(none) = BlobBytes * Cardinality(none) + MetaBytes * Cardinality(none)
    BY <1>2 DEF TotalSize
  <1> HIDE DEF none
  <1>4. TotalSize(none) <= GlobalSizeCapBytes + BlobBytes + MetaBytes
    BY <1>2, <1>3, StoreAssumption
  <1>5. \A k : Cardinality({e \in none : e.key = k}) <= PerFileVersionCap + 2
    <2> SUFFICES ASSUME NEW k
                 PROVE  Cardinality({e \in none : e.key = k}) <= PerFileVersionCap + 2
      OBVIOUS
    <2> DEFINE own == {e \in none : e.key = k}
    <2>1. own = none
      BY <1>2
    <2> HIDE DEF own
    <2>2. Cardinality(own) = 0
      BY <1>2, <2>1
    <2>3. Cardinality(own) <= PerFileVersionCap + 2
      BY <2>2, StoreAssumption
    <2> QED
      BY <2>3 DEF own
  <1> QED
    BY <1>1, <1>4, <1>5 DEF WithinCaps

----------------------------------------------------------------------------
(* Facts that do not depend on the action *)

\* The contents a file has held are never forgotten.
HeldGrows ==
    /\ held' \in [Targets -> SUBSET Content]
    /\ \A k \in Targets : held[k] \subseteq held'[k]

\* With more contents held, what counted as a file's own content still does.
LEMMA OwnContentGrows ==
    ASSUME HeldGrows, NEW k \in Targets
    PROVE  OwnContent(k) \subseteq OwnContent(k)'
  BY DEF HeldGrows, OwnContent

\* The empty slot is a call.
LEMMA IdleIsACall == Idle \in Call /\ Idle.pc = "idle"
  <1>1. NoKind \in Kind
    BY DEF NoKind, Kind
  <1> QED
    BY <1>1 DEF Idle, Call

\* Soundness of a call in flight survives when more contents have been held.
LEMMA SoundnessGrows ==
    ASSUME HeldGrows, NEW r \in Call, CallIsSound(r)
    PROVE  CallIsSound(r)'
  <1>1. r.tgt \in Targets /\ (r.op = "revert" => KeyOf(r.at) \in Targets)
    BY DEF CallIsSound, KeyOf, Files
  <1>2. /\ held[r.tgt] \subseteq held'[r.tgt]
        /\ OwnContent(r.tgt) \subseteq OwnContent(r.tgt)'
        /\ r.op = "revert" => OwnContent(KeyOf(r.at)) \subseteq OwnContent(KeyOf(r.at))'
    BY <1>1, OwnContentGrows DEF HeldGrows
  <1> HIDE DEF HeldGrows
  <1> QED
    BY <1>2 DEF CallIsSound

\* A step of one client that leaves its own call sound leaves every call sound.
LEMMA StepKeepsCalls ==
    ASSUME IInv, HeldGrows, NEW c \in Clients, NEW r \in Call, Step(c, r),
           r.pc # "idle" => CallIsSound(r)'
    PROVE  call' \in [Clients -> Call] /\ CallsAreSound'
  <1>1. call \in [Clients -> Call] /\ call' = [call EXCEPT ![c] = r]
    BY DEF IInv, TypeOK, Step
  <1>2. call' \in [Clients -> Call]
    BY <1>1
  <1>3. ASSUME NEW d \in Clients, call'[d].pc # "idle"
        PROVE  CallIsSound(call[d])'
    <2>1. CASE d = c
      <3>1. call'[d] = r
        BY <1>1, <2>1
      <3> QED
        BY <1>3, <3>1 DEF CallIsSound
    <2>2. CASE d # c
      <3>1. PICK q \in Call : q = call[d]
        BY <1>1
      <3>2. call'[d] = q
        BY <1>1, <2>2, <3>1
      <3>3. CallIsSound(q)
        BY <1>3, <3>1, <3>2 DEF IInv, CallsAreSound
      <3>4. CallIsSound(q)'
        BY <3>3, SoundnessGrows
      <3> QED
        BY <3>2, <3>4 DEF CallIsSound
    <2> QED
      BY <2>1, <2>2
  <1> QED
    BY <1>2, <1>3 DEF CallsAreSound

\* A step that leaves the disk alone keeps what is invariant of it.
LEMMA DiskUntouched ==
    ASSUME IInv, HeldGrows, disk' = disk, stamp' = stamp
    PROVE  FutureIsEmpty' /\ SidecarsMatch' /\ BlobsAreOwn'
  <1>1. FutureIsEmpty' /\ SidecarsMatch'
    BY DEF IInv, FutureIsEmpty, SidecarsMatch, HasBlob, HasMeta
  <1>2. \A f \in Files : KeyOf(f) \in Targets
    BY DEF Files, KeyOf
  <1>3. BlobsAreOwn'
    <2> SUFFICES ASSUME NEW f \in Files, HasBlob(disk, f)
                 PROVE  disk.gz[f].data \in OwnContent(KeyOf(f))'
      BY DEF BlobsAreOwn, HasBlob
    <2>1. disk.gz[f].data \in OwnContent(KeyOf(f))
      BY DEF IInv, BlobsAreOwn
    <2> QED
      BY <1>2, <2>1, OwnContentGrows
  <1> QED
    BY <1>1, <1>3

\* storeBackup under a fresh stamp, whole or cut after the blob: the new version is sound.
LEMMA DiskStored ==
    ASSUME IInv, held' = held, NEW k \in Targets, stamp < MaxStamp,
           NEW kind \in Kind, NEW hash \in Content,
           kind.blob # None <=> kind.type \in {"gzip-diff", "gzip-full"},
           kind.blob # None => kind.blob.data \in OwnContent(k),
           \/ /\ disk' = StoreBackup(disk, <<k, stamp + 1>>, kind, hash)
              /\ stamp' = IF kind.type = "dedup" THEN stamp ELSE stamp + 1
           \/ /\ disk' = StoreBlob(disk, <<k, stamp + 1>>, kind)
              /\ stamp' = stamp + 1
    PROVE  /\ disk' \in Disk /\ stamp' \in 0 .. MaxStamp
           /\ FutureIsEmpty' /\ SidecarsMatch' /\ BlobsAreOwn'
  <1> USE StoreAssumption
  <1> DEFINE f == <<k, stamp + 1>>
  <1>1. disk \in Disk /\ stamp \in Nat /\ stamp + 1 \in 1 .. MaxStamp
    BY DEF IInv, TypeOK
  <1>2. f \in Files /\ KeyOf(f) = k /\ StampOf(f) = stamp + 1
    BY <1>1 DEF Files, Stamps, KeyOf, StampOf
  <1>3. disk.gz[f] = None /\ disk.meta[f] = None
    BY <1>1, <1>2 DEF IInv, FutureIsEmpty, HasBlob, HasMeta
  <1> HIDE DEF f
  <1>4. /\ disk' \in Disk
        /\ \A g \in Files : g # f => disk'.gz[g] \in {disk.gz[g], None}
                                     /\ disk'.meta[g] \in {disk.meta[g], None}
        /\ disk'.gz[f] = kind.blob
        /\ disk'.meta[f] \in {None, MetaFor(kind, hash)}
        /\ kind.type = "dedup" => disk'.meta[f] = None
    BY <1>1, <1>2, <1>3, StoreWritesOneVersion DEF f
  <1>5. stamp' \in 0 .. MaxStamp /\ stamp' \in {stamp, stamp + 1}
        /\ (stamp' = stamp => kind.type = "dedup")
    BY <1>1
  <1>6. FutureIsEmpty'
    <2> SUFFICES ASSUME NEW g \in Files, StampOf(g) > stamp'
                 PROVE  disk'.gz[g] = None /\ disk'.meta[g] = None
      BY DEF FutureIsEmpty, HasBlob, HasMeta
    <2>1. StampOf(g) \in Nat
      BY DEF Files, Stamps, StampOf
    <2>2. CASE g = f
      <3>1. kind.type = "dedup"
        BY <1>1, <1>2, <1>5, <2>2
      <3> QED
        BY <1>4, <2>2, <3>1
    <2>3. CASE g # f
      <3>1. StampOf(g) > stamp
        BY <1>1, <1>5, <2>1
      <3>2. disk.gz[g] = None /\ disk.meta[g] = None
        BY <3>1 DEF IInv, FutureIsEmpty, HasBlob, HasMeta
      <3> QED
        BY <1>4, <2>3, <3>2
    <2> QED
      BY <2>2, <2>3
  <1>7. SidecarsMatch'
    <2> SUFFICES ASSUME NEW g \in Files, disk'.gz[g] # None, disk'.meta[g] # None
                 PROVE  disk'.meta[g].base = disk'.gz[g].base /\ disk'.meta[g].kind # "metadata-only"
      BY DEF SidecarsMatch, HasBlob, HasMeta
    <2>1. CASE g = f
      BY <1>4, <2>1 DEF MetaFor
    <2>2. CASE g # f
      <3>1. disk'.gz[g] = disk.gz[g] /\ disk'.meta[g] = disk.meta[g]
        BY <1>4, <2>2
      <3> QED
        BY <3>1 DEF IInv, SidecarsMatch, HasBlob, HasMeta
    <2> QED
      BY <2>1, <2>2
  <1>8. BlobsAreOwn'
    <2> SUFFICES ASSUME NEW g \in Files, disk'.gz[g] # None
                 PROVE  disk'.gz[g].data \in OwnContent(KeyOf(g))
      BY DEF BlobsAreOwn, HasBlob, OwnContent
    <2>1. CASE g = f
      BY <1>2, <1>4, <2>1
    <2>2. CASE g # f
      BY <1>4, <2>2 DEF IInv, BlobsAreOwn, HasBlob
    <2> QED
      BY <2>1, <2>2
  <1> QED
    BY <1>4, <1>5, <1>6, <1>7, <1>8

----------------------------------------------------------------------------
(* The initial states *)

\* An empty store and no call in flight satisfy the invariant.
LEMMA InitIInv == Init => IInv
  <1> SUFFICES ASSUME Init PROVE IInv
    OBVIOUS
  <1> USE StoreAssumption, PipelineAssumption, NoneAssumption
  <1>1. disk \in Disk /\ \A f \in Files : disk.gz[f] = None /\ disk.meta[f] = None
    BY DEF Init, EmptyDisk, Disk
  <1>2. call \in [Clients -> Call] /\ \A c \in Clients : call[c].pc = "idle"
    BY IdleIsACall DEF Init
  <1>3. live \in [Targets -> Content \cup {None}] /\ held \in [Targets -> SUBSET Content]
        /\ LiveIsHeld
    BY DEF Init, LiveIsHeld
  <1>4. TypeOK
    BY <1>1, <1>2, <1>3 DEF Init, TypeOK
  <1> QED
    BY <1>1, <1>2, <1>3, <1>4
       DEF IInv, FutureIsEmpty, SidecarsMatch, BlobsAreOwn, CallsAreSound, HasBlob, HasMeta

----------------------------------------------------------------------------
(* One lemma per action *)

\* Held contents do not change: they trivially grow.
LEMMA HeldStays ==
    ASSUME IInv, held' = held
    PROVE  HeldGrows
  BY DEF IInv, TypeOK, HeldGrows

\* A step that changes nothing but its own call keeps the invariant when the call
\* stays sound.
LEMMA CallOnlyStep ==
    ASSUME IInv, NEW c \in Clients, NEW r \in Call, Step(c, r),
           r.pc # "idle" => CallIsSound(r),
           UNCHANGED <<disk, stamp, live, calls, edits, audit, owed, held>>
    PROVE  IInv'
  <1>1. HeldGrows
    BY HeldStays
  <1>2. r.pc # "idle" => CallIsSound(r)'
    BY <1>1, SoundnessGrows
  <1>3. call' \in [Clients -> Call] /\ CallsAreSound'
    BY <1>1, <1>2, StepKeepsCalls
  <1>4. FutureIsEmpty' /\ SidecarsMatch' /\ BlobsAreOwn'
    BY <1>1, DiskUntouched
  <1>5. TypeOK' /\ LiveIsHeld'
    BY <1>3 DEF IInv, TypeOK, LiveIsHeld
  <1> QED
    BY <1>3, <1>4, <1>5 DEF IInv

\* A write begins: its content counts as given to the target.
LEMMA WriteBeginStep ==
    ASSUME IInv, NEW c \in Clients, NEW k \in Targets, NEW x \in Content, WriteBegin(c, k, x)
    PROVE  IInv'
  <1> USE PipelineAssumption
  <1> DEFINE r == [Idle EXCEPT !.pc = "read", !.op = "write", !.id = calls + 1,
                               !.tgt = k, !.new = x]
  <1>1. /\ calls < MaxCalls /\ calls' = calls + 1 /\ Step(c, r)
        /\ held' = [held EXCEPT ![k] = @ \cup {x}]
        /\ UNCHANGED <<disk, stamp, live, edits, audit, owed>>
    BY DEF WriteBegin
  <1>2. HeldGrows /\ x \in held'[k]
    BY <1>1 DEF IInv, TypeOK, HeldGrows
  <1>3. calls + 1 \in Ids
    BY <1>1 DEF IInv, TypeOK, Ids
  <1>4. /\ r \in Call /\ r.tgt = k /\ r.id = calls + 1 /\ r.prev = None
        /\ r.op = "write" /\ r.pc = "read" /\ r.new = x
    BY <1>3, IdleIsACall DEF Idle, Call
  <1> HIDE DEF r
  <1>p. PICK q \in Call : q = r
    BY <1>4
  <1>5. CallIsSound(q)'
    BY <1>2, <1>3, <1>4, <1>p DEF CallIsSound
  <1>6. call' \in [Clients -> Call] /\ CallsAreSound'
    BY <1>1, <1>2, <1>5, <1>p, StepKeepsCalls
  <1>7. FutureIsEmpty' /\ SidecarsMatch' /\ BlobsAreOwn'
    BY <1>1, <1>2, DiskUntouched
  <1>8. LiveIsHeld'
    BY <1>1, <1>2 DEF IInv, LiveIsHeld, HeldGrows
  <1>9. TypeOK'
    BY <1>1, <1>2, <1>3, <1>6 DEF IInv, TypeOK, HeldGrows, Ids
  <1> QED
    BY <1>6, <1>7, <1>8, <1>9 DEF IInv

\* A revert begins, or is refused with an audit record.
LEMMA RevertStep ==
    ASSUME IInv, NEW c \in Clients, NEW f \in Files, NEW k \in Targets, Revert(c, f, k)
    PROVE  IInv'
  <1> USE PipelineAssumption
  <1> DEFINE r == [Idle EXCEPT !.pc = "read", !.op = "revert", !.id = calls + 1,
                               !.tgt = k, !.at = f]
  <1>1. /\ calls < MaxCalls /\ calls' = calls + 1
        /\ \/ Step(c, r) /\ audit' = audit
           \/ audit' = audit \cup {RecordFor(r, "refused")} /\ call' = call
        /\ owed' = owed \cup {[id |-> calls + 1, op |-> "revert"]}
        /\ UNCHANGED <<disk, stamp, live, edits, held>>
    BY DEF Revert, Idle
  <1>2. HeldGrows
    BY <1>1, HeldStays
  <1>3. calls + 1 \in Ids
    BY <1>1 DEF IInv, TypeOK, Ids
  <1>4. /\ r \in Call /\ r.tgt = k /\ r.id = calls + 1 /\ r.prev = None
        /\ r.op = "revert" /\ r.pc = "read" /\ r.at = f
    BY <1>3, IdleIsACall DEF Idle, Call
  <1>5. RecordFor(r, "refused") \in Record
    <2>1. r.kind \in Kind /\ r.new \in Content \cup {None}
      BY <1>4 DEF Call
    <2> HIDE DEF r
    <2> QED
      BY <1>3, <1>4, <2>1 DEF RecordFor, Record, Kind
  <1> HIDE DEF r
  <1>p. PICK q \in Call : q = r
    BY <1>4
  <1>6. CallIsSound(q)'
    BY <1>2, <1>3, <1>4, <1>p DEF CallIsSound
  <1>7. call' \in [Clients -> Call] /\ CallsAreSound'
    <2>1. CASE Step(c, r)
      BY <1>2, <1>6, <1>p, <2>1, StepKeepsCalls
    <2>2. CASE call' = call
      BY <1>1, <2>2 DEF IInv, TypeOK, CallsAreSound, CallIsSound, OwnContent
    <2> QED
      BY <1>1, <2>1, <2>2
  <1>8. FutureIsEmpty' /\ SidecarsMatch' /\ BlobsAreOwn'
    BY <1>1, <1>2, DiskUntouched
  <1>9. TypeOK' /\ LiveIsHeld'
    BY <1>1, <1>3, <1>5, <1>7 DEF IInv, TypeOK, LiveIsHeld, Ids, Debt
  <1> QED
    BY <1>7, <1>8, <1>9 DEF IInv

\* revert_file by path resolves to a version of that very target.
LEMMA RevertLatestStep ==
    ASSUME IInv, NEW c \in Clients, NEW k \in Targets, RevertLatest(c, k)
    PROVE  IInv'
  <1>1. LatestRevertible(disk, k) \in Files
    BY LatestRevertibleIsAVersion DEF RevertLatest
  <1> QED
    BY <1>1, RevertStep DEF RevertLatest

\* revert_file by backupPath: the sidecar's target, or a host file.
LEMMA RevertAtStep ==
    ASSUME IInv, NEW c \in Clients, NEW f \in Files, RevertAt(c, f)
    PROVE  IInv'
  <1>1. ReadBackupTarget(f) \in Targets
    BY PipelineAssumption DEF ReadBackupTarget, Files, KeyOf
  <1> QED
    BY <1>1, RevertStep DEF RevertAt

\* The remote read brings back what the file holds, a content it has held.
LEMMA RemoteReadStep ==
    ASSUME IInv, NEW c \in Clients, RemoteRead(c)
    PROVE  IInv'
  <1>1. PICK r \in Call : r = call[c]
    BY DEF IInv, TypeOK
  <1>2. r.pc = "read" /\ CallIsSound(r)
    BY <1>1 DEF RemoteRead, IInv, CallsAreSound
  <1> DEFINE q == [r EXCEPT !.pc = AfterRead(r.op), !.prev = live[r.tgt]]
  <1>3. live[r.tgt] \in held[r.tgt] \cup {None} /\ live[r.tgt] \in Content \cup {None}
    BY <1>2 DEF IInv, LiveIsHeld, CallIsSound, TypeOK
  <1>4. q \in Call /\ CallIsSound(q)
    BY <1>2, <1>3 DEF Call, CallIsSound, AfterRead
  <1>5. Step(c, q) /\ UNCHANGED <<disk, stamp, live, calls, edits, audit, owed, held>>
    BY <1>1 DEF RemoteRead
  <1> HIDE DEF q
  <1> QED
    BY <1>4, <1>5, CallOnlyStep

\* A failed read looks like a missing file, or ends the call.
LEMMA RemoteReadFailsStep ==
    ASSUME IInv, NEW c \in Clients, RemoteReadFails(c)
    PROVE  IInv'
  <1>1. PICK r \in Call : r = call[c]
    BY DEF IInv, TypeOK
  <1>2. r.pc = "read" /\ CallIsSound(r)
    BY <1>1 DEF RemoteReadFails, IInv, CallsAreSound
  <1>3. /\ \/ Step(c, [r EXCEPT !.pc = AfterRead(r.op)])
           \/ Step(c, IF r.op = "write" THEN Idle ELSE [r EXCEPT !.pc = "fail"])
        /\ UNCHANGED <<disk, stamp, live, calls, edits, audit, owed, held>>
    BY <1>1 DEF RemoteReadFails
  <1>4. CASE Step(c, [r EXCEPT !.pc = AfterRead(r.op)])
    <2>1. [r EXCEPT !.pc = AfterRead(r.op)] \in Call
      BY DEF Call, AfterRead
    <2>2. CallIsSound([r EXCEPT !.pc = AfterRead(r.op)])
      BY <1>2 DEF Call, CallIsSound, AfterRead
    <2> QED
      BY <1>3, <1>4, <2>1, <2>2, CallOnlyStep
  <1>5. CASE r.op # "write" /\ Step(c, [r EXCEPT !.pc = "fail"])
    <2>1. [r EXCEPT !.pc = "fail"] \in Call
      BY DEF Call
    <2>2. CallIsSound([r EXCEPT !.pc = "fail"])
      BY <1>2, <1>5 DEF Call, CallIsSound
    <2> QED
      BY <1>3, <1>5, <2>1, <2>2, CallOnlyStep
  <1>6. CASE Step(c, Idle)
    BY <1>3, <1>6, IdleIsACall, CallOnlyStep
  <1> QED
    BY <1>3, <1>4, <1>5, <1>6

\* Planning picks a backup that holds the target's own content.
LEMMA WritePlanStep ==
    ASSUME IInv, NEW c \in Clients, WritePlan(c)
    PROVE  IInv'
  <1> USE StoreAssumption, NoneAssumption
  <1>1. PICK r \in Call : r = call[c]
    BY DEF IInv, TypeOK
  <1>2. r.pc = "plan" /\ CallIsSound(r) /\ r.op = "write"
    BY <1>1 DEF WritePlan, IInv, CallsAreSound, CallIsSound, Call
  <1>3. PICK kind : kind = SelectBackupKind(r.new, r.prev, BuildExistingHashMap(disk),
                                            LatestBaseHash(disk, r.tgt))
    OBVIOUS
  <1>4. /\ Step(c, Idle) \/ Step(c, [r EXCEPT !.pc = "store", !.kind = kind])
        /\ UNCHANGED <<disk, stamp, live, calls, edits, audit, owed, held>>
    BY <1>1, <1>3 DEF WritePlan
  <1>5. /\ r.tgt \in Targets /\ r.new \in held[r.tgt] /\ r.prev \in held[r.tgt] \cup {None}
        /\ held[r.tgt] \subseteq Content
    BY <1>2 DEF CallIsSound, IInv, TypeOK
  <1>6. /\ kind \in Kind
        /\ kind.blob # None <=> kind.type \in {"gzip-diff", "gzip-full"}
        /\ kind.blob # None => \/ kind.blob.data = r.new
                               \/ r.prev # None /\ kind.blob.data \in {r.prev, Utf8[r.prev]}
    <2>1. BuildExistingHashMap(disk) \in [Content -> Files \cup {None}]
      BY HashMapType
    <2>2. r.new \in Content /\ r.prev \in Content \cup {None}
      BY <1>5
    <2> QED
      BY <1>3, <2>1, <2>2, SelectKindIsSound
  <1>7. kind.blob # None => kind.blob.data \in OwnContent(r.tgt)
    BY <1>5, <1>6 DEF OwnContent
  <1>8. CASE Step(c, Idle)
    BY <1>4, <1>8, IdleIsACall, CallOnlyStep
  <1>9. CASE Step(c, [r EXCEPT !.pc = "store", !.kind = kind])
    <2> DEFINE q == [r EXCEPT !.pc = "store", !.kind = kind]
    <2>1. q \in Call
      BY <1>6 DEF Call
    <2>2. /\ q.pc = "store" /\ q.kind = kind /\ q.op = "write" /\ q.tgt = r.tgt
          /\ q.id = r.id /\ q.prev = r.prev /\ q.new = r.new
      BY <1>2 DEF Call
    <2> HIDE DEF q
    <2>3. CallIsSound(q)
      BY <1>2, <1>5, <1>6, <1>7, <2>2 DEF CallIsSound
    <2> QED
      BY <1>4, <1>9, <2>1, <2>3, CallOnlyStep DEF q
  <1> QED
    BY <1>4, <1>8, <1>9

\* A write stores its backup.
LEMMA WriteStoreStep ==
    ASSUME IInv, NEW c \in Clients, WriteStore(c)
    PROVE  IInv'
  <1> USE StoreAssumption, NoneAssumption
  <1>1. PICK r \in Call : r = call[c]
    BY DEF IInv, TypeOK
  <1>2. r.pc = "store" /\ r.op = "write" /\ CallIsSound(r)
    BY <1>1 DEF WriteStore, IInv, CallsAreSound
  <1> DEFINE f == <<r.tgt, stamp + 1>>
             q == [r EXCEPT !.pc = "apply", !.at = ResultPath(r.kind, f)]
  <1>3. /\ stamp < MaxStamp
        /\ disk' = StoreBackup(disk, f, r.kind, r.new)
        /\ stamp' = IF r.kind.type = "dedup" THEN stamp ELSE stamp + 1
        /\ Step(c, q)
        /\ UNCHANGED <<live, calls, edits, audit, owed, held>>
    BY <1>1 DEF WriteStore, NextFile
  <1>4. /\ r.tgt \in Targets /\ r.kind \in Kind /\ r.new \in Content
        /\ r.kind.blob # None <=> r.kind.type \in {"gzip-diff", "gzip-full"}
        /\ r.kind.blob # None => r.kind.blob.data \in OwnContent(r.tgt)
    BY <1>2 DEF CallIsSound, Call, IInv, TypeOK
  <1>5. /\ disk' \in Disk /\ stamp' \in 0 .. MaxStamp
        /\ FutureIsEmpty' /\ SidecarsMatch' /\ BlobsAreOwn'
    BY <1>3, <1>4, DiskStored
  <1>6. HeldGrows
    BY <1>3, HeldStays
  <1>7. f \in Files
    BY <1>3, <1>4 DEF Files, Stamps, IInv, TypeOK
  <1>8. q \in Call
    <2>1. ResultPath(r.kind, f) \in Files \cup {None}
      BY <1>4, <1>7 DEF ResultPath, Kind
    <2> HIDE DEF f
    <2> QED
      BY <2>1 DEF Call
  <1>9. /\ q.pc = "apply" /\ q.op = "write" /\ q.tgt = r.tgt
        /\ q.id = r.id /\ q.prev = r.prev /\ q.new = r.new
    BY <1>2 DEF Call
  <1> HIDE DEF q, f
  <1>10. CallIsSound(q)
    BY <1>2, <1>9 DEF CallIsSound
  <1>p. PICK p \in Call : p = q
    BY <1>8
  <1>11. CallIsSound(p)'
    BY <1>6, <1>10, <1>p, SoundnessGrows
  <1>12. call' \in [Clients -> Call] /\ CallsAreSound'
    BY <1>3, <1>6, <1>11, <1>p, StepKeepsCalls
  <1>13. TypeOK' /\ LiveIsHeld'
    BY <1>3, <1>5, <1>12 DEF IInv, TypeOK, LiveIsHeld
  <1> QED
    BY <1>5, <1>12, <1>13 DEF IInv

\* restore hands over a content of the backup's own target.
LEMMA RevertRestoreStep ==
    ASSUME IInv, NEW c \in Clients, RevertRestore(c)
    PROVE  IInv'
  <1> USE StoreAssumption, NoneAssumption
  <1>1. PICK r \in Call : r = call[c]
    BY DEF IInv, TypeOK
  <1>2. r.pc = "restore" /\ CallIsSound(r) /\ r.op = "revert" /\ r.at \in Files
    BY <1>1 DEF RevertRestore, IInv, CallsAreSound, CallIsSound, Call
  <1>3. PICK x : x = Restore(disk, r.at, r.prev)
    OBVIOUS
  <1>4. /\ Step(c, IF x = None THEN [r EXCEPT !.pc = "fail"]
                   ELSE [r EXCEPT !.pc = "store", !.new = x])
        /\ UNCHANGED <<disk, stamp, live, calls, edits, audit, owed, held>>
    BY <1>1, <1>3 DEF RevertRestore
  <1>5. x \in Content \cup {None} /\ (x # None => x \in OwnContent(KeyOf(r.at)))
    <2>1. disk \in Disk
      BY DEF IInv, TypeOK
    <2>2. x # None => HasBlob(disk, r.at) /\ x = disk.gz[r.at].data
      BY <1>2, <1>3, <2>1, RestoreYieldsTheBlob
    <2>3. x \in Content \cup {None}
      BY <1>2, <1>3, <2>1, RestoreYieldsTheBlob
    <2> QED
      BY <1>2, <2>2, <2>3 DEF IInv, BlobsAreOwn
  <1>6. CASE x = None
    <2> DEFINE q == [r EXCEPT !.pc = "fail"]
    <2>1. q \in Call /\ CallIsSound(q)
      BY <1>2 DEF Call, CallIsSound
    <2> HIDE DEF q
    <2> QED
      BY <1>4, <1>6, <2>1, CallOnlyStep DEF q
  <1>7. CASE x # None
    <2> DEFINE q == [r EXCEPT !.pc = "store", !.new = x]
    <2>1. q \in Call
      BY <1>5, <1>7 DEF Call
    <2>2. /\ q.pc = "store" /\ q.op = "revert" /\ q.tgt = r.tgt /\ q.at = r.at
          /\ q.id = r.id /\ q.prev = r.prev /\ q.new = x
      BY <1>2 DEF Call
    <2> HIDE DEF q
    <2>3. CallIsSound(q)
      BY <1>2, <1>5, <1>7, <2>2 DEF CallIsSound
    <2> QED
      BY <1>4, <1>7, <2>1, <2>3, CallOnlyStep DEF q
  <1> QED
    BY <1>6, <1>7

\* The re-snapshot stores the current content of the target, raw.
LEMMA SnapshotKindIsSound ==
    ASSUME IInv, NEW k \in Targets, NEW x \in held[k]
    PROVE  LET kind == FullKind(RawBlob(x), FALSE)
           IN  /\ kind \in Kind /\ x \in Content /\ kind.type = "gzip-full"
               /\ kind.blob # None /\ kind.blob.data \in OwnContent(k)
  <1> USE NoneAssumption
  <1>1. x \in Content /\ x \in OwnContent(k)
    BY DEF IInv, TypeOK, OwnContent
  <1>2. RawBlob(x) \in Blob /\ RawBlob(x).data = x
    BY <1>1 DEF RawBlob, Blob
  <1> QED
    BY <1>1, <1>2 DEF FullKind, Kind

\* A revert snapshots what it is about to overwrite, or fails to and goes on.
LEMMA RevertSnapshotStep ==
    ASSUME IInv, NEW c \in Clients, RevertSnapshot(c)
    PROVE  IInv'
  <1> USE StoreAssumption, NoneAssumption
  <1>1. PICK r \in Call : r = call[c]
    BY DEF IInv, TypeOK
  <1>2. r.pc = "store" /\ r.op = "revert" /\ CallIsSound(r)
    BY <1>1 DEF RevertSnapshot, IInv, CallsAreSound
  <1> DEFINE q == [r EXCEPT !.pc = "apply"]
             kind == FullKind(RawBlob(r.prev), FALSE)
             stores == /\ r.prev # None /\ stamp < MaxStamp
                       /\ disk' = StoreBackup(disk, <<r.tgt, stamp + 1>>, kind, r.prev)
                       /\ stamp' = stamp + 1
  <1>3. /\ Step(c, q)
        /\ stores \/ UNCHANGED <<disk, stamp>>
        /\ UNCHANGED <<live, calls, edits, audit, owed, held>>
    BY <1>1 DEF RevertSnapshot, NextFile
  <1>4. q \in Call /\ CallIsSound(q)
    BY <1>2 DEF Call, CallIsSound
  <1>5. HeldGrows
    BY <1>3, HeldStays
  <1>6. /\ disk' \in Disk /\ stamp' \in 0 .. MaxStamp
        /\ FutureIsEmpty' /\ SidecarsMatch' /\ BlobsAreOwn'
    <2>1. CASE stores
      <3>1. r.tgt \in Targets /\ r.prev \in held[r.tgt]
        BY <1>2, <2>1 DEF CallIsSound
      <3>2. /\ kind \in Kind /\ r.prev \in Content /\ kind.type = "gzip-full"
            /\ kind.blob # None /\ kind.blob.data \in OwnContent(r.tgt)
        BY <3>1, SnapshotKindIsSound
      <3> HIDE DEF kind
      <3>3. held' = held /\ kind.type # "dedup"
        BY <1>3, <3>2
      <3> QED
        BY <2>1, <3>1, <3>2, <3>3, DiskStored
    <2>2. CASE UNCHANGED <<disk, stamp>>
      BY <1>5, <2>2, DiskUntouched DEF IInv, TypeOK
    <2> QED
      BY <1>3, <2>1, <2>2
  <1> HIDE DEF q, stores
  <1>p. PICK p \in Call : p = q
    BY <1>4
  <1>7. CallIsSound(p)'
    BY <1>4, <1>5, <1>p, SoundnessGrows
  <1>8. call' \in [Clients -> Call] /\ CallsAreSound'
    BY <1>3, <1>5, <1>7, <1>p, StepKeepsCalls
  <1>9. TypeOK' /\ LiveIsHeld'
    BY <1>3, <1>6, <1>8 DEF IInv, TypeOK, LiveIsHeld
  <1> QED
    BY <1>6, <1>8, <1>9 DEF IInv

\* The remote end takes the call's content: it is one the file has now held.
LEMMA TakeHolds ==
    ASSUME IInv, NEW c \in Clients, call[c].pc = "apply", Take(c)
    PROVE  /\ HeldGrows /\ LiveIsHeld'
           /\ live' \in [Targets -> Content \cup {None}] /\ owed' \subseteq Debt
  <1> USE StoreAssumption
  <1>1. PICK r \in Call : r = call[c]
    BY DEF IInv, TypeOK
  <1>2. r.pc = "apply" /\ CallIsSound(r)
    BY <1>1 DEF IInv, CallsAreSound
  <1>3. /\ live' = [live EXCEPT ![r.tgt] = r.new]
        /\ owed' = owed \cup {[id |-> r.id, op |-> r.op]}
        /\ held' = [held EXCEPT ![r.tgt] = @ \cup {r.new}]
    BY <1>1 DEF Take
  <1>4. r.tgt \in Targets /\ r.id \in Ids /\ r.new \in Content
    <2>1. CASE r.op = "write"
      BY <1>2, <2>1 DEF CallIsSound, IInv, TypeOK
    <2>2. CASE r.op = "revert"
      <3>1. r.at \in Files /\ r.new \in OwnContent(KeyOf(r.at)) /\ r.tgt \in Targets /\ r.id \in Ids
        BY <1>2, <2>2 DEF CallIsSound
      <3>2. KeyOf(r.at) \in Targets
        BY <3>1 DEF Files, KeyOf
      <3> QED
        BY <3>1, <3>2 DEF OwnContent, IInv, TypeOK
    <2> QED
      BY <2>1, <2>2 DEF Call
  <1>5. [id |-> r.id, op |-> r.op] \in Debt
    BY <1>4 DEF Call, Debt
  <1> QED
    BY <1>3, <1>4, <1>5 DEF IInv, TypeOK, HeldGrows, LiveIsHeld

\* After the remote write, done or thrown, the call goes on to its record, to the
\* catch block or ends.
LEMMA AfterWriteStep ==
    ASSUME IInv, NEW c \in Clients, call[c].pc = "apply",
           Take(c) \/ UNCHANGED <<live, owed, held>>,
           \/ Step(c, [call[c] EXCEPT !.pc = "audit"])
           \/ Step(c, IF call[c].op = "write" THEN Idle ELSE [call[c] EXCEPT !.pc = "fail"]),
           UNCHANGED <<disk, stamp, calls, edits, audit>>
    PROVE  IInv'
  <1>1. PICK r \in Call : r = call[c]
    BY DEF IInv, TypeOK
  <1>2. r.pc = "apply" /\ CallIsSound(r)
    BY <1>1 DEF IInv, CallsAreSound
  <1>3. /\ HeldGrows /\ LiveIsHeld'
        /\ live' \in [Targets -> Content \cup {None}] /\ owed' \subseteq Debt
    <2>1. CASE Take(c)
      BY <2>1, TakeHolds
    <2>2. CASE UNCHANGED <<live, owed, held>>
      BY <2>2, HeldStays DEF IInv, TypeOK, LiveIsHeld
    <2> QED
      BY <2>1, <2>2
  <1>4. call' \in [Clients -> Call] /\ CallsAreSound'
    <2>1. CASE Step(c, [r EXCEPT !.pc = "audit"])
      <3>1. PICK q \in Call : q = [r EXCEPT !.pc = "audit"]
        BY DEF Call
      <3>2. CallIsSound(q)
        BY <1>2, <3>1 DEF Call, CallIsSound
      <3>3. CallIsSound(q)'
        BY <1>3, <3>2, SoundnessGrows
      <3> QED
        BY <1>3, <2>1, <3>1, <3>3, StepKeepsCalls
    <2>2. CASE r.op # "write" /\ Step(c, [r EXCEPT !.pc = "fail"])
      <3>1. PICK q \in Call : q = [r EXCEPT !.pc = "fail"]
        BY DEF Call
      <3>2. CallIsSound(q)
        BY <1>2, <2>2, <3>1 DEF Call, CallIsSound
      <3>3. CallIsSound(q)'
        BY <1>3, <3>2, SoundnessGrows
      <3> QED
        BY <1>3, <2>2, <3>1, <3>3, StepKeepsCalls
    <2>3. CASE Step(c, Idle)
      BY <1>3, <2>3, IdleIsACall, StepKeepsCalls
    <2> QED
      BY <1>1, <2>1, <2>2, <2>3
  <1>5. FutureIsEmpty' /\ SidecarsMatch' /\ BlobsAreOwn'
    BY <1>3, DiskUntouched
  <1>6. TypeOK'
    BY <1>3, <1>4 DEF IInv, TypeOK, HeldGrows
  <1> QED
    BY <1>3, <1>4, <1>5, <1>6 DEF IInv

\* A completed call, or a failed revert, gets its audit record.
LEMMA AuditAppendStep ==
    ASSUME IInv, NEW c \in Clients, AuditAppend(c)
    PROVE  IInv'
  <1>1. PICK r \in Call : r = call[c]
    BY DEF IInv, TypeOK
  <1>2. r.pc \in {"audit", "fail"} /\ CallIsSound(r)
    BY <1>1 DEF AuditAppend, IInv, CallsAreSound
  <1>3. PICK outcome \in {"ok", "failed"} : audit' = audit \cup {RecordFor(r, outcome)}
    BY <1>1 DEF AuditAppend
  <1>4. Step(c, Idle) /\ UNCHANGED <<disk, stamp, live, calls, edits, owed, held>>
    BY DEF AuditAppend
  <1>5. RecordFor(r, outcome) \in Record
    <2>1. /\ r.id \in Ids /\ r.tgt \in Targets /\ r.op \in {"write", "revert"}
          /\ r.prev \in Content \cup {None} /\ r.new \in Content \cup {None}
          /\ r.at \in Files \cup {None} /\ r.kind \in Kind
      BY <1>2 DEF Call, CallIsSound
    <2> QED
      BY <2>1 DEF RecordFor, Record, Kind
  <1>6. HeldGrows
    BY <1>4, HeldStays
  <1>7. call' \in [Clients -> Call] /\ CallsAreSound'
    BY <1>4, <1>6, IdleIsACall, StepKeepsCalls
  <1>8. FutureIsEmpty' /\ SidecarsMatch' /\ BlobsAreOwn'
    BY <1>4, <1>6, DiskUntouched
  <1>9. TypeOK' /\ LiveIsHeld'
    BY <1>3, <1>4, <1>5, <1>7 DEF IInv, TypeOK, LiveIsHeld
  <1> QED
    BY <1>7, <1>8, <1>9 DEF IInv

\* An edit behind the server's back only adds to what the file has held.
LEMMA OutOfBandEditStep ==
    ASSUME IInv, NEW k \in Targets, NEW x \in Content \cup {None}, OutOfBandEdit(k, x)
    PROVE  IInv'
  <1> USE PipelineAssumption
  <1>1. /\ live' = [live EXCEPT ![k] = x]
        /\ edits < MaxEdits /\ edits' = edits + 1
        /\ held' = [held EXCEPT ![k] = @ \cup ({x} \ {None})]
        /\ UNCHANGED <<disk, stamp, call, calls, audit, owed>>
    BY DEF OutOfBandEdit
  <1>2. HeldGrows /\ LiveIsHeld' /\ live' \in [Targets -> Content \cup {None}]
    BY <1>1 DEF IInv, TypeOK, HeldGrows, LiveIsHeld
  <1>3. CallsAreSound'
    <2> SUFFICES ASSUME NEW c \in Clients, call[c].pc # "idle"
                 PROVE  CallIsSound(call[c])'
      BY <1>1 DEF CallsAreSound
    <2>1. PICK r \in Call : r = call[c]
      BY DEF IInv, TypeOK
    <2>2. CallIsSound(r)
      BY <2>1 DEF IInv, CallsAreSound
    <2>3. CallIsSound(r)'
      BY <1>2, <2>2, SoundnessGrows
    <2> QED
      BY <1>1, <2>1, <2>3 DEF CallIsSound
  <1>4. FutureIsEmpty' /\ SidecarsMatch' /\ BlobsAreOwn'
    BY <1>1, <1>2, DiskUntouched
  <1>5. TypeOK'
    BY <1>1, <1>2 DEF IInv, TypeOK, HeldGrows
  <1> QED
    BY <1>2, <1>3, <1>4, <1>5 DEF IInv

\* A crash between two awaits loses the calls in flight.
LEMMA CrashStep ==
    ASSUME IInv, Crash
    PROVE  IInv'
  <1>1. /\ call' = [c \in Clients |-> Idle]
        /\ owed' = {}
        /\ UNCHANGED <<disk, stamp, live, calls, edits, audit, held>>
    BY DEF Crash
  <1>2. call' \in [Clients -> Call] /\ CallsAreSound'
    BY <1>1, IdleIsACall DEF CallsAreSound
  <1>3. FutureIsEmpty' /\ SidecarsMatch' /\ BlobsAreOwn'
    BY <1>1, HeldStays, DiskUntouched
  <1>4. TypeOK' /\ LiveIsHeld'
    BY <1>1, <1>2 DEF IInv, TypeOK, LiveIsHeld
  <1> QED
    BY <1>2, <1>3, <1>4 DEF IInv

\* A crash inside storeBackup leaves a blob without its sidecar, and nothing else.
LEMMA CrashInStoreStep ==
    ASSUME IInv, NEW c \in Clients, CrashInStore(c)
    PROVE  IInv'
  <1> USE StoreAssumption, NoneAssumption
  <1>1. PICK r \in Call : r = call[c]
    BY DEF IInv, TypeOK
  <1>2. r.pc = "store" /\ CallIsSound(r)
    BY <1>1 DEF CrashInStore, IInv, CallsAreSound
  <1>3. PICK kind : kind = IF r.op = "write" THEN r.kind ELSE FullKind(RawBlob(r.prev), FALSE)
    OBVIOUS
  <1>4. /\ stamp < MaxStamp
        /\ IF r.op = "write" THEN kind.blob # None ELSE r.prev # None
        /\ disk' = StoreBlob(disk, <<r.tgt, stamp + 1>>, kind)
        /\ stamp' = stamp + 1
        /\ call' = [d \in Clients |-> Idle]
        /\ owed' = {}
        /\ UNCHANGED <<live, calls, edits, audit, held>>
    BY <1>1, <1>3 DEF CrashInStore, NextFile
  <1>5. PICK hash \in Content :
          /\ kind \in Kind /\ r.tgt \in Targets
          /\ kind.blob # None <=> kind.type \in {"gzip-diff", "gzip-full"}
          /\ kind.blob # None => kind.blob.data \in OwnContent(r.tgt)
    <2>1. CASE r.op = "write"
      <3>1. kind = r.kind /\ r.new \in Content
        BY <1>2, <1>3, <2>1 DEF CallIsSound, IInv, TypeOK
      <3> QED
        BY <1>2, <2>1, <3>1 DEF CallIsSound, Call
    <2>2. CASE r.op # "write"
      <3>1. r.tgt \in Targets /\ r.prev \in held[r.tgt]
        BY <1>2, <1>4, <2>2 DEF CallIsSound
      <3>2. kind = FullKind(RawBlob(r.prev), FALSE)
        BY <1>3, <2>2
      <3>3. /\ kind \in Kind /\ r.prev \in Content /\ kind.type = "gzip-full"
            /\ kind.blob # None /\ kind.blob.data \in OwnContent(r.tgt)
        BY <3>1, <3>2, SnapshotKindIsSound
      <3> QED
        BY <3>1, <3>3
    <2> QED
      BY <2>1, <2>2
  <1>6. /\ disk' \in Disk /\ stamp' \in 0 .. MaxStamp
        /\ FutureIsEmpty' /\ SidecarsMatch' /\ BlobsAreOwn'
    BY <1>4, <1>5, DiskStored
  <1>7. call' \in [Clients -> Call] /\ CallsAreSound'
    BY <1>4, IdleIsACall DEF CallsAreSound
  <1>8. TypeOK' /\ LiveIsHeld'
    BY <1>4, <1>6, <1>7 DEF IInv, TypeOK, LiveIsHeld
  <1> QED
    BY <1>6, <1>7, <1>8 DEF IInv

----------------------------------------------------------------------------
(* The invariant and what follows from it *)

\* Every step of the pipeline keeps IInv.
LEMMA NextIInv == IInv /\ [Next]_vars => IInv'
  <1> SUFFICES ASSUME IInv, [Next]_vars PROVE IInv'
    OBVIOUS
  <1>1. CASE \E c \in Clients : WriteStore(c) \/ RevertSnapshot(c) \/ CrashInStore(c)
    BY <1>1, WriteStoreStep, RevertSnapshotStep, CrashInStoreStep
  <1>2. CASE \E c \in Clients, k \in Targets, x \in Content : WriteBegin(c, k, x)
    BY <1>2, WriteBeginStep
  <1>3. CASE \E c \in Clients, k \in Targets : RevertLatest(c, k)
    BY <1>3, RevertLatestStep
  <1>4. CASE \E c \in Clients, f \in Files : RevertAt(c, f)
    BY <1>4, RevertAtStep
  <1>5. CASE \E c \in Clients : RemoteRead(c) \/ RemoteReadFails(c)
    BY <1>5, RemoteReadStep, RemoteReadFailsStep
  <1>6. CASE \E c \in Clients : RemoteWrite(c) \/ RemoteWriteFails(c)
    BY <1>6, AfterWriteStep DEF RemoteWrite, RemoteWriteFails
  <1>7. CASE \E c \in Clients : WritePlan(c)
    BY <1>7, WritePlanStep
  <1>8. CASE \E c \in Clients : RevertRestore(c)
    BY <1>8, RevertRestoreStep
  <1>9. CASE \E c \in Clients : AuditAppend(c)
    BY <1>9, AuditAppendStep
  <1>10. CASE \E k \in Targets, x \in Content \cup {None} : OutOfBandEdit(k, x)
    BY <1>10, OutOfBandEditStep
  <1>11. CASE Crash
    BY <1>11, CrashStep
  <1>12. CASE UNCHANGED vars
    BY <1>12 DEF vars, IInv, TypeOK, FutureIsEmpty, SidecarsMatch, BlobsAreOwn,
                 LiveIsHeld, CallsAreSound, CallIsSound, OwnContent, HasBlob, HasMeta
  <1> QED
    BY <1>1, <1>2, <1>3, <1>4, <1>5, <1>6, <1>7, <1>8, <1>9, <1>10, <1>11, <1>12 DEF Next

\* IInv holds in every reachable state of the write and revert handlers.
THEOREM Invariance == Spec => []IInv
  <1>1. IInv /\ [Next]_vars => IInv'
    BY NextIInv
  <1> QED
    BY <1>1, InitIInv, PTL DEF Spec

\* The store, the remote files, the calls in flight and the audit log always have
\* their types: what restore yields and what storeBackup writes is well formed.
THEOREM TypeCorrect == Spec => []TypeOK
  <1>1. IInv => TypeOK
    BY DEF IInv
  <1> QED
    BY <1>1, Invariance, PTL

\* list_backups' classification of a version with its sidecar is exactly what
\* restore does, for every number of clients and every interleaving and crash.
THEOREM SidecarTruth == Spec => []SidecarTellsTheTruth
  <1>1. IInv => SidecarTellsTheTruth
    <2> SUFFICES ASSUME IInv, NEW f \in Files, HasBlob(disk, f), HasMeta(disk, f),
                        NEW x \in Content \cup {None}
                 PROVE  ClassifyRevertible(disk, f, x) <=> Restore(disk, f, x) # None
      BY DEF SidecarTellsTheTruth
    <2> USE NoneAssumption
    <2>1. /\ disk.gz[f] \in Blob
          /\ disk.meta[f].base = disk.gz[f].base /\ disk.meta[f].kind # "metadata-only"
      BY DEF IInv, TypeOK, Disk, HasBlob, SidecarsMatch
    <2>2. disk.gz[f].data # None
      BY <2>1 DEF Blob
    <2> QED
      BY <2>1, <2>2 DEF ClassifyRevertible, ViewKind, ViewBase, Restore, ApplyReverseDiff
  <1> QED
    BY <1>1, Invariance, PTL

\* revert_file only ever writes a content the backed-up file itself has held (or
\* what a utf8 round trip makes of one), however calls interleave, fail or crash.
THEOREM RevertsOwnHistory == Spec => []RevertWritesOwnHistory
  <1>1. IInv => RevertWritesOwnHistory
    <2> SUFFICES ASSUME IInv, NEW c \in Clients, call[c].op = "revert",
                        call[c].pc \in {"store", "apply", "audit"}
                 PROVE  call[c].new \in OwnContent(KeyOf(call[c].at))
      BY DEF RevertWritesOwnHistory
    <2>1. CallIsSound(call[c])
      BY DEF IInv, CallsAreSound
    <2> QED
      BY <2>1 DEF CallIsSound
  <1> QED
    BY <1>1, Invariance, PTL

----------------------------------------------------------------------------
(* The caps of the store *)

\* A step leaves the disk alone or is a storeBackup, whole or cut after the blob, of a
\* version of some target.
LEMMA OnlyStoreBackupWrites ==
    ASSUME IInv, [Next]_vars
    PROVE  \/ disk' = disk
           \/ \E f \in Files : \E kind, hash :
                disk' \in {StoreBlob(disk, f, kind), StoreBackup(disk, f, kind, hash)}
  <1> USE StoreAssumption
  <1>1. ASSUME NEW c \in Clients, call[c].pc = "store", stamp < MaxStamp
        PROVE  NextFile(call[c]) \in Files
    <2>1. call[c].tgt \in Targets
      BY <1>1 DEF IInv, CallsAreSound, CallIsSound
    <2>2. stamp + 1 \in Stamps
      BY <1>1 DEF IInv, TypeOK, Stamps
    <2> QED
      BY <2>1, <2>2 DEF NextFile, Files
  <1>2. CASE \E c \in Clients : WriteStore(c)
    <2>1. PICK c \in Clients : WriteStore(c)
      BY <1>2
    <2>2. disk' = StoreBackup(disk, NextFile(call[c]), call[c].kind, call[c].new)
      BY <2>1 DEF WriteStore
    <2>3. NextFile(call[c]) \in Files
      BY <1>1, <2>1 DEF WriteStore
    <2> QED
      BY <2>2, <2>3
  <1>3. CASE \E c \in Clients : RevertSnapshot(c)
    <2>1. PICK c \in Clients : RevertSnapshot(c)
      BY <1>3
    <2>2. \/ disk' = disk
          \/ /\ call[c].pc = "store" /\ stamp < MaxStamp
             /\ disk' = StoreBackup(disk, NextFile(call[c]),
                                    FullKind(RawBlob(call[c].prev), FALSE), call[c].prev)
      BY <2>1 DEF RevertSnapshot
    <2> QED
      BY <1>1, <2>2
  <1>4. CASE \E c \in Clients : CrashInStore(c)
    <2>1. PICK c \in Clients : CrashInStore(c)
      BY <1>4
    <2>2. /\ call[c].pc = "store" /\ stamp < MaxStamp
          /\ \E kind : disk' = StoreBlob(disk, NextFile(call[c]), kind)
      BY <2>1 DEF CrashInStore
    <2> QED
      BY <1>1, <2>2
  <1>5. CASE ~ \E c \in Clients : WriteStore(c) \/ RevertSnapshot(c) \/ CrashInStore(c)
    <2>1. CASE UNCHANGED vars
      BY <2>1 DEF vars
    <2>2. CASE Next
      BY <1>5, <2>2 DEF Next, WriteBegin, RevertLatest, RevertAt, Revert, RemoteRead,
                        RemoteReadFails, WritePlan, RevertRestore, RemoteWrite,
                        RemoteWriteFails, AuditAppend, OutOfBandEdit, Crash
    <2> QED
      BY <2>1, <2>2
  <1> QED
    BY <1>2, <1>3, <1>4, <1>5

\* The store never exceeds its caps by more than the version stored last, for all caps
\* and sizes and whoever else stores: planEviction runs in every storeBackup, and what it
\* keeps is within the caps whatever it was given.
THEOREM StoreBounded == Spec => []StoreIsBounded
  <1>1. StoreIsBounded <=> WithinCaps(disk)
    BY DEF StoreIsBounded, WithinCaps
  <1>2. Init => StoreIsBounded
    BY <1>1, EmptyIsWithinCaps DEF Init
  <1>3. IInv /\ StoreIsBounded /\ [Next]_vars => StoreIsBounded'
    <2> SUFFICES ASSUME IInv, StoreIsBounded, [Next]_vars
                 PROVE  StoreIsBounded'
      OBVIOUS
    <2>1. StoreIsBounded' <=> WithinCaps(disk')
      BY DEF StoreIsBounded, WithinCaps
    <2>2. CASE disk' = disk
      BY <1>1, <2>1, <2>2
    <2>3. ASSUME NEW f \in Files, NEW kind, NEW hash,
                 disk' \in {StoreBlob(disk, f, kind), StoreBackup(disk, f, kind, hash)}
          PROVE  StoreIsBounded'
      <3>1. disk \in Disk
        BY DEF IInv, TypeOK
      <3>2. WithinCaps(StoreBlob(disk, f, kind)) /\ WithinCaps(StoreBackup(disk, f, kind, hash))
        BY <3>1, StoreStaysBounded
      <3>3. \/ disk' = StoreBlob(disk, f, kind)
            \/ disk' = StoreBackup(disk, f, kind, hash)
        BY <2>3
      <3> QED
        BY <2>1, <3>2, <3>3
    <2> QED
      BY <2>2, <2>3, OnlyStoreBackupWrites
  <1> QED
    BY <1>2, <1>3, Invariance, PTL DEF Spec

----------------------------------------------------------------------------
(* Every revert leaves a record *)

\* A call r is the revert with this id, in flight.
IsRevert(r, id) == r.pc # "idle" /\ r.op = "revert" /\ r.id = id

\* A step of one client keeps track of the reverts that owe a record when it forgets no
\* record, and when what it newly owes and the revert it had in flight, if any, are
\* still in flight or recorded.
LEMMA KeepsTrack ==
    ASSUME IInv, RevertsAreTracked, NEW c \in Clients, NEW r, Step(c, r), audit \subseteq audit',
           \A o \in owed' : o.op = "revert" =>
              o \in owed \/ IsRevert(r, o.id) \/ \E a \in audit' : a.id = o.id,
           \A id : IsRevert(call[c], id) => IsRevert(r, id) \/ \E a \in audit' : a.id = id
    PROVE  RevertsAreTracked'
  <1> SUFFICES ASSUME NEW o \in owed', o.op = "revert",
                      ~ \E a \in audit' : a.id = o.id
               PROVE  \E d \in Clients : IsRevert(call'[d], o.id)
    BY DEF RevertsAreTracked, IsRevert
  <1>1. /\ call'[c] = r
        /\ \A d \in Clients : d # c => call'[d] = call[d]
    BY DEF IInv, TypeOK, Step
  <1>2. CASE IsRevert(r, o.id)
    BY <1>1, <1>2
  <1>3. CASE o \in owed
    <2>1. PICK d \in Clients : IsRevert(call[d], o.id)
      BY <1>3 DEF RevertsAreTracked, IsRevert
    <2>2. CASE d = c
      BY <1>1, <2>1, <2>2
    <2>3. CASE d # c
      BY <1>1, <2>1, <2>3
    <2> QED
      BY <2>2, <2>3
  <1> QED
    BY <1>2, <1>3

\* A call that goes on keeps its id and its kind; if it ends without a record it was a
\* write.
LEMMA GoingOnKeepsTrack ==
    ASSUME IInv, RevertsAreTracked, NEW c \in Clients, NEW r, Step(c, r),
           owed' \subseteq owed \cup {[id |-> call[c].id, op |-> call[c].op]},
           audit' = audit, call[c].pc # "idle",
           \/ r.pc # "idle" /\ r.op = call[c].op /\ r.id = call[c].id
           \/ call[c].op # "revert"
    PROVE  RevertsAreTracked'
  <1>1. \A o \in owed' : o.op = "revert" =>
           o \in owed \/ IsRevert(r, o.id) \/ \E a \in audit' : a.id = o.id
    BY DEF IsRevert
  <1>2. \A id : IsRevert(call[c], id) => IsRevert(r, id) \/ \E a \in audit' : a.id = id
    BY DEF IsRevert
  <1> QED
    BY <1>1, <1>2, KeepsTrack

\* Every step keeps track of the reverts that owe a record.
LEMMA NextKeepsTrack == IInv /\ RevertsAreTracked /\ [Next]_vars => RevertsAreTracked'
  <1> SUFFICES ASSUME IInv, RevertsAreTracked, [Next]_vars
               PROVE  RevertsAreTracked'
    OBVIOUS
  <1>1. ASSUME NEW c \in Clients
        PROVE  \E r \in Call : r = call[c] /\ (r.pc # "idle" => CallIsSound(r))
    BY DEF IInv, TypeOK, CallsAreSound
  <1>2. ASSUME NEW c \in Clients, NEW k \in Targets, NEW x \in Content, WriteBegin(c, k, x)
        PROVE  RevertsAreTracked'
    <2>1. PICK r : Step(c, r)
      BY <1>2 DEF WriteBegin
    <2>2. call[c].pc = "idle" /\ owed' = owed /\ audit' = audit
      BY <1>2 DEF WriteBegin
    <2>3. \A o \in owed' : o.op = "revert" =>
             o \in owed \/ IsRevert(r, o.id) \/ \E a \in audit' : a.id = o.id
      BY <2>2
    <2>4. \A id : IsRevert(call[c], id) => IsRevert(r, id) \/ \E a \in audit' : a.id = id
      BY <2>2 DEF IsRevert
    <2> QED
      BY <2>1, <2>2, <2>3, <2>4, KeepsTrack
  <1>3. ASSUME NEW c \in Clients, NEW f \in Files, NEW k, Revert(c, f, k)
        PROVE  RevertsAreTracked'
    <2> DEFINE r == [Idle EXCEPT !.pc = "read", !.op = "revert", !.id = calls + 1,
                                 !.tgt = k, !.at = f]
    <2>1. r.pc = "read" /\ r.op = "revert" /\ r.id = calls + 1
      BY DEF Idle
    <2>2. RecordFor(r, "refused").id = calls + 1
      BY <2>1 DEF RecordFor
    <2>3. /\ call[c].pc = "idle"
          /\ owed' = owed \cup {[id |-> r.id, op |-> "revert"]}
          /\ \/ Step(c, r) /\ audit' = audit
             \/ audit' = audit \cup {RecordFor(r, "refused")} /\ call' = call
      BY <1>3 DEF Revert
    <2> DEFINE record == RecordFor(r, "refused")
    <2> HIDE DEF r, record
    <2>4. CASE Step(c, r) /\ audit' = audit
      <3>1. \A o \in owed' : o.op = "revert" =>
               o \in owed \/ IsRevert(r, o.id) \/ \E a \in audit' : a.id = o.id
        BY <2>1, <2>3 DEF IsRevert
      <3>2. \A id : IsRevert(call[c], id) => IsRevert(r, id) \/ \E a \in audit' : a.id = id
        BY <2>3 DEF IsRevert
      <3> QED
        BY <2>4, <3>1, <3>2, KeepsTrack
    <2>5. CASE audit' = audit \cup {record} /\ call' = call
      <3>1. record.id = calls + 1
        BY <2>2 DEF record
      <3> QED
        BY <2>1, <2>3, <2>5, <3>1 DEF RevertsAreTracked
    <2> QED
      BY <2>3, <2>4, <2>5 DEF record
  <1>4. ASSUME NEW c \in Clients, RemoteRead(c)
        PROVE  RevertsAreTracked'
    <2>1. PICK r \in Call : r = call[c]
      BY <1>1
    <2> DEFINE q == [r EXCEPT !.pc = AfterRead(r.op), !.prev = live[r.tgt]]
    <2>2. q.pc # "idle" /\ q.op = r.op /\ q.id = r.id
      BY DEF Call, AfterRead
    <2>3. Step(c, q) /\ r.pc = "read" /\ owed' = owed /\ audit' = audit
      BY <1>4, <2>1 DEF RemoteRead
    <2> HIDE DEF q
    <2> QED
      BY <2>1, <2>2, <2>3, GoingOnKeepsTrack
  <1>5. ASSUME NEW c \in Clients, RemoteReadFails(c)
        PROVE  RevertsAreTracked'
    <2>1. PICK r \in Call : r = call[c]
      BY <1>1
    <2>2. PICK q : Step(c, q) /\ (\/ q = [r EXCEPT !.pc = AfterRead(r.op)]
                                  \/ r.op = "write"
                                  \/ q = [r EXCEPT !.pc = "fail"])
      BY <1>5, <2>1 DEF RemoteReadFails
    <2>3. r.pc = "read" /\ owed' = owed /\ audit' = audit
      BY <1>5, <2>1 DEF RemoteReadFails
    <2>4. \/ q.pc # "idle" /\ q.op = r.op /\ q.id = r.id
          \/ r.op # "revert"
      BY <2>2 DEF Call, AfterRead
    <2> QED
      BY <2>1, <2>2, <2>3, <2>4, GoingOnKeepsTrack
  <1>6. ASSUME NEW c \in Clients, WritePlan(c)
        PROVE  RevertsAreTracked'
    <2>1. PICK r \in Call : r = call[c] /\ (r.pc # "idle" => CallIsSound(r))
      BY <1>1
    <2>2. r.pc = "plan" /\ owed' = owed /\ audit' = audit
      BY <1>6, <2>1 DEF WritePlan
    <2>3. r.op # "revert"
      BY <2>1, <2>2 DEF CallIsSound
    <2>4. PICK q : Step(c, q)
      BY <1>6 DEF WritePlan
    <2> QED
      BY <2>1, <2>2, <2>3, <2>4, GoingOnKeepsTrack
  <1>7. ASSUME NEW c \in Clients, WriteStore(c)
        PROVE  RevertsAreTracked'
    <2>1. PICK q : Step(c, q)
      BY <1>7 DEF WriteStore
    <2>2. call[c].pc = "store" /\ call[c].op = "write" /\ owed' = owed /\ audit' = audit
      BY <1>7 DEF WriteStore
    <2> QED
      BY <2>1, <2>2, GoingOnKeepsTrack
  <1>8. ASSUME NEW c \in Clients, RevertRestore(c)
        PROVE  RevertsAreTracked'
    <2>1. PICK r \in Call : r = call[c]
      BY <1>1
    <2>2. PICK x : Step(c, IF x = None THEN [r EXCEPT !.pc = "fail"]
                           ELSE [r EXCEPT !.pc = "store", !.new = x])
      BY <1>8, <2>1 DEF RevertRestore
    <2>3. PICK q : Step(c, q) /\ (\/ q = [r EXCEPT !.pc = "fail"]
                                  \/ q = [r EXCEPT !.pc = "store", !.new = x])
      BY <2>2
    <2>4. q.pc # "idle" /\ q.op = r.op /\ q.id = r.id
      BY <2>3 DEF Call
    <2>5. r.pc = "restore" /\ owed' = owed /\ audit' = audit
      BY <1>8, <2>1 DEF RevertRestore
    <2> QED
      BY <2>1, <2>3, <2>4, <2>5, GoingOnKeepsTrack
  <1>9. ASSUME NEW c \in Clients, RevertSnapshot(c)
        PROVE  RevertsAreTracked'
    <2>1. PICK r \in Call : r = call[c]
      BY <1>1
    <2> DEFINE q == [r EXCEPT !.pc = "apply"]
    <2>2. q.pc # "idle" /\ q.op = r.op /\ q.id = r.id
      BY DEF Call
    <2>3. Step(c, q) /\ r.pc = "store" /\ owed' = owed /\ audit' = audit
      BY <1>9, <2>1 DEF RevertSnapshot
    <2> HIDE DEF q
    <2> QED
      BY <2>1, <2>2, <2>3, GoingOnKeepsTrack
  <1>10. ASSUME NEW c \in Clients, RemoteWrite(c) \/ RemoteWriteFails(c)
         PROVE  RevertsAreTracked'
    <2>1. PICK r \in Call : r = call[c]
      BY <1>1
    <2>2. PICK q : Step(c, q) /\ (\/ q = [r EXCEPT !.pc = "audit"]
                                  \/ r.op = "write"
                                  \/ q = [r EXCEPT !.pc = "fail"])
      BY <1>10, <2>1 DEF RemoteWrite, RemoteWriteFails
    <2>3. /\ r.pc = "apply" /\ audit' = audit
          /\ owed' \subseteq owed \cup {[id |-> r.id, op |-> r.op]}
      BY <1>10, <2>1 DEF RemoteWrite, RemoteWriteFails, Take
    <2>4. \/ q.pc # "idle" /\ q.op = r.op /\ q.id = r.id
          \/ r.op # "revert"
      BY <2>2 DEF Call
    <2> QED
      BY <2>1, <2>2, <2>3, <2>4, GoingOnKeepsTrack
  <1>11. ASSUME NEW c \in Clients, AuditAppend(c)
         PROVE  RevertsAreTracked'
    <2>1. PICK outcome : audit' = audit \cup {RecordFor(call[c], outcome)}
      BY <1>11 DEF AuditAppend
    <2> DEFINE record == RecordFor(call[c], outcome)
    <2>2. record.id = call[c].id
      BY DEF RecordFor
    <2>3. Step(c, Idle) /\ owed' = owed
      BY <1>11 DEF AuditAppend
    <2> HIDE DEF record
    <2>4. record \in audit' /\ audit \subseteq audit'
      BY <2>1 DEF record
    <2>5. \A o \in owed' : o.op = "revert" =>
             o \in owed \/ IsRevert(Idle, o.id) \/ \E a \in audit' : a.id = o.id
      BY <2>3
    <2>6. \A id : IsRevert(call[c], id) => IsRevert(Idle, id) \/ \E a \in audit' : a.id = id
      BY <2>2, <2>4 DEF IsRevert
    <2> QED
      BY <2>3, <2>4, <2>5, <2>6, KeepsTrack
  <1>12. ASSUME owed' = {}
         PROVE  RevertsAreTracked'
    BY <1>12 DEF RevertsAreTracked
  <1>13. ASSUME UNCHANGED <<owed, audit, call>>
         PROVE  RevertsAreTracked'
    BY <1>13 DEF RevertsAreTracked
  <1>14. ASSUME NEW c \in Clients, NEW k \in Targets, RevertLatest(c, k)
         PROVE  RevertsAreTracked'
    <2>1. LatestRevertible(disk, k) \in Files
      BY <1>14, LatestRevertibleIsAVersion DEF RevertLatest
    <2> QED
      BY <1>3, <1>14, <2>1 DEF RevertLatest
  <1>15. ASSUME NEW c \in Clients, NEW f \in Files, RevertAt(c, f)
         PROVE  RevertsAreTracked'
    BY <1>3, <1>15 DEF RevertAt
  <1>16. CASE \E c \in Clients : CrashInStore(c)
    BY <1>12, <1>16 DEF CrashInStore
  <1>17. CASE \E k \in Targets, x \in Content \cup {None} : OutOfBandEdit(k, x)
    BY <1>13, <1>17 DEF OutOfBandEdit
  <1>18. CASE Crash
    BY <1>12, <1>18 DEF Crash
  <1>19. CASE UNCHANGED vars
    BY <1>13, <1>19 DEF vars
  <1> QED
    BY <1>2, <1>4, <1>5, <1>6, <1>7, <1>8, <1>9, <1>10, <1>11, <1>14, <1>15, <1>16, <1>17,
       <1>18, <1>19 DEF Next

\* Once no call is in flight, every revert that passed or was refused by the breaker
\* since the last start has its audit record: no early return and no catch block of
\* revertFileHandler loses one, for any number of clients and any faults.
THEOREM RevertsAudited == Spec => []EveryRevertAudited
  <1>1. Init => RevertsAreTracked
    BY DEF Init, RevertsAreTracked
  <1>2. RevertsAreTracked => EveryRevertAudited
    BY DEF RevertsAreTracked, EveryRevertAudited, Quiet
  <1> QED
    BY <1>1, <1>2, NextKeepsTrack, Invariance, PTL DEF Spec

----------------------------------------------------------------------------
(* One call at a time: the newest version of a file survives eviction *)

\* When all the versions the clock can give fit, no set of entries is over the size cap.
LEMMA SizeCapIsOutOfReach ==
    ASSUME Sequential, NEW E \in SUBSET Entry
    PROVE  TotalSize(E) <= GlobalSizeCapBytes
  <1> DEFINE Of(x) == {e \in E : e.ext = x}
             N == Cardinality(Files)
  <1>1. IsFiniteSet(Files)
    <2>1. IsFiniteSet(Stamps)
      BY StoreAssumption, FS_Interval DEF Stamps
    <2> QED
      BY <2>1, StoreAssumption, FS_Product DEF Files
  <1>2. N \in Nat
    BY <1>1, FS_CardinalityType
  <1>3. ASSUME NEW x \in {"gz", "meta"}
        PROVE  Cardinality(Of(x)) \in Nat /\ Cardinality(Of(x)) <= N
    <2> DEFINE version == [e \in Of(x) |-> <<e.key, e.ts>>]
    <2>1. \A e \in Of(x) : e \in Entry /\ e.ext = x
      OBVIOUS
    <2> HIDE DEF Of
    <2>2. version \in [Of(x) -> Files]
      BY <2>1 DEF Entry, Files
    <2>3. \A d, e \in Of(x) : version[d] = version[e] => d = e
      BY <2>1 DEF Entry
    <2>4. version \in Injection(Of(x), Files)
      BY <2>2, <2>3 DEF Injection, IsInjective
    <2> HIDE DEF version, N
    <2>5. IsFiniteSet(Of(x)) /\ Cardinality(Of(x)) <= Cardinality(Files)
      BY <1>1, <2>4, FS_Injection
    <2> QED
      BY <2>5, FS_CardinalityType DEF N
  <1>4. TotalSize(E) = BlobBytes * Cardinality(Of("gz")) + MetaBytes * Cardinality(Of("meta"))
    BY DEF TotalSize
  <1>5. (BlobBytes + MetaBytes) * N <= GlobalSizeCapBytes
    BY DEF Sequential
  <1> HIDE DEF Of, N
  <1>6. /\ BlobBytes * Cardinality(Of("gz")) <= BlobBytes * N
        /\ BlobBytes * Cardinality(Of("gz")) \in Nat
    BY <1>2, <1>3, ProductGrows, StoreAssumption
  <1>7. /\ MetaBytes * Cardinality(Of("meta")) <= MetaBytes * N
        /\ MetaBytes * Cardinality(Of("meta")) \in Nat
    BY <1>2, <1>3, ProductGrows, StoreAssumption
  <1>8. (BlobBytes + MetaBytes) * N = BlobBytes * N + MetaBytes * N
        /\ BlobBytes * N \in Nat /\ MetaBytes * N \in Nat
    BY <1>2, StoreAssumption
  <1>9. GlobalSizeCapBytes \in Nat
    BY StoreAssumption
  <1> QED
    BY <1>4, <1>5, <1>6, <1>7, <1>8, <1>9

\* A blob file or sidecar of one directory is evicted before another whose version is
\* newer, whatever Date makes of the stamps.
LEMMA OlderPrecedes ==
    ASSUME NEW a \in Entry, NEW b \in Entry, a.key = b.key, a.ts < b.ts
    PROVE  Precedes(a, b)
  <1>1. a.ts \in Nat /\ b.ts \in Nat /\ StampGranularity \in Nat \ {0}
    BY StoreAssumption DEF Entry, Stamps
  <1>2. \A m, n \in Nat : \A g \in Nat \ {0} : m < n => m \div g < n \div g \/ m \div g = n \div g
    OBVIOUS
  <1>3. DirPrecedes(a, b)
    BY DEF DirPrecedes
  <1> QED
    BY <1>1, <1>2, <1>3 DEF Precedes

\* Eviction leaves the newest version of a file, blob and sidecar.
LEMMA NewestIsKept ==
    ASSUME Sequential, NEW d \in Disk, NEW f \in Files, Newest(f, d)
    PROVE  /\ RunEviction(d).gz[f] = d.gz[f]
           /\ RunEviction(d).meta[f] = d.meta[f]
  <1> DEFINE E == ListEntries(d)
             rest == E \ OverFileCap(E)
             Part(x) == [key |-> KeyOf(f), ts |-> StampOf(f), ext |-> x]
             keep == PlanEviction(d).toKeep
  <1>1. E \subseteq Entry
    BY ListEntriesType
  <1>2. PerFileVersionCap \in Nat /\ PerFileVersionCap >= 2 /\ GlobalSizeCapBytes \in Nat
    BY StoreAssumption DEF Sequential
  <1>3. \A e \in E : e.key = KeyOf(f) => e.ts <= StampOf(f)
    <2> SUFFICES ASSUME NEW e \in E, e.key = KeyOf(f)
                 PROVE  e.ts <= StampOf(f)
      OBVIOUS
    <2>1. PICK g \in Files : /\ HasBlob(d, g) \/ HasMeta(d, g)
                             /\ e.key = KeyOf(g) /\ e.ts = StampOf(g)
      BY DEF ListEntries
    <2>2. g \in Versions(d, KeyOf(f))
      BY <2>1 DEF Versions
    <2> QED
      BY <2>1, <2>2 DEF Newest
  <1>4. ASSUME NEW x \in {"gz", "meta"}, Part(x) \in E
        PROVE  Part(x) \in keep
    <2> DEFINE e == Part(x)
               from == {a \in E : a.key = e.key /\ ~Precedes(a, e)}
    <2>1. e \in Entry /\ e.key = KeyOf(f) /\ e.ts = StampOf(f) /\ e.ts \in Nat
      BY <1>1, <1>4 DEF Files, StampOf, Stamps
    <2> HIDE DEF e
    <2>2. from \subseteq {Part("gz")} \cup {Part("meta")}
      <3> SUFFICES ASSUME NEW a \in from
                   PROVE  a \in {Part("gz")} \cup {Part("meta")}
        OBVIOUS
      <3>1. a \in E /\ a.key = e.key /\ ~Precedes(a, e)
        OBVIOUS
      <3>2. a \in Entry
        BY <1>1, <3>1
      <3>3. a.ts \in Nat /\ a.ts <= e.ts
        BY <1>3, <2>1, <3>1, <3>2 DEF Entry, Stamps
      <3>4. a.ts = StampOf(f)
        BY <2>1, <3>1, <3>2, <3>3, OlderPrecedes
      <3> QED
        BY <2>1, <3>1, <3>2, <3>4 DEF Entry
    <2> DEFINE pair == {Part("gz")} \cup {Part("meta")}
    <2>3. IsFiniteSet(pair) /\ Cardinality(pair) <= 2 /\ Cardinality(pair) \in Nat
      <3> DEFINE one == {Part("gz")}
      <3>1. IsFiniteSet(one) /\ Cardinality(one) = 1
        BY FS_Singleton
      <3> HIDE DEF one
      <3>2. IsFiniteSet(one \cup {Part("meta")}) /\ Cardinality(one \cup {Part("meta")}) <= 2
        <4> HIDE DEF Part
        <4>1. PICK y : y = Part("meta")
          OBVIOUS
        <4>2. /\ IsFiniteSet(one \cup {y})
              /\ Cardinality(one \cup {y}) = IF y \in one THEN Cardinality(one) ELSE Cardinality(one) + 1
          BY <3>1, FS_AddElement
        <4>3. Cardinality(one \cup {y}) <= 2
          BY <3>1, <4>2
        <4> QED
          BY <4>1, <4>2, <4>3
      <3>3. pair = one \cup {Part("meta")}
        BY DEF one
      <3> HIDE DEF pair
      <3> QED
        BY <3>2, <3>3, FS_CardinalityType
    <2> HIDE DEF from, pair
    <2>4. Cardinality(from) <= 2 /\ Cardinality(from) \in Nat
      <3>1. from \in SUBSET pair
        BY <2>2 DEF pair
      <3>2. IsFiniteSet(from) /\ Cardinality(from) <= Cardinality(pair)
        BY <2>3, <3>1, FS_Subset
      <3> QED
        BY <2>3, <3>2, FS_CardinalityType
    <2>5. ~(Cardinality(from) > PerFileVersionCap)
      BY <1>2, <2>4
    <2>6. e \notin OverFileCap(E)
      BY <2>5 DEF OverFileCap, from
    <2>7. e \in rest
      BY <1>4, <2>6 DEF e
    <2>8. e \notin OverSizeCap(rest)
      <3> DEFINE behind == {a \in rest : ~Precedes(a, e)}
      <3>1. behind \in SUBSET Entry
        BY <1>1
      <3> HIDE DEF behind
      <3>2. TotalSize(behind) <= GlobalSizeCapBytes
        BY <3>1, SizeCapIsOutOfReach
      <3>3. TotalSize(behind) \in Nat
        BY <3>1, EntriesAreFinite, SizeGrows
      <3>4. ~(TotalSize(behind) > GlobalSizeCapBytes)
        BY <1>2, <3>2, <3>3
      <3> QED
        BY <3>4 DEF OverSizeCap, behind
    <2>9. keep = rest \ OverSizeCap(rest)
      BY DEF PlanEviction, OverSizeCap
    <2> HIDE DEF rest, keep
    <2>10. e \in keep
      BY <2>7, <2>8, <2>9
    <2> QED
      BY <2>10 DEF e
  <1>5. /\ RunEviction(d).gz[f] = IF Part("gz") \in keep THEN d.gz[f] ELSE None
        /\ RunEviction(d).meta[f] = IF Part("meta") \in keep THEN d.meta[f] ELSE None
    BY DEF RunEviction
  <1>6. /\ d.gz[f] # None => Part("gz") \in E
        /\ d.meta[f] # None => Part("meta") \in E
    BY DEF ListEntries, HasBlob, HasMeta
  <1> HIDE DEF keep, E, Part
  <1> QED
    BY <1>4, <1>5, <1>6

\* A version holds its file's key and its stamp, and nothing else.
LEMMA FileIsKeyAndStamp ==
    ASSUME NEW f \in Files, NEW g \in Files, KeyOf(f) = KeyOf(g), StampOf(f) = StampOf(g)
    PROVE  f = g
  BY DEF Files, KeyOf, StampOf

\* storeBackup of one version keeps the newest one of every file, which stays the newest
\* of any other file than the one stored for.
LEMMA StoringKeepsNewest ==
    ASSUME Sequential, NEW d \in Disk, NEW g \in Files, NEW kind \in Kind, NEW hash \in Content,
           ~HasMeta(d, g), NEW q, NEW f \in Files, Holds(q, f, d), Newest(f, d)
    PROVE  LET s == StoreBackup(d, g, kind, hash)
           IN  Holds(q, f, s) /\ (KeyOf(f) # KeyOf(g) => Newest(f, s))
  <1> DEFINE e == RunEviction(d)
             b == StoreBlob(d, g, kind)
             s == StoreBackup(d, g, kind, hash)
  <1>1. f # g
    BY DEF Holds
  <1>2. e \in Disk /\ e.gz[f] = d.gz[f] /\ e.meta[f] = d.meta[f]
    BY EvictionOnlyRemoves, NewestIsKept
  <1>3. b.gz[f] = e.gz[f] /\ b.meta[f] = e.meta[f] /\ b \in Disk
    <2>1. b = IF kind.blob = None THEN e ELSE [e EXCEPT !.gz = [@ EXCEPT ![g] = kind.blob]]
      BY DEF StoreBlob
    <2>2. b \in Disk
      BY StoreWritesOneVersion
    <2> HIDE DEF e, b
    <2> QED
      BY <1>1, <1>2, <2>1, <2>2 DEF Disk
  <1>4. s.gz[f] = b.gz[f] /\ s.meta[f] = b.meta[f]
    <2>1. s = IF kind.type = "dedup" THEN b
              ELSE [b EXCEPT !.meta = [@ EXCEPT ![g] = MetaFor(kind, hash)]]
      BY DEF StoreBackup
    <2> HIDE DEF s, b
    <2> QED
      BY <1>1, <1>3, <2>1 DEF Disk
  <1>5. \A x \in Files : x # g => s.gz[x] \in {d.gz[x], None} /\ s.meta[x] \in {d.meta[x], None}
    BY StoreWritesOneVersion
  <1> HIDE DEF e, b, s
  <1>6. Holds(q, f, s)
    BY <1>2, <1>3, <1>4 DEF Holds, HasMeta, HasBlob
  <1>7. ASSUME KeyOf(f) # KeyOf(g)
        PROVE  Newest(f, s)
    <2> SUFFICES ASSUME NEW x \in Versions(s, KeyOf(f))
                 PROVE  StampOf(x) <= StampOf(f)
      BY DEF Newest
    <2>1. x \in Files /\ x # g /\ KeyOf(x) = KeyOf(f) /\ (HasBlob(s, x) \/ HasMeta(s, x))
      BY <1>7 DEF Versions
    <2>2. x \in Versions(d, KeyOf(f))
      BY <1>5, <2>1 DEF Versions, HasBlob, HasMeta
    <2> QED
      BY <2>2 DEF Newest
  <1> QED
    BY <1>6, <1>7 DEF s

\* What storeBackup stores is the newest version of its file when the clock has not given
\* a later stamp.
LEMMA StoredIsNewest ==
    ASSUME NEW d \in Disk, NEW g \in Files, NEW kind \in Kind, NEW hash \in Content,
           kind.type # "dedup",
           \A x \in Files : StampOf(x) > StampOf(g) => ~HasBlob(d, x) /\ ~HasMeta(d, x)
    PROVE  LET s == StoreBackup(d, g, kind, hash)
           IN  /\ HasMeta(s, g) /\ s.meta[g].hash = hash
               /\ kind.blob # None => s.gz[g] = kind.blob
               /\ Newest(g, s)
  <1> DEFINE s == StoreBackup(d, g, kind, hash)
  <1>1. /\ \A x \in Files : x # g => s.gz[x] \in {d.gz[x], None} /\ s.meta[x] \in {d.meta[x], None}
        /\ s.meta[g] = MetaFor(kind, hash)
        /\ kind.blob # None => s.gz[g] = kind.blob
    BY StoreWritesOneVersion
  <1> HIDE DEF s
  <1>2. MetaFor(kind, hash) \in Meta /\ MetaFor(kind, hash).hash = hash
    BY DEF MetaFor, Meta, Kind, Blob
  <1>3. HasMeta(s, g) /\ s.meta[g].hash = hash
    BY <1>1, <1>2, NoneAssumption DEF HasMeta
  <1>4. Newest(g, s)
    <2> SUFFICES ASSUME NEW x \in Versions(s, KeyOf(g)), ~(StampOf(x) <= StampOf(g))
                 PROVE  FALSE
      BY DEF Newest
    <2>1. x \in Files /\ (s.gz[x] # None \/ s.meta[x] # None)
      BY DEF Versions, HasBlob, HasMeta
    <2>2. StampOf(x) \in Nat /\ StampOf(g) \in Nat
      BY <2>1 DEF Files, StampOf, Stamps
    <2>3. x # g /\ d.gz[x] = None /\ d.meta[x] = None
      BY <2>1, <2>2 DEF HasBlob, HasMeta
    <2> QED
      BY <1>1, <2>1, <2>3
  <1> QED
    BY <1>1, <1>3, <1>4 DEF s

\* latestBaseHash reads the sidecar of the newest version, when it has one.
LEMMA NewestSidecar ==
    ASSUME NEW d, NEW f \in Files, HasMeta(d, f), Newest(f, d)
    PROVE  LatestBaseHash(d, KeyOf(f)) = d.meta[f].hash
  <1> DEFINE k == KeyOf(f)
             metas == {t \in Stamps : HasMeta(d, <<k, t>>)}
             last == CHOOSE t \in metas : \A u \in metas : t >= u
  <1>1. StampOf(f) \in Stamps /\ f = <<k, StampOf(f)>> /\ k \in Targets
    BY DEF Files, StampOf, KeyOf
  <1>2. StampOf(f) \in metas
    BY <1>1
  <1>3. \A u \in metas : u <= StampOf(f) /\ u \in Nat
    <2> SUFFICES ASSUME NEW u \in metas
                 PROVE  u <= StampOf(f) /\ u \in Nat
      OBVIOUS
    <2>1. <<k, u>> \in Versions(d, k) /\ StampOf(<<k, u>>) = u
      BY <1>1 DEF Versions, Files, KeyOf, StampOf
    <2> QED
      BY <2>1 DEF Newest, Stamps
  <1>4. LatestBaseHash(d, k) = d.meta[<<k, last>>].hash
    BY <1>2 DEF LatestBaseHash
  <1> HIDE DEF metas
  <1>5. \A u \in metas : StampOf(f) >= u
    BY <1>2, <1>3
  <1>6. last \in metas /\ last >= StampOf(f)
    BY <1>2, <1>5
  <1>7. last = StampOf(f)
    <2> HIDE DEF last
    <2> QED
      BY <1>2, <1>3, <1>6
  <1> QED
    BY <1>1, <1>4, <1>7

\* revert_file by path takes the newest version, when it holds content.
LEMMA NewestBlob ==
    ASSUME NEW d, NEW f \in Files, HasBlob(d, f), Newest(f, d)
    PROVE  LatestRevertible(d, KeyOf(f)) = f
  <1> DEFINE H == {g \in Versions(d, KeyOf(f)) : HasBlob(d, g)}
             last == CHOOSE g \in H : \A x \in H : StampOf(g) >= StampOf(x)
  <1>1. f \in H
    BY DEF Versions
  <1>2. \A g \in H : g \in Files /\ KeyOf(g) = KeyOf(f) /\ StampOf(g) <= StampOf(f) /\ StampOf(g) \in Nat
    BY DEF Versions, Newest, Files, StampOf, Stamps
  <1>3. LatestRevertible(d, KeyOf(f)) = last
    BY <1>1 DEF LatestRevertible
  <1> HIDE DEF H
  <1>4. \A x \in H : StampOf(f) >= StampOf(x)
    BY <1>1, <1>2
  <1>5. last \in H /\ StampOf(last) >= StampOf(f)
    BY <1>1, <1>4
  <1> HIDE DEF last
  <1>6. StampOf(last) = StampOf(f)
    BY <1>1, <1>2, <1>5
  <1> QED
    BY <1>1, <1>2, <1>3, <1>5, <1>6, FileIsKeyAndStamp

\* A diff is a diff of what the write overwrites, a re-anchor snapshot holds it, and a
\* text that is not what the newest sidecar records is re-anchored when it is stored.
LEMMA SelectKindHoldsPrevious ==
    ASSUME NEW new, NEW prev \in Content \cup {None}, NEW existing, NEW chainBase,
           NEW k \in Kind, k = SelectBackupKind(new, prev, existing, chainBase)
    PROVE  /\ k.type = "gzip-diff" => k.blob = ComputeReverseDiff(new, prev)
           /\ k.reanchored = FALSE \/ (k.blob # None /\ k.blob = RawBlob(prev))
           /\ k.type \in {"gzip-diff", "gzip-full"} /\ prev # None /\ new \notin Binary
                /\ Drifted(prev, chainBase) => k.reanchored = TRUE
  <1> DEFINE delta == [type |-> "gzip-diff", at |-> None,
                       blob |-> ComputeReverseDiff(new, prev), reanchored |-> FALSE]
  <1>1. CASE existing[new] # None
    BY <1>1 DEF SelectBackupKind
  <1>2. CASE existing[new] = None /\ new \in Large
             /\ (LargeFilePolicy = "metadata-only" \/ new \in Binary)
    BY <1>2 DEF SelectBackupKind
  <1>3. CASE existing[new] = None /\ ~(new \in Large
             /\ (LargeFilePolicy = "metadata-only" \/ new \in Binary))
    <2>1. k = IF prev = None \/ new \in Binary THEN FullKind(RawBlob(new), FALSE)
              ELSE IF Drifted(prev, chainBase) THEN FullKind(RawBlob(prev), TRUE) ELSE delta
      BY <1>3 DEF SelectBackupKind
    <2>2. CASE prev = None \/ new \in Binary
      BY <2>1, <2>2 DEF FullKind
    <2>3. CASE prev # None /\ new \notin Binary /\ Drifted(prev, chainBase)
      <3>1. k = FullKind(RawBlob(prev), TRUE)
        BY <2>1, <2>3
      <3>2. RawBlob(prev) # None
        BY <2>3, NoneAssumption DEF RawBlob, Blob
      <3> QED
        BY <3>1, <3>2 DEF FullKind
    <2>4. CASE prev # None /\ new \notin Binary /\ ~Drifted(prev, chainBase)
      <3>1. k = delta
        BY <2>1, <2>4
      <3> QED
        BY <2>4, <3>1
    <2> QED
      BY <2>2, <2>3, <2>4
  <1> QED
    BY <1>1, <1>2, <1>3

----------------------------------------------------------------------------
(* One call at a time: what the last change stored stays on top *)

\* A call that goes on or ends without touching the store or the audit trail keeps the
\* sequence; what it plans must hold what the write overwrites.
LEMMA MovesOnInSequence ==
    ASSUME Sequential, IInv, InSequence, NEW c \in Clients, NEW q \in Call, Step(c, q),
           UNCHANGED <<disk, calls, audit>>, call[c].pc # "idle",
           q.pc # "idle" => q.id = call[c].id,
           \/ ~Stored(call[c]) /\ ~Stored(q)
           \/ /\ Stored(call[c]) /\ Stored(q)
              /\ RecordFor(q, "ok") = RecordFor(call[c], "ok"),
           q.pc = "store" => Reanchors(q) /\ (q.op = "write" => HoldsPrevious(q))
    PROVE  InSequence'
  <1>1. \A d \in Clients : d = c
    BY DEF Sequential
  <1>2. call'[c] = q
    BY DEF IInv, TypeOK, Step
  <1>3. PICK r : r = call[c]
    OBVIOUS
  <1>4. Stored(q) => /\ Stored(r) /\ q.tgt = r.tgt
                     /\ q.kind.reanchored = r.kind.reanchored
                     /\ RecordFor(q, "ok") = RecordFor(r, "ok")
    BY <1>3 DEF RecordFor
  <1>5. IdsInOrder'
    BY <1>1, <1>2 DEF InSequence, IdsInOrder
  <1>6. StoredIsOnTop'
    BY <1>1, <1>2, <1>3, <1>4 DEF InSequence, StoredIsOnTop
  <1>7. LastChangeIsKept'
    <2>1. ASSUME NEW p \in audit, IsLast(p, p.tgt)
          PROVE  IsKept(p, disk) /\ (IsOnTop(p, disk) \/ (Stored(q) /\ q.tgt = p.tgt))
      <3>1. IsKept(p, disk) /\ (IsOnTop(p, disk) \/ (Stored(r) /\ r.tgt = p.tgt))
        BY <1>1, <1>3, <2>1 DEF InSequence, LastChangeIsKept
      <3> QED
        BY <1>3, <1>4, <3>1
    <2> QED
      BY <1>2, <2>1 DEF LastChangeIsKept, IsLast
  <1>8. PlanHoldsPrevious'
    BY <1>1, <1>2 DEF PlanHoldsPrevious
  <1>9. DriftReanchors'
    <2>1. ASSUME q.pc \in {"store", "apply", "audit"}
          PROVE  Reanchors(q)
      <3>1. CASE q.pc = "store"
        BY <3>1
      <3>2. CASE Stored(q)
        <4>1. Reanchors(r)
          BY <1>3, <1>4, <3>2 DEF InSequence, DriftReanchors, Stored
        <4> QED
          BY <1>4, <3>2, <4>1 DEF Reanchors
      <3> QED
        BY <2>1, <3>1, <3>2 DEF Stored
    <2> QED
      BY <1>1, <1>2, <2>1 DEF InSequence, DriftReanchors, Reanchors
  <1> QED
    BY <1>5, <1>6, <1>7, <1>8, <1>9 DEF InSequence

\* A call begins, or the breaker refuses it with a record.
LEMMA BeginsInSequence ==
    ASSUME Sequential, IInv, InSequence, NEW c \in Clients, NEW q, call[c].pc = "idle",
           q.pc = "read", q.id = calls + 1, calls' = calls + 1, disk' = disk,
           \/ Step(c, q) /\ audit' = audit
           \/ /\ call' = call /\ q.op = "revert"
              /\ audit' = audit \cup {RecordFor(q, "refused")}
    PROVE  InSequence'
  <1>1. \A d \in Clients : d = c
    BY DEF Sequential
  <1>2. calls \in Nat /\ \A r \in audit : r.id \in Nat
    BY DEF IInv, TypeOK, Record, Ids
  <1>3. PICK n : n = RecordFor(q, "refused")
    OBVIOUS
  <1>4. n.id = calls + 1 /\ n.outcome = "refused"
    BY <1>3 DEF RecordFor
  <1>5. /\ audit' \in {audit, audit \cup {n}}
        /\ call'[c].pc \in {"idle", "read"}
        /\ \/ call'[c].pc = "idle"
           \/ call'[c].id = calls + 1 /\ audit' = audit
    BY <1>3 DEF IInv, TypeOK, Step
  <1>6. IdsInOrder'
    BY <1>1, <1>2, <1>4, <1>5 DEF InSequence, IdsInOrder
  <1>7. ~Stored(call'[c]) /\ ~Stored(call[c])
    BY <1>5 DEF Stored
  <1>8. StoredIsOnTop'
    BY <1>1, <1>7 DEF StoredIsOnTop
  <1>9. LastChangeIsKept'
    <2> SUFFICES ASSUME NEW r \in audit', IsLast(r, r.tgt)'
                 PROVE  IsKept(r, disk) /\ IsOnTop(r, disk)
      BY DEF LastChangeIsKept
    <2>1. r.outcome = "ok"
      BY DEF IsLast
    <2>2. r \in audit /\ IsLast(r, r.tgt)
      BY <1>4, <1>5, <2>1 DEF IsLast
    <2> QED
      BY <1>1, <1>7, <2>2 DEF InSequence, LastChangeIsKept
  <1>10. PlanHoldsPrevious'
    BY <1>1, <1>5 DEF PlanHoldsPrevious
  <1>11. DriftReanchors'
    <2>1. ASSUME NEW p \in audit', NEW r \in audit', FindsDrift(p, r)
          PROVE  r.reanchored
      <3>1. p.outcome = "ok" /\ r.op = "write" /\ p.id = r.id - 1
        BY <2>1 DEF FindsDrift
      <3>2. p \in audit
        BY <1>4, <1>5, <3>1
      <3>3. r \in audit \/ (r = n /\ q.op = "revert")
        BY <1>3, <1>5
      <3>4. CASE r \in audit
        BY <2>1, <3>2, <3>4 DEF InSequence, DriftReanchors
      <3>5. CASE r = n /\ q.op = "revert"
        <4>1. n.op = "revert"
          BY <1>3, <3>5 DEF RecordFor
        <4> QED
          BY <3>1, <3>5, <4>1
      <3> QED
        BY <3>3, <3>4, <3>5
    <2> QED
      BY <1>1, <1>5, <2>1 DEF DriftReanchors
  <1> QED
    BY <1>6, <1>8, <1>9, <1>10, <1>11 DEF InSequence

\* What the clock has not given is not in the store.
LEMMA NextFileIsFresh ==
    ASSUME IInv, NEW k \in Targets, stamp < MaxStamp
    PROVE  LET f == <<k, stamp + 1>>
           IN  /\ f \in Files /\ KeyOf(f) = k /\ ~HasMeta(disk, f)
               /\ \A x \in Files : StampOf(x) > StampOf(f) => ~HasBlob(disk, x) /\ ~HasMeta(disk, x)
  <1> DEFINE f == <<k, stamp + 1>>
  <1>1. stamp \in Nat /\ MaxStamp \in Nat
    BY StoreAssumption DEF IInv, TypeOK
  <1>2. f \in Files /\ KeyOf(f) = k /\ StampOf(f) = stamp + 1
    BY <1>1 DEF Files, Stamps, KeyOf, StampOf
  <1>3. \A x \in Files : StampOf(x) \in Nat
    BY DEF Files, StampOf, Stamps
  <1> HIDE DEF f
  <1>4. \A x \in Files : StampOf(x) >= StampOf(f) => StampOf(x) > stamp
    BY <1>1, <1>2, <1>3
  <1>5. \A x \in Files : StampOf(x) > StampOf(f) => StampOf(x) >= StampOf(f)
    BY <1>1, <1>2, <1>3
  <1>6. StampOf(f) >= StampOf(f)
    BY <1>1, <1>2
  <1> QED
    BY <1>2, <1>4, <1>5, <1>6 DEF IInv, FutureIsEmpty, f

\* A call that stores its version, if it stores one, puts it on top and leaves the last
\* change of every file in the store.
LEMMA StoresInSequence ==
    ASSUME Sequential, IInv, InSequence, NEW c \in Clients, NEW r, r = call[c], r.pc = "store",
           NEW q, Step(c, q), q.pc = "apply", UNCHANGED <<calls, audit>>,
           q.id = r.id, q.op = r.op, q.tgt = r.tgt, q.prev = r.prev, q.new = r.new, q.kind = r.kind,
           IsOnTop(RecordFor(q, "ok"), disk'),
           \/ disk' = disk
           \/ /\ stamp < MaxStamp
              /\ \E kind \in Kind, hash \in Content :
                   disk' = StoreBackup(disk, <<r.tgt, stamp + 1>>, kind, hash)
    PROVE  InSequence'
  <1>1. \A d \in Clients : d = c
    BY DEF Sequential
  <1>2. call'[c] = q
    BY DEF IInv, TypeOK, Step
  <1>3. IdsInOrder'
    BY <1>1, <1>2 DEF InSequence, IdsInOrder
  <1>4. StoredIsOnTop'
    BY <1>1, <1>2 DEF StoredIsOnTop
  <1>5. ASSUME NEW p \in audit, IsLast(p, p.tgt)
        PROVE  IsKept(p, disk') /\ (p.tgt # q.tgt => IsOnTop(p, disk'))
    <2>1. IsKept(p, disk) /\ IsOnTop(p, disk)
      BY <1>1, <1>5 DEF InSequence, LastChangeIsKept, Stored
    <2>2. CASE disk' = disk
      BY <2>1, <2>2
    <2>3. ASSUME stamp < MaxStamp, NEW kind \in Kind, NEW hash \in Content,
                 disk' = StoreBackup(disk, <<r.tgt, stamp + 1>>, kind, hash)
          PROVE  IsKept(p, disk') /\ (p.tgt # q.tgt => IsOnTop(p, disk'))
      <3> SUFFICES ASSUME Stores(p)
                   PROVE  \E f \in Files : Holds(p, f, disk') /\ (p.tgt # q.tgt => Newest(f, disk'))
        BY DEF IsKept, IsOnTop
      <3>1. PICK f \in Files : Holds(p, f, disk) /\ Newest(f, disk)
        BY <2>1 DEF IsOnTop
      <3>2. PICK g : g = <<r.tgt, stamp + 1>>
        OBVIOUS
      <3>3. r.tgt \in Targets
        BY DEF IInv, CallsAreSound, CallIsSound
      <3>4. g \in Files /\ KeyOf(g) = r.tgt /\ ~HasMeta(disk, g) /\ disk \in Disk
        BY <2>3, <3>2, <3>3, NextFileIsFresh DEF IInv, TypeOK
      <3>5. Holds(p, f, disk') /\ (KeyOf(f) # KeyOf(g) => Newest(f, disk'))
        BY <2>3, <3>1, <3>2, <3>4, StoringKeepsNewest
      <3>6. KeyOf(f) = p.tgt
        BY <3>1 DEF Holds
      <3> QED
        BY <3>4, <3>5, <3>6
    <2> QED
      BY <2>2, <2>3
  <1>6. LastChangeIsKept'
    BY <1>2, <1>5 DEF LastChangeIsKept, IsLast, Stored
  <1>7. PlanHoldsPrevious'
    BY <1>1, <1>2 DEF PlanHoldsPrevious
  <1>8. DriftReanchors'
    <2>1. Reanchors(r)
      BY DEF InSequence, DriftReanchors
    <2>2. Reanchors(q)
      BY <2>1 DEF Reanchors, FindsDrift, RecordFor, Recorded
    <2> QED
      BY <1>1, <1>2, <2>2 DEF InSequence, DriftReanchors, Reanchors
  <1> QED
    BY <1>3, <1>4, <1>6, <1>7, <1>8 DEF InSequence

\* A write stores its backup, unless the content is in the store already.
LEMMA WriteStoreInSequence ==
    ASSUME Sequential, IInv, InSequence, NEW c \in Clients, WriteStore(c)
    PROVE  InSequence'
  <1>1. PICK r \in Call : r = call[c]
    BY DEF IInv, TypeOK
  <1>2. r.pc = "store" /\ r.op = "write" /\ CallIsSound(r) /\ HoldsPrevious(r)
    BY <1>1 DEF WriteStore, IInv, CallsAreSound, InSequence, PlanHoldsPrevious
  <1>3. PICK f : f = <<r.tgt, stamp + 1>>
    OBVIOUS
  <1> DEFINE q == [r EXCEPT !.pc = "apply", !.at = ResultPath(r.kind, f)]
             n == RecordFor(q, "ok")
  <1>4. /\ stamp < MaxStamp
        /\ disk' = StoreBackup(disk, f, r.kind, r.new)
        /\ Step(c, q)
        /\ UNCHANGED <<calls, audit>>
    BY <1>1, <1>3 DEF WriteStore, NextFile
  <1>5. /\ q.pc = "apply" /\ q.op = "write" /\ q.tgt = r.tgt /\ q.kind = r.kind
        /\ q.id = r.id /\ q.prev = r.prev /\ q.new = r.new
    BY <1>2 DEF Call
  <1> HIDE DEF q
  <1>6. /\ n.op = "write" /\ n.tgt = r.tgt /\ n.prev = r.prev /\ n.new = r.new
        /\ n.type = r.kind.type /\ n.reanchored = r.kind.reanchored
    BY <1>5 DEF RecordFor
  <1> HIDE DEF n
  <1>7. r.tgt \in Targets /\ r.kind \in Kind /\ r.new \in Content /\ disk \in Disk
    BY <1>2 DEF CallIsSound, Call, IInv, TypeOK
  <1>8. IsOnTop(n, disk')
    <2> SUFFICES ASSUME r.kind.type # "dedup"
                 PROVE  \E g \in Files : Holds(n, g, disk') /\ Newest(g, disk')
      BY <1>2, <1>6 DEF IsOnTop, Stores, HoldsPrevious, CallIsSound
    <2>1. /\ f \in Files /\ KeyOf(f) = r.tgt
          /\ \A x \in Files : StampOf(x) > StampOf(f) => ~HasBlob(disk, x) /\ ~HasMeta(disk, x)
      BY <1>3, <1>4, <1>7, NextFileIsFresh
    <2>2. /\ HasMeta(disk', f) /\ disk'.meta[f].hash = r.new
          /\ r.kind.blob # None => disk'.gz[f] = r.kind.blob
          /\ Newest(f, disk')
      BY <1>4, <1>7, <2>1, StoredIsNewest
    <2>3. Recorded(n) = r.new
      BY <1>6 DEF Recorded
    <2>4. r.kind.type = "gzip-diff" => r.kind.blob # None /\ r.kind.blob = ComputeReverseDiff(r.new, r.prev)
      BY <1>2 DEF CallIsSound, HoldsPrevious
    <2>5. r.kind.reanchored => r.kind.blob # None /\ r.kind.blob = RawBlob(r.prev)
      BY <1>2 DEF HoldsPrevious
    <2>6. Holds(n, f, disk')
      BY <1>6, <2>1, <2>2, <2>3, <2>4, <2>5 DEF Holds, HasBlob
    <2> QED
      BY <2>1, <2>2, <2>6
  <1> QED
    BY <1>1, <1>2, <1>3, <1>4, <1>5, <1>7, <1>8, StoresInSequence DEF n

\* A revert stores what it is about to overwrite, unless the file is missing.
LEMMA RevertSnapshotInSequence ==
    ASSUME Sequential, IInv, InSequence, NEW c \in Clients, RevertSnapshot(c)
    PROVE  InSequence'
  <1>1. PICK r \in Call : r = call[c]
    BY DEF IInv, TypeOK
  <1>2. r.pc = "store" /\ r.op = "revert" /\ CallIsSound(r)
    BY <1>1 DEF RevertSnapshot, IInv, CallsAreSound
  <1>3. PICK f : f = <<r.tgt, stamp + 1>>
    OBVIOUS
  <1> DEFINE q == [r EXCEPT !.pc = "apply"]
             n == RecordFor(q, "ok")
             kind == FullKind(RawBlob(r.prev), FALSE)
             stores == /\ r.prev # None /\ stamp < MaxStamp
                       /\ disk' = StoreBackup(disk, f, kind, r.prev)
  <1>4. /\ Step(c, q)
        /\ stores \/ (r.prev = None /\ disk' = disk)
        /\ UNCHANGED <<calls, audit>>
    BY <1>1, <1>3 DEF RevertSnapshot, NextFile, Sequential
  <1>5. /\ q.pc = "apply" /\ q.op = "revert" /\ q.tgt = r.tgt /\ q.kind = r.kind
        /\ q.id = r.id /\ q.prev = r.prev /\ q.new = r.new
    BY <1>2 DEF Call
  <1> HIDE DEF q
  <1>6. n.op = "revert" /\ n.tgt = r.tgt /\ n.prev = r.prev
    BY <1>5 DEF RecordFor
  <1> HIDE DEF n
  <1>7. r.tgt \in Targets /\ disk \in Disk
    BY <1>2 DEF CallIsSound, IInv, TypeOK
  <1>8. CASE stores
    <2>1. r.prev \in held[r.tgt]
      BY <1>2, <1>8 DEF CallIsSound
    <2>2. kind \in Kind /\ r.prev \in Content /\ kind.type # "dedup" /\ kind.blob # None
      BY <1>7, <2>1, SnapshotKindIsSound
    <2>3. kind.blob = RawBlob(r.prev)
      BY DEF FullKind
    <2> HIDE DEF kind
    <2>4. /\ f \in Files /\ KeyOf(f) = r.tgt
          /\ \A x \in Files : StampOf(x) > StampOf(f) => ~HasBlob(disk, x) /\ ~HasMeta(disk, x)
      BY <1>3, <1>7, <1>8, NextFileIsFresh
    <2>5. /\ HasMeta(disk', f) /\ disk'.meta[f].hash = r.prev
          /\ disk'.gz[f] = RawBlob(r.prev) /\ disk'.gz[f] # None
          /\ Newest(f, disk')
      BY <1>7, <1>8, <2>2, <2>3, <2>4, StoredIsNewest
    <2>6. Recorded(n) = r.prev
      BY <1>6 DEF Recorded
    <2>7. Holds(n, f, disk')
      BY <1>6, <2>4, <2>5, <2>6 DEF Holds, HasBlob
    <2>8. IsOnTop(n, disk')
      BY <2>4, <2>5, <2>7 DEF IsOnTop
    <2> QED
      BY <1>1, <1>2, <1>3, <1>4, <1>5, <1>8, <2>2, <2>8, StoresInSequence DEF n
  <1>9. CASE r.prev = None /\ disk' = disk
    <2>1. IsOnTop(n, disk')
      BY <1>6, <1>9 DEF IsOnTop, Stores
    <2> QED
      BY <1>1, <1>2, <1>4, <1>5, <1>9, <2>1, StoresInSequence DEF n
  <1> QED
    BY <1>4, <1>8, <1>9

\* The record of the call that ends is the last of its file when the call went through,
\* and what it is the last of is on top.
LEMMA AuditAppendInSequence ==
    ASSUME Sequential, IInv, InSequence, NEW c \in Clients, AuditAppend(c)
    PROVE  InSequence'
  <1>1. \A d \in Clients : d = c
    BY DEF Sequential
  <1>2. call'[c].pc = "idle"
    BY IdleIsACall DEF AuditAppend, IInv, TypeOK, Step
  <1>3. PICK r : r = call[c]
    OBVIOUS
  <1>4. /\ r.pc \in {"audit", "fail"} /\ disk' = disk /\ calls' = calls
        /\ audit' = audit \cup {RecordFor(r, IF r.pc = "audit" THEN "ok" ELSE "failed")}
    BY <1>3 DEF AuditAppend
  <1>5. PICK n : n = RecordFor(r, IF r.pc = "audit" THEN "ok" ELSE "failed")
    OBVIOUS
  <1>6. n.id = r.id /\ n.tgt = r.tgt /\ n.op = r.op /\ n.reanchored = r.kind.reanchored
        /\ (n.outcome = "ok" <=> r.pc = "audit")
        /\ (r.pc = "audit" => n = RecordFor(r, "ok"))
    BY <1>4, <1>5 DEF RecordFor
  <1>7. audit' = audit \cup {n}
    BY <1>4, <1>5
  <1>8. /\ calls \in Nat /\ n.id = calls
        /\ \A p \in audit : p.id \in Nat /\ p.id < calls
    BY <1>3, <1>4, <1>6 DEF IInv, TypeOK, Record, Ids, InSequence, IdsInOrder
  <1>9. IdsInOrder'
    BY <1>1, <1>2, <1>4, <1>7, <1>8 DEF IdsInOrder
  <1>10. StoredIsOnTop' /\ PlanHoldsPrevious'
    BY <1>1, <1>2 DEF StoredIsOnTop, PlanHoldsPrevious, Stored
  <1>11. LastChangeIsKept'
    <2> SUFFICES ASSUME NEW p \in audit', IsLast(p, p.tgt)'
                 PROVE  IsKept(p, disk) /\ IsOnTop(p, disk)
      BY <1>4 DEF LastChangeIsKept
    <2>1. /\ p.outcome = "ok"
          /\ \A q \in audit' : q.tgt = p.tgt /\ q.outcome = "ok" => q.id <= p.id
      BY DEF IsLast
    <2>2. CASE p = n
      <3>1. r.pc = "audit" /\ p = RecordFor(r, "ok")
        BY <1>6, <2>1, <2>2
      <3>2. IsOnTop(p, disk)
        BY <1>3, <3>1 DEF InSequence, StoredIsOnTop, Stored
      <3> QED
        BY <3>2 DEF IsOnTop, IsKept
    <2>3. CASE p \in audit
      <3>1. IsLast(p, p.tgt)
        BY <1>7, <2>1, <2>3 DEF IsLast
      <3>2. /\ IsKept(p, disk)
            /\ \/ IsOnTop(p, disk)
               \/ Stored(r) /\ r.tgt = p.tgt
        BY <1>1, <1>3, <2>3, <3>1 DEF InSequence, LastChangeIsKept
      <3>3. ~(Stored(r) /\ r.tgt = p.tgt)
        <4> SUFFICES ASSUME Stored(r), r.tgt = p.tgt
                     PROVE  FALSE
          OBVIOUS
        <4>1. n.tgt = p.tgt /\ n.outcome = "ok"
          BY <1>4, <1>6 DEF Stored
        <4>2. n.id <= p.id
          BY <1>7, <2>1, <4>1
        <4> QED
          BY <1>8, <2>3, <4>2
      <3> QED
        BY <3>2, <3>3
    <2> QED
      BY <1>7, <2>2, <2>3
  <1>12. DriftReanchors'
    <2>1. ASSUME NEW p \in audit', NEW q \in audit', FindsDrift(p, q)
          PROVE  q.reanchored
      <3>1. p.outcome = "ok" /\ q.op = "write" /\ p.id = q.id - 1
        BY <2>1 DEF FindsDrift
      <3>2. p \in audit
        <4> SUFFICES ASSUME p = n
                     PROVE  FALSE
          BY <1>7
        <4>1. q.id \in Nat /\ q.id <= calls
          BY <1>7, <1>8
        <4> QED
          BY <1>8, <3>1, <4>1
      <3>3. CASE q \in audit
        BY <2>1, <3>2, <3>3 DEF InSequence, DriftReanchors
      <3>4. CASE q = n
        <4>1. r.pc = "audit"
          <5>1. r.op = "write"
            BY <1>6, <3>1, <3>4
          <5>2. CallIsSound(r)
            BY <1>3, <1>4 DEF IInv, CallsAreSound
          <5> QED
            BY <1>4, <5>1, <5>2 DEF CallIsSound
        <4>2. Reanchors(r)
          BY <1>3, <4>1 DEF InSequence, DriftReanchors
        <4> QED
          BY <1>6, <2>1, <3>2, <3>4, <4>1, <4>2 DEF Reanchors
      <3> QED
        BY <1>7, <3>3, <3>4
    <2> QED
      BY <1>1, <1>2, <2>1 DEF DriftReanchors
  <1> QED
    BY <1>9, <1>10, <1>11, <1>12 DEF InSequence

\* The previous content of a file is taken from its newest sidecar: a write that finds
\* another text re-anchors.
LEMMA WritePlanInSequence ==
    ASSUME Sequential, IInv, InSequence, NEW c \in Clients, WritePlan(c)
    PROVE  InSequence'
  <1>1. PICK r \in Call : r = call[c]
    BY DEF IInv, TypeOK
  <1>2. r.pc = "plan" /\ CallIsSound(r) /\ r.op = "write"
    BY <1>1 DEF WritePlan, IInv, CallsAreSound, CallIsSound, Call
  <1>3. PICK kind : kind = SelectBackupKind(r.new, r.prev, BuildExistingHashMap(disk),
                                            LatestBaseHash(disk, r.tgt))
    OBVIOUS
  <1>4. /\ Step(c, Idle) \/ Step(c, [r EXCEPT !.pc = "store", !.kind = kind])
        /\ UNCHANGED <<disk, calls, audit>>
    BY <1>1, <1>3 DEF WritePlan
  <1>5. /\ r.tgt \in Targets /\ r.new \in Content /\ r.prev \in Content \cup {None}
    BY <1>2 DEF CallIsSound, IInv, TypeOK
  <1>6. kind \in Kind
    BY <1>3, <1>5, HashMapType, SelectKindIsSound
  <1>a. PICK base : base = LatestBaseHash(disk, r.tgt)
    OBVIOUS
  <1>b. PICK existing : existing = BuildExistingHashMap(disk)
    OBVIOUS
  <1>c. PICK prev \in Content \cup {None} : prev = r.prev
    BY <1>5
  <1>d. kind = SelectBackupKind(r.new, prev, existing, base)
    BY <1>3, <1>a, <1>b, <1>c
  <1>7. /\ kind.type = "gzip-diff" => kind.blob = ComputeReverseDiff(r.new, prev)
        /\ kind.reanchored = FALSE \/ (kind.blob # None /\ kind.blob = RawBlob(prev))
        /\ kind.type \in {"gzip-diff", "gzip-full"} /\ prev # None /\ r.new \notin Binary
             /\ Drifted(prev, base) => kind.reanchored = TRUE
    <2>1. PICK new : new = r.new
      OBVIOUS
    <2>2. kind = SelectBackupKind(new, prev, existing, base)
      BY <1>d, <2>1
    <2>3. kind.type = "gzip-diff" => kind.blob = ComputeReverseDiff(new, prev)
      BY <1>6, <2>2, SelectKindHoldsPrevious
    <2>4. kind.reanchored = FALSE \/ (kind.blob # None /\ kind.blob = RawBlob(prev))
      BY <1>6, <2>2, SelectKindHoldsPrevious
    <2>5. kind.type \in {"gzip-diff", "gzip-full"} /\ prev # None /\ new \notin Binary
             /\ Drifted(prev, base) => kind.reanchored = TRUE
      BY <1>6, <2>2, SelectKindHoldsPrevious
    <2> QED
      BY <2>1, <2>3, <2>4, <2>5
  <1>8. call[c].pc # "idle" /\ ~Stored(call[c])
    BY <1>1, <1>2 DEF Stored
  <1>9. CASE Step(c, Idle)
    <2>1. PICK q \in Call : q = Idle
      BY IdleIsACall
    <2>2. q.pc = "idle"
      BY <2>1, IdleIsACall
    <2>3. ~Stored(q) /\ q.pc # "store"
      BY <2>2 DEF Stored
    <2> QED
      BY <1>4, <1>8, <1>9, <2>1, <2>2, <2>3, MovesOnInSequence
  <1>10. CASE Step(c, [r EXCEPT !.pc = "store", !.kind = kind])
    <2> DEFINE q == [r EXCEPT !.pc = "store", !.kind = kind]
    <2>1. q \in Call
      BY <1>6 DEF Call
    <2>2. /\ q.pc = "store" /\ q.kind = kind /\ q.op = "write" /\ q.tgt = r.tgt
          /\ q.id = r.id /\ q.prev = r.prev /\ q.new = r.new
      BY <1>2 DEF Call
    <2> HIDE DEF q
    <2>3. HoldsPrevious(q)
      BY <1>7, <1>c, <2>2 DEF HoldsPrevious
    <2>4. Reanchors(q)
      <3> SUFFICES ASSUME NEW p \in audit, FindsDrift(p, RecordFor(q, "ok"))
                   PROVE  kind.reanchored
        BY <2>2 DEF Reanchors
      <3>1. /\ p.tgt = r.tgt /\ p.outcome = "ok" /\ p.id = r.id - 1
            /\ p.type # "dedup" /\ Recorded(p) \notin {None, r.prev}
            /\ kind.type \in {"gzip-diff", "gzip-full"}
            /\ r.prev # None /\ r.new \notin Binary
        BY <2>2 DEF FindsDrift, RecordFor
      <3>2. /\ r.id = calls /\ calls \in Nat
            /\ \A a \in audit : a.id \in Nat /\ a.id < calls
        BY <1>1, <1>2 DEF InSequence, IdsInOrder, IInv, TypeOK, Record, Ids
      <3>3. IsLast(p, p.tgt)
        BY <3>1, <3>2 DEF IsLast
      <3>4. IsOnTop(p, disk)
        <4>1. \A d \in Clients : d = c
          BY DEF Sequential
        <4> QED
          BY <1>8, <3>3, <4>1 DEF InSequence, LastChangeIsKept
      <3>5. Stores(p)
        BY <3>1 DEF Stores, Recorded
      <3>6. PICK f \in Files : Holds(p, f, disk) /\ Newest(f, disk)
        BY <3>4, <3>5 DEF IsOnTop
      <3>7. base = Recorded(p)
        BY <1>a, <3>1, <3>6, NewestSidecar DEF Holds
      <3>8. Drifted(prev, base)
        BY <1>c, <3>1, <3>7 DEF Drifted
      <3> QED
        BY <1>7, <1>c, <3>1, <3>8
    <2>5. ~Stored(q)
      BY <2>2 DEF Stored
    <2> QED
      BY <1>1, <1>4, <1>8, <1>10, <2>1, <2>2, <2>3, <2>4, <2>5, MovesOnInSequence DEF q
  <1> QED
    BY <1>4, <1>9, <1>10

\* A write begins.
LEMMA WriteBeginInSequence ==
    ASSUME Sequential, IInv, InSequence, NEW c \in Clients, NEW k \in Targets, NEW x \in Content,
           WriteBegin(c, k, x)
    PROVE  InSequence'
  <1> DEFINE q == [Idle EXCEPT !.pc = "read", !.op = "write", !.id = calls + 1,
                               !.tgt = k, !.new = x]
  <1>1. q.pc = "read" /\ q.id = calls + 1
    BY DEF Idle
  <1>2. /\ call[c].pc = "idle" /\ calls' = calls + 1 /\ disk' = disk
        /\ Step(c, q) /\ audit' = audit
    BY DEF WriteBegin
  <1> HIDE DEF q
  <1> QED
    BY <1>1, <1>2, BeginsInSequence

\* A revert begins or is refused.
LEMMA RevertInSequence ==
    ASSUME Sequential, IInv, InSequence, NEW c \in Clients, NEW f, NEW k, Revert(c, f, k)
    PROVE  InSequence'
  <1> DEFINE q == [Idle EXCEPT !.pc = "read", !.op = "revert", !.id = calls + 1,
                               !.tgt = k, !.at = f]
  <1>1. q.pc = "read" /\ q.id = calls + 1 /\ q.op = "revert"
    BY DEF Idle
  <1>2. /\ call[c].pc = "idle" /\ calls' = calls + 1 /\ disk' = disk
        /\ \/ Step(c, q) /\ audit' = audit
           \/ call' = call /\ audit' = audit \cup {RecordFor(q, "refused")}
    BY DEF Revert
  <1> HIDE DEF q
  <1> QED
    BY <1>1, <1>2, BeginsInSequence

\* The remote read, done or failed.
LEMMA ReadInSequence ==
    ASSUME Sequential, IInv, InSequence, NEW c \in Clients, RemoteRead(c) \/ RemoteReadFails(c)
    PROVE  InSequence'
  <1>1. PICK r \in Call : r = call[c]
    BY DEF IInv, TypeOK
  <1>2. r.pc = "read" /\ ~Stored(call[c]) /\ UNCHANGED <<disk, calls, audit>> /\ CallIsSound(r)
    BY <1>1 DEF RemoteRead, RemoteReadFails, Stored, IInv, CallsAreSound
  <1>3. live[r.tgt] \in Content \cup {None}
    BY <1>2 DEF IInv, TypeOK, CallIsSound
  <1>4. \E q \in Call : Step(c, q) /\ q.pc \in {"plan", "restore", "fail", "idle"}
                        /\ (q.pc # "idle" => q.id = r.id)
    <2>1. CASE RemoteRead(c)
      <3> DEFINE q == [r EXCEPT !.pc = AfterRead(r.op), !.prev = live[r.tgt]]
      <3>1. q \in Call /\ q.pc \in {"plan", "restore"} /\ q.id = r.id
        BY <1>3 DEF Call, AfterRead
      <3>2. Step(c, q)
        BY <1>1, <2>1 DEF RemoteRead
      <3> HIDE DEF q
      <3> QED
        BY <3>1, <3>2
    <2>2. CASE RemoteReadFails(c) /\ Step(c, [r EXCEPT !.pc = AfterRead(r.op)])
      <3> DEFINE q == [r EXCEPT !.pc = AfterRead(r.op)]
      <3>1. q \in Call /\ q.pc \in {"plan", "restore"} /\ q.id = r.id
        BY DEF Call, AfterRead
      <3> HIDE DEF q
      <3> QED
        BY <2>2, <3>1 DEF q
    <2>3. CASE RemoteReadFails(c) /\ Step(c, [r EXCEPT !.pc = "fail"])
      <3> DEFINE q == [r EXCEPT !.pc = "fail"]
      <3>1. q \in Call /\ q.pc = "fail" /\ q.id = r.id
        BY DEF Call
      <3> HIDE DEF q
      <3> QED
        BY <2>3, <3>1 DEF q
    <2>4. CASE Step(c, Idle)
      BY <2>4, IdleIsACall
    <2> QED
      BY <1>1, <2>1, <2>2, <2>3, <2>4 DEF RemoteReadFails
  <1>5. PICK q \in Call : /\ Step(c, q) /\ q.pc \in {"plan", "restore", "fail", "idle"}
                          /\ q.pc # "idle" => q.id = r.id
    BY <1>4
  <1>6. ~Stored(q) /\ q.pc # "store"
    BY <1>5 DEF Stored
  <1> QED
    BY <1>1, <1>2, <1>5, <1>6, MovesOnInSequence

\* restore hands over a content, or the revert fails.
LEMMA RevertRestoreInSequence ==
    ASSUME Sequential, IInv, InSequence, NEW c \in Clients, RevertRestore(c)
    PROVE  InSequence'
  <1>1. PICK r \in Call : r = call[c]
    BY DEF IInv, TypeOK
  <1>2. /\ r.pc = "restore" /\ r.op = "revert" /\ r.at \in Files
        /\ ~Stored(call[c]) /\ UNCHANGED <<disk, calls, audit>>
    BY <1>1 DEF RevertRestore, Stored, IInv, CallsAreSound, CallIsSound, Call
  <1>3. PICK x \in Content \cup {None} : x = Restore(disk, r.at, r.prev)
    BY <1>2, RestoreYieldsTheBlob DEF IInv, TypeOK
  <1>4. Step(c, IF x = None THEN [r EXCEPT !.pc = "fail"]
                ELSE [r EXCEPT !.pc = "store", !.new = x])
    BY <1>1, <1>3 DEF RevertRestore
  <1>5. CASE x = None
    <2> DEFINE q == [r EXCEPT !.pc = "fail"]
    <2>1. q \in Call /\ q.pc = "fail" /\ q.id = r.id
      BY DEF Call
    <2>2. Step(c, q)
      BY <1>4, <1>5
    <2> HIDE DEF q
    <2>3. ~Stored(q) /\ q.pc # "store"
      BY <2>1 DEF Stored
    <2> QED
      BY <1>1, <1>2, <2>1, <2>2, <2>3, MovesOnInSequence
  <1>6. CASE x # None
    <2> DEFINE q == [r EXCEPT !.pc = "store", !.new = x]
    <2>1. q \in Call /\ q.pc = "store" /\ q.id = r.id /\ q.op = "revert"
      BY <1>2 DEF Call
    <2>2. Step(c, q)
      BY <1>4, <1>6
    <2> HIDE DEF q
    <2>3. ~Stored(q) /\ Reanchors(q)
      BY <2>1 DEF Stored, Reanchors, FindsDrift, RecordFor
    <2> QED
      BY <1>1, <1>2, <2>1, <2>2, <2>3, MovesOnInSequence
  <1> QED
    BY <1>5, <1>6

\* The remote end writes the file; no write throws.
LEMMA RemoteWriteInSequence ==
    ASSUME Sequential, IInv, InSequence, NEW c \in Clients, RemoteWrite(c) \/ RemoteWriteFails(c)
    PROVE  InSequence'
  <1>1. PICK r \in Call : r = call[c]
    BY DEF IInv, TypeOK
  <1>2. RemoteWrite(c)
    BY DEF Sequential, RemoteWriteFails
  <1> DEFINE q == [r EXCEPT !.pc = "audit"]
  <1>3. /\ r.pc = "apply" /\ Step(c, q) /\ UNCHANGED <<disk, calls, audit>>
    BY <1>1, <1>2 DEF RemoteWrite
  <1>4. /\ q \in Call /\ q.pc = "audit" /\ q.id = r.id /\ q.op = r.op /\ q.tgt = r.tgt
        /\ q.prev = r.prev /\ q.new = r.new /\ q.kind = r.kind /\ q.at = r.at
    BY DEF Call
  <1> HIDE DEF q
  <1>5. RecordFor(q, "ok") = RecordFor(r, "ok")
    BY <1>4 DEF RecordFor
  <1>6. Stored(q) /\ Stored(call[c]) /\ q.pc # "store" /\ call[c].pc # "idle"
    BY <1>1, <1>3, <1>4 DEF Stored
  <1> QED
    BY <1>1, <1>3, <1>4, <1>5, <1>6, MovesOnInSequence

\* A step that touches no call, version or record.
LEMMA StaysInSequence ==
    ASSUME InSequence, UNCHANGED <<disk, call, calls, audit>>
    PROVE  InSequence'
  BY DEF InSequence, IdsInOrder, LastChangeIsKept, StoredIsOnTop, PlanHoldsPrevious,
         DriftReanchors, Reanchors, IsLast

LEMMA NextInSequence ==
    ASSUME Sequential, IInv, InSequence, [Next]_vars
    PROVE  InSequence'
  <1>1. ASSUME NEW c \in Clients, NEW k \in Targets, NEW x \in Content, WriteBegin(c, k, x)
        PROVE  InSequence'
    BY <1>1, WriteBeginInSequence
  <1>2. ASSUME NEW c \in Clients, NEW k \in Targets, RevertLatest(c, k)
        PROVE  InSequence'
    BY <1>2, RevertInSequence DEF RevertLatest
  <1>3. ASSUME NEW c \in Clients, NEW f \in Files, RevertAt(c, f)
        PROVE  InSequence'
    BY <1>3, RevertInSequence DEF RevertAt
  <1>4. ASSUME NEW c \in Clients, RemoteRead(c) \/ RemoteReadFails(c)
        PROVE  InSequence'
    BY <1>4, ReadInSequence
  <1>5. ASSUME NEW c \in Clients, RemoteWrite(c) \/ RemoteWriteFails(c)
        PROVE  InSequence'
    BY <1>5, RemoteWriteInSequence
  <1>6. ASSUME NEW c \in Clients, WritePlan(c)
        PROVE  InSequence'
    BY <1>6, WritePlanInSequence
  <1>7. ASSUME NEW c \in Clients, WriteStore(c)
        PROVE  InSequence'
    BY <1>7, WriteStoreInSequence
  <1>8. ASSUME NEW c \in Clients, RevertRestore(c)
        PROVE  InSequence'
    BY <1>8, RevertRestoreInSequence
  <1>9. ASSUME NEW c \in Clients, RevertSnapshot(c)
        PROVE  InSequence'
    BY <1>9, RevertSnapshotInSequence
  <1>10. ASSUME NEW c \in Clients, AuditAppend(c)
         PROVE  InSequence'
    BY <1>10, AuditAppendInSequence
  <1>11. ~Crash /\ \A c \in Clients : ~CrashInStore(c)
    BY DEF Sequential, Crash, CrashInStore
  <1>12. CASE \E k \in Targets, x \in Content \cup {None} : OutOfBandEdit(k, x)
    BY <1>12, StaysInSequence DEF OutOfBandEdit
  <1>13. CASE UNCHANGED vars
    BY <1>13, StaysInSequence DEF vars
  <1> QED
    BY <1>1, <1>2, <1>3, <1>4, <1>5, <1>6, <1>7, <1>8, <1>9, <1>10, <1>11, <1>12, <1>13 DEF Next

\* When calls come one after the other and their writes do not fail, what the last change
\* of a file stored stays in the store, and on top once the call has ended.
THEOREM LastChangeStaysOnTop ==
    ASSUME Sequential
    PROVE  Spec => []InSequence
  <1>1. Init => InSequence
    <2> SUFFICES ASSUME Init
                 PROVE  InSequence
      OBVIOUS
    <2>1. audit = {} /\ \A c \in Clients : call[c].pc = "idle"
      BY IdleIsACall DEF Init
    <2> QED
      BY <2>1 DEF InSequence, IdsInOrder, LastChangeIsKept, StoredIsOnTop, PlanHoldsPrevious,
                  DriftReanchors, Stored
  <1>2. IInv /\ InSequence /\ [Next]_vars => InSequence'
    BY NextInSequence
  <1> QED
    BY <1>1, <1>2, Invariance, PTL DEF Spec

\* Between calls, the version the last change of a file stored is the one revert_file
\* takes for its path.
LEMMA LastChangeIsLatest ==
    ASSUME Sequential, IInv, InSequence, Quiet, NEW k \in Targets, NEW r \in audit,
           IsLast(r, k), Stores(r)
    PROVE  \E f \in Files : /\ Holds(r, f, disk)
                            /\ HasBlob(disk, f) => LatestRevertible(disk, k) = f
  <1>1. r.tgt = k /\ IsLast(r, r.tgt)
    BY DEF IsLast
  <1>2. IsOnTop(r, disk)
    BY <1>1 DEF InSequence, LastChangeIsKept, Quiet, Stored
  <1>3. PICK f \in Files : Holds(r, f, disk) /\ Newest(f, disk)
    BY <1>2 DEF IsOnTop
  <1>4. KeyOf(f) = k
    BY <1>1, <1>3 DEF Holds
  <1> QED
    BY <1>3, <1>4, NewestBlob

\* "Undo my last change": with the file as the last write left it, revert_file with its path
\* brings back what that write overwrote, whatever was evicted and edited before.
THEOREM LastWriteUndone ==
    ASSUME Sequential
    PROVE  Spec => []LastWriteIsUndone
  <1>1. IInv /\ InSequence => LastWriteIsUndone
    <2> SUFFICES ASSUME IInv, InSequence, Quiet, NEW k \in Targets, NEW r \in audit,
                        IsLast(r, k), r.op = "write", live[k] = r.new,
                        r.type = "gzip-diff" \/ r.reanchored
                 PROVE  /\ LatestRevertible(disk, k) # None
                        /\ Restore(disk, LatestRevertible(disk, k), live[k])
                             \in {r.prev, Utf8[r.prev]}
      BY DEF LastWriteIsUndone
    <2>1. Stores(r)
      BY DEF Stores
    <2>2. PICK f \in Files : /\ Holds(r, f, disk)
                             /\ HasBlob(disk, f) => LatestRevertible(disk, k) = f
      BY <2>1, LastChangeIsLatest
    <2>3. /\ HasBlob(disk, f)
          /\ disk.gz[f] = RawBlob(r.prev) \/ disk.gz[f] = ComputeReverseDiff(r.new, r.prev)
      BY <2>2 DEF Holds
    <2>4. LatestRevertible(disk, k) = f /\ f # None
      <3>1. LatestRevertible(disk, k) = f
        BY <2>2, <2>3
      <3>2. f # None
        BY NoneAssumption
      <3> QED
        BY <3>1, <3>2
    <2>5. CASE disk.gz[f] = RawBlob(r.prev)
      <3>1. Restore(disk, f, live[k]) = r.prev
        BY <2>3, <2>5 DEF Restore, ApplyReverseDiff, RawBlob, HasBlob
      <3> QED
        BY <2>4, <3>1
    <2>6. CASE disk.gz[f] = ComputeReverseDiff(r.new, r.prev)
      <3>1. Restore(disk, f, live[k]) \in {r.prev, Utf8[r.prev]}
        BY <2>3, <2>6 DEF Restore, ApplyReverseDiff, ComputeReverseDiff, HasBlob
      <3> QED
        BY <2>4, <3>1
    <2> QED
      BY <2>3, <2>5, <2>6
  <1> QED
    BY <1>1, Invariance, LastChangeStaysOnTop, PTL

\* A revert that went through is undone by another one with the same path, whatever has
\* become of the live file in between.
THEOREM LastRevertUndone ==
    ASSUME Sequential
    PROVE  Spec => []LastRevertIsUndone
  <1>1. IInv /\ InSequence => LastRevertIsUndone
    <2> SUFFICES ASSUME IInv, InSequence, Quiet, NEW k \in Targets, NEW r \in audit,
                        IsLast(r, k), r.op = "revert", r.prev # None
                 PROVE  /\ LatestRevertible(disk, k) # None
                        /\ \A x \in Content \cup {None} :
                              Restore(disk, LatestRevertible(disk, k), x) = r.prev
      BY DEF LastRevertIsUndone
    <2>1. Stores(r)
      BY DEF Stores
    <2>2. PICK f \in Files : /\ Holds(r, f, disk)
                             /\ HasBlob(disk, f) => LatestRevertible(disk, k) = f
      BY <2>1, LastChangeIsLatest
    <2>3. HasBlob(disk, f) /\ disk.gz[f] = RawBlob(r.prev)
      BY <2>2 DEF Holds
    <2>4. LatestRevertible(disk, k) = f /\ f # None
      <3>1. LatestRevertible(disk, k) = f
        BY <2>2, <2>3
      <3>2. f # None
        BY NoneAssumption
      <3> QED
        BY <3>1, <3>2
    <2>5. \A x : Restore(disk, f, x) = r.prev
      BY <2>3 DEF Restore, ApplyReverseDiff, RawBlob, HasBlob
    <2> QED
      BY <2>4, <2>5
  <1> QED
    BY <1>1, Invariance, LastChangeStaysOnTop, PTL

\* A write that finds something else than the previous change put on record has it in a
\* self-contained version, from its record to the next change of the file.
THEOREM DriftCaptured ==
    ASSUME Sequential
    PROVE  Spec => []DriftIsCaptured
  <1>1. IInv /\ InSequence => DriftIsCaptured
    <2> SUFFICES ASSUME InSequence, NEW q \in audit, NEW r \in audit,
                        IsLast(r, r.tgt), FindsDrift(q, r)
                 PROVE  \E f \in Versions(disk, r.tgt) : disk.gz[f] = RawBlob(r.prev)
      BY DEF DriftIsCaptured
    <2>1. r.reanchored
      BY DEF InSequence, DriftReanchors
    <2>2. Stores(r)
      BY <2>1 DEF Stores, FindsDrift
    <2>3. PICK f \in Files : Holds(r, f, disk)
      BY <2>2 DEF InSequence, LastChangeIsKept, IsKept
    <2>4. disk.gz[f] = RawBlob(r.prev) /\ f \in Versions(disk, r.tgt)
      BY <2>1, <2>3 DEF Holds, Versions
    <2> QED
      BY <2>4
  <1> QED
    BY <1>1, Invariance, LastChangeStaysOnTop, PTL
=============================================================================
