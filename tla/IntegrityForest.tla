-------------------------- MODULE IntegrityForest --------------------------
(***************************************************************************)
(* The Merkle integrity forest, src/integrity: three levels of folded      *)
(* trees over the watched files of the host and of the containers, a       *)
(* trusted baseline and a working tree per level, and the calls that       *)
(* compute, verify, accept and auto-accept.                                *)
(*                                                                         *)
(* A fold is injective, so the hash of a node is what it commits to: the   *)
(* set of the <<leaf, payload>> pairs below it.  A baseline directory may  *)
(* hold a hash that its stored children no longer fold to: the store keeps *)
(* hashes, it never recomputes them.                                       *)
(***************************************************************************)
EXTENDS Naturals, FiniteSets, Sequences

CONSTANTS
    Leaves,            \* watched files, by forest path
    Dirs,              \* directories, group directories and the super-root
    Parent,            \* node -> the directory above it
    Above,             \* node -> all directories above it
    Root,              \* SUPER_ROOT
    Host,              \* the prefix of the host's subtree
    Guests,            \* the prefixes of the containers' subtrees
    PathOrder,         \* the nodes in the byte order of their paths
    ConfigFiles,       \* leaves that match configFileGlobs
    SensitivePaths,    \* nodes that match sensitiveGlobs
    MaxUnexplainedL3,  \* policy: budget of unexplained content folds
    AllowL2AutoAccept, \* policy: fold unexplained config drift
    FileContents,      \* file contents
    Mtimes,            \* modification times
    Gone,              \* no such file
    ComputeLevels,     \* levels of the compute_tree calls
    VerifyLevels,      \* levels of the verify_integrity calls
    ReportScopes,      \* scopes of a verify or auto-accept
    AcceptScopes,      \* scopes of an accept_truth
    CallIds,           \* calls that can be in flight together
    MaxCalls,          \* BOUND: calls in a behaviour
    MaxEvents          \* BOUND: changes of files and guests, and failed commands

LEVELS == <<"l1", "l2", "l3">>
Levels == {"l1", "l2", "l3"}

Nodes == Leaves \cup Dirs
Prefixes == {Host} \cup Guests

\* nodeStore.underClause: the scope and everything beneath it.
Under(d) == {n \in Nodes : n = d \/ d \in Above[n]}

\* Paths form a tree: parentForestPath leads from every node to the super-root.
\* A set of paths has one that is above none of the others.
ASSUME TreeAssumption ==
    /\ Leaves \cap Dirs = {} /\ Root \in Dirs
    /\ Parent \in [Nodes \ {Root} -> Dirs]
    /\ \A U \in SUBSET Nodes :
          Root \in U /\ (\A n \in Nodes \ {Root} : Parent[n] \in U => n \in U) => U = Nodes
    /\ \A U \in SUBSET Nodes : U # {} => \E n \in U : \A k \in U : n \notin Above[k]
    /\ Above = [n \in Nodes |-> IF n = Root THEN {} ELSE {Parent[n]} \cup Above[Parent[n]]]

ASSUME ForestAssumption ==
    /\ Prefixes \subseteq Dirs \ {Root} /\ Host \notin Guests
    /\ \A p, q \in Prefixes : p \notin Above[q]
    /\ \A f \in Leaves : \E p \in Prefixes : p \in Above[f]
    /\ ConfigFiles \subseteq Leaves /\ SensitivePaths \subseteq Nodes
    /\ ReportScopes \cup AcceptScopes \subseteq Nodes
    /\ ComputeLevels \subseteq Levels /\ VerifyLevels \subseteq Levels \cup {"smart"}
    /\ PathOrder \in Seq(Nodes)
    /\ MaxUnexplainedL3 \in Nat /\ AllowL2AutoAccept \in BOOLEAN
    /\ MaxCalls \in Nat /\ MaxEvents \in Nat

VARIABLES
    files,     \* leaf -> its content and mtime, or Gone
    up,        \* the containers that run
    baseline,  \* level -> the trusted tree
    working,   \* level -> the tree last computed
    audited,   \* contents that are the afterHash of an audit record
    call,      \* call -> its progress
    settled,   \* what the last undisturbed accept_truth accepted (history variable)
    grafted,   \* levels where a directory was accepted by itself (history variable)
    calls,     \* calls so far
    events     \* changes and failures so far

forestVars == <<files, up, baseline, working, audited, call, settled, grafted, calls, events>>


----------------------------------------------------------------------------
(* Folding *)

EmptyTree == [n \in {} |-> {}]

\* The payload of a leaf: its mtime at l1, its content at l2 and l3, unreadable
\* when sha256sum did not answer for it.
Payload(l, v, unread) ==
    IF l = "l1" THEN v.mtime ELSE IF unread THEN "unreadable" ELSE v.content

\* assembleSubtree: every enumerated file at l1 and l3; at l2 the config files, and the
\* directories that hold one.
Included(l, world, p) ==
    LET there == {f \in Leaves \cap Under(p) : world[f] # Gone /\ (l = "l2" => f \in ConfigFiles)}
    IN there \cup {d \in Dirs \cap Under(p) :
                      l = "l2" => d = p \/ \E f \in there : d \in Above[f]}

AssembleSubtree(l, world, p, lost) ==
    LET in == Included(l, world, p)
        Commits(n) ==
            IF n \in Leaves THEN {<<n, Payload(l, world[n], n \in lost)>>}
            ELSE IF \A k \in in : k = Root \/ Parent[k] # n THEN {<<n, "empty-dir">>} ELSE {}
    IN [n \in in |-> UNION {Commits(k) : k \in in \cap Under(n)}]

\* Mutant: a stopped guest is always a placeholder.
FreezeAsPlaceholder(b, p) == [n \in {p} |-> {<<p, "unreadable">>}]

\* freezeSubtree: a stopped guest keeps its baseline, or gets a placeholder.
FreezeSubtree(b, p) ==
    LET kept == DOMAIN b \cap Under(p)
    IN IF kept = {} THEN [n \in {p} |-> {<<p, "unreadable">>}] ELSE [n \in kept |-> b[n]]

\* assembleForest, one source: a container that does not run is frozen.
Subtree(l, world, guests, b, p, lost) ==
    IF p = Host \/ p \in guests THEN AssembleSubtree(l, world, p, lost) ELSE FreezeSubtree(b, p)

\* The nodes of `below` at or under n that have none of `below` between them and n.
Tops(below, n) ==
    {k \in below \cap Under(n) : \A d \in Above[k] \cap Under(n) : d \notin below}

\* foldForestRoots: the subtrees, and every directory above one of their nodes that they
\* lack, folded from what is below it.
FoldForestRoots(sub) ==
    LET below == UNION {DOMAIN sub[p] : p \in DOMAIN sub}
        HashOf(k) == sub[CHOOSE p \in DOMAIN sub : k \in Under(p)][k]
    IN [n \in below \cup UNION {Above[k] : k \in below} |->
            IF n \in below THEN HashOf(n) ELSE UNION {HashOf(k) : k \in Tops(below, n)}]

AssembleForest(l, world, guests, b, prefixes, lost) ==
    FoldForestRoots([p \in prefixes |-> Subtree(l, world, guests, b, p, lost)])

----------------------------------------------------------------------------
(* Diff, classification and policy *)

\* treeDiff: the walk descends from the scope while both trees have the directory and
\* its hashes differ, and prunes where they agree.
Visited(b, w, scope) ==
    {n \in Under(scope) \cap (DOMAIN b \cup DOMAIN w) :
        \A d \in Above[n] \cap Under(scope) : d \in DOMAIN b \cap DOMAIN w /\ b[d] # w[d]}

\* The entries that verify keeps: an added or removed node, or a leaf that changed;
\* each with its new hash, none when removed.
TreeDiff(b, w, scope) ==
    LET entries == {n \in Visited(b, w, scope) :
                       \/ (n \in DOMAIN b) # (n \in DOMAIN w)
                       \/ n \in Leaves /\ b[n] # w[n]}
    IN [n \in entries |-> IF n \in DOMAIN w THEN w[n] ELSE {}]

\* The richest level that reports n decides its new hash.
Best(drift, n) ==
    LET l == CHOOSE l \in Levels : /\ n \in DOMAIN drift[l]
                                   /\ l = "l2" => n \notin DOMAIN drift["l3"]
                                   /\ l = "l1" => n \notin DOMAIN drift["l2"] \cup DOMAIN drift["l3"]
    IN drift[l][n]

\* classifyHash: the new hash is the afterHash of an audit record.
Explained(drift, n) == n \in Leaves /\ \E c \in audited : Best(drift, n) = {<<n, c>>}

\* isSensitivePath
Sensitive(n) == \E s \in SensitivePaths : n \in Under(s)

Drifted(drift) == UNION {DOMAIN drift[l] : l \in Levels}

\* Unexplained content drift that is not of a config file: the l3-tail.
Tail3(drift, n) ==
    ~Explained(drift, n) /\ ~Sensitive(n) /\ n \notin DOMAIN drift["l2"] /\ n \in DOMAIN drift["l3"]

\* applyAcceptPolicy, in the order of the paths.
Folds(drift, i) ==
    LET n == PathOrder[i]
        before == {j \in 1..(i - 1) : PathOrder[j] \in Drifted(drift) /\ Tail3(drift, PathOrder[j])}
    IN /\ n \in Drifted(drift)
       /\ \/ Explained(drift, n)
          \/ /\ ~Sensitive(n)
             /\ n \in DOMAIN drift["l2"] => AllowL2AutoAccept
             /\ Tail3(drift, n) => Cardinality(before) < MaxUnexplainedL3

FoldPlan(drift) == {PathOrder[i] : i \in {i \in DOMAIN PathOrder : Folds(drift, i)}}

\* The node of a plan that comes first in the order of the paths.
FirstInOrder(plan) ==
    PathOrder[CHOOSE i \in DOMAIN PathOrder :
                 /\ PathOrder[i] \in plan
                 /\ \A j \in DOMAIN PathOrder : PathOrder[j] \in plan => i <= j]

----------------------------------------------------------------------------
(* Accepting into the baseline *)

\* Mutant: the ancestors are copied from the working tree instead of refolded.
FoldWithPath(b, w, n) ==
    IF n \notin DOMAIN w THEN b
    ELSE [m \in DOMAIN b \cup {n} |-> IF m \in (Above[n] \cup {n}) \cap DOMAIN w THEN w[m] ELSE b[m]]

\* refoldPathToRoot: the ancestors of n that the baseline reaches from n upwards.
Refolded(b, n) ==
    {a \in Above[n] \cap DOMAIN b : \A d \in Above[n] \cap Under(a) : d \in DOMAIN b}

\* foldLeafIntoBaseline at one level: n as computed, its ancestors from their children.
FoldLeaf(b, w, n) ==
    IF n \notin DOMAIN w THEN b
    ELSE LET path == Above[n] \cup {n}
             HashOf(a) == w[n] \cup UNION {b[k] : k \in {k \in DOMAIN b \ path :
                                                   Parent[k] \in Above[n] \cap Under(a)}}
         IN [m \in DOMAIN b \cup {n} |->
                IF m = n THEN w[n] ELSE IF m \in Refolded(b, n) THEN HashOf(m) ELSE b[m]]

\* promote: the scope of the working tree replaces that of the baseline; the directories
\* above the scope keep their hashes.
Promote(b, w, scope) ==
    LET taken == DOMAIN w \cap Under(scope)
    IN [n \in (DOMAIN b \ Under(scope)) \cup taken |-> IF n \in taken THEN w[n] ELSE b[n]]

----------------------------------------------------------------------------
(* Calls *)

NoDrift == [l \in Levels |-> EmptyTree]
NoCall == [stage |-> "idle", level |-> "l1", scope |-> Root, auto |-> FALSE,
           todo |-> <<>>, read |-> <<>>, drift |-> NoDrift, plan |-> {}, chosen |-> {},
           alone |-> FALSE, stale |-> FALSE]

\* A process starts on an empty store, or on the baseline that an earlier one left when
\* the files held old.
ForestInit ==
    \E now, old \in [content : FileContents, mtime : Mtimes] :
        /\ files = [f \in Leaves |-> now]
        /\ up = Guests
        /\ \/ old = now /\ baseline = [l \in Levels |-> EmptyTree]
           \/ /\ old.content = now.content <=> old.mtime = now.mtime
              /\ baseline = [l \in Levels |->
                    AssembleForest(l, [f \in Leaves |-> old], Guests, EmptyTree, Prefixes, {})]
        /\ working = [l \in Levels |-> EmptyTree]
        /\ audited = {}
        /\ call = [c \in CallIds |-> NoCall]
        /\ settled = Gone /\ grafted = {}
        /\ calls = 0 /\ events = 0

InFlight(c) == call[c].stage # "idle"

\* Every call in flight is no longer alone.
Disturbed == [c \in CallIds |-> [call[c] EXCEPT !.alone = FALSE]]

LevelsOf(level) == IF level = "smart" THEN LEVELS ELSE <<level>>

\* verify: seed every level asked for when the baseline of one is empty, else compare.
FirstStage(level) ==
    IF \E i \in DOMAIN LevelsOf(level) : baseline[LevelsOf(level)[i]] = EmptyTree
    THEN "seed" ELSE "diff"

FirstLevels(level) ==
    IF FirstStage(level) = "seed" THEN LevelsOf(level)
    ELSE IF level \in {"smart", "l1"} THEN <<"l1">> ELSE <<"l1", level>>

Begin(c, rec) ==
    /\ ~InFlight(c)
    /\ calls < MaxCalls
    /\ calls' = calls + 1
    /\ call' = [Disturbed EXCEPT ![c] = [rec EXCEPT !.alone = \A d \in CallIds : ~InFlight(d)]]
    /\ UNCHANGED <<files, up, baseline, working, audited, settled, grafted, events>>

\* computeTreeHandler
ComputeTree(c, level) ==
    Begin(c, [NoCall EXCEPT !.stage = "compute", !.level = level, !.todo = <<level>>])

\* engine.verify, and engine.autoAccept, which begins with a verify of its own.  The
\* handler makes the first call, and with autoAccept and unless that seeded, the second.
Verify(c, level, scope, auto) ==
    Begin(c, [NoCall EXCEPT !.stage = FirstStage(level), !.todo = FirstLevels(level),
                            !.level = level, !.scope = scope, !.auto = auto])

\* acceptTruthHandler
AcceptTruth(c, scope) ==
    Begin(c, [NoCall EXCEPT !.stage = "promote", !.todo = LEVELS, !.scope = scope])

\* computeForestNodes: pct list, then each source in turn.  A pct list that exits
\* non-zero leaves the containers out; sha256sum may not answer for a file.
Read(c) ==
    /\ InFlight(c) /\ call[c].stage # "fold" /\ call[c].read = <<>>
    /\ \E prefixes \in {Prefixes, {Host}}, lost \in {{}} \cup {{f} : f \in Leaves} :
          LET bad == prefixes # Prefixes \/ lost # {}
              l == Head(call[c].todo)
          IN /\ bad => events < MaxEvents
             /\ events' = IF bad THEN events + 1 ELSE events
             /\ lost # {} => l # "l1"
             /\ call' = [call EXCEPT
                   ![c].read = <<AssembleForest(l, files, up, baseline[l], prefixes, lost)>>,
                   ![c].alone = @ /\ ~bad,
                   ![c].stale = l \in grafted /\ ~(prefixes \subseteq {Host} \cup up)]
    /\ UNCHANGED <<files, up, baseline, working, audited, settled, grafted, calls>>

\* A command throws: the call ends where it is, and leaves the working trees.
Throw(c) ==
    /\ InFlight(c) /\ call[c].stage # "fold" /\ call[c].read = <<>>
    /\ events < MaxEvents
    /\ events' = events + 1
    /\ call' = [call EXCEPT ![c] = NoCall]
    /\ UNCHANGED <<files, up, baseline, working, audited, settled, grafted, calls>>

----------------------------------------------------------------------------
(* What a call does with the tree it read *)

Landing(c, stage) == call[c].stage = stage /\ call[c].read # <<>>
LevelRead(c) == Head(call[c].todo)
TreeRead(c) == call[c].read[1]

\* The call goes on to its next level, or ends.
NextLevel(c) ==
    IF Len(call[c].todo) = 1 THEN NoCall ELSE [call[c] EXCEPT !.todo = Tail(@), !.read = <<>>]

Cleared == [l \in Levels |-> EmptyTree]

\* A tree that replaces the whole baseline of its level brings no graft, unless it has kept
\* one as the subtree of a stopped container.
GraftedBy(c, whole) ==
    IF whole /\ ~call[c].stale THEN grafted \ {LevelRead(c)} ELSE grafted \cup {LevelRead(c)}

\* computeTree into the baseline: compute_tree, and the levels that verify seeds.
LandBaseline(c) ==
    /\ Landing(c, "compute") \/ Landing(c, "seed")
    /\ baseline' = [baseline EXCEPT ![LevelRead(c)] = TreeRead(c)]
    /\ call' = [call EXCEPT ![c] = NextLevel(c)]
    /\ settled' = Gone /\ grafted' = GraftedBy(c, TRUE)
    /\ UNCHANGED <<files, up, working, audited, calls, events>>

\* acceptTruth, one level.
LandPromote(c) ==
    LET l == LevelRead(c)
        last == Len(call[c].todo) = 1
    IN /\ Landing(c, "promote")
       /\ baseline' = [baseline EXCEPT ![l] = Promote(@, TreeRead(c), call[c].scope)]
       /\ working' = IF last THEN Cleared ELSE [working EXCEPT ![l] = TreeRead(c)]
       /\ call' = [call EXCEPT ![c] = NextLevel(c)]
       /\ settled' = IF last /\ call[c].alone /\ call[c].scope = Root
                     THEN [files |-> files, up |-> up] ELSE Gone
       /\ grafted' = GraftedBy(c, call[c].scope = Root)
       /\ UNCHANGED <<files, up, audited, calls, events>>

\* The report of a verify, from the drift of its levels; drift at l1 is not kept by a
\* verify of l2 or l3.
Reported(c, drift) ==
    IF call[c].level \in {"l2", "l3"} THEN [drift EXCEPT !["l1"] = EmptyTree] ELSE drift

\* What follows a report: autoAccept computes the working trees afresh.
AfterReport(c, drift) ==
    IF ~call[c].auto \/ Drifted(drift) = {} THEN NoCall
    ELSE [call[c] EXCEPT !.stage = "refold", !.read = <<>>, !.drift = drift,
                         !.todo = LevelsOf(call[c].level), !.plan = FoldPlan(drift), !.chosen = FoldPlan(drift)]

\* computeAndDiff, and the report after the last level: a clean l1 ends a smart verify.
LandDiff(c) ==
    LET l == LevelRead(c)
        drift == [call[c].drift EXCEPT ![l] = TreeDiff(baseline[l], TreeRead(c), call[c].scope)]
        more == IF call[c].level = "smart" /\ l = "l1" /\ drift["l1"] # EmptyTree
                THEN <<"l2", "l3">> ELSE Tail(call[c].todo)
    IN /\ Landing(c, "diff")
       /\ IF more # <<>>
          THEN /\ call' = [call EXCEPT ![c].todo = more, ![c].read = <<>>, ![c].drift = drift]
               /\ working' = [working EXCEPT ![l] = TreeRead(c)]
          ELSE /\ call' = [call EXCEPT ![c] = AfterReport(c, Reported(c, drift))]
               /\ working' = Cleared
       /\ UNCHANGED <<files, up, baseline, audited, settled, grafted, calls, events>>

\* The next leaf of the plan is folded from w at the levels of the call, and the audit
\* record of the fold carries the baseline's l3 hash as its afterHash.
FoldNext(c, w) ==
    LET n == FirstInOrder(call[c].plan)
        ls == IF call[c].level = "smart" THEN Levels ELSE {call[c].level}
    IN /\ baseline' = [l \in Levels |-> IF l \in ls THEN FoldLeaf(baseline[l], w[l], n) ELSE baseline[l]]
       /\ audited' = audited \cup
             {p \in FileContents : n \in Leaves \cap DOMAIN baseline'["l3"] /\ baseline'["l3"][n] = {<<n, p>>}}
       /\ settled' = Gone
       /\ grafted' = grafted \cup
             {l \in ls : n \in DOMAIN w[l] /\ (n \in Leaves => ~(Above[n] \subseteq DOMAIN baseline[l]))}

\* autoAccept: the working trees are computed afresh, and the first leaf is folded in the
\* same step as the last of them lands.
LandRefold(c) ==
    LET l == LevelRead(c)
        w == [working EXCEPT ![l] = TreeRead(c)]
        last == Len(call[c].todo) = 1
    IN /\ Landing(c, "refold")
       /\ IF last /\ call[c].plan = {}
          THEN call' = [call EXCEPT ![c] = NoCall] /\ working' = Cleared
          ELSE /\ working' = w
               /\ call' = [call EXCEPT ![c] =
                     IF last THEN [call[c] EXCEPT !.stage = "fold", !.read = <<>>,
                                           !.plan = @ \ {FirstInOrder(@)}]
                     ELSE NextLevel(c)]
       /\ IF last /\ call[c].plan # {} THEN FoldNext(c, w)
          ELSE UNCHANGED <<baseline, audited, settled, grafted>>
       /\ UNCHANGED <<files, up, calls, events>>

\* After the append of an audit record: the next leaf, from whatever working holds now.
Fold(c) ==
    /\ call[c].stage = "fold" /\ call[c].plan # {}
    /\ FoldNext(c, working)
    /\ call' = [call EXCEPT ![c].plan = @ \ {FirstInOrder(@)}]
    /\ UNCHANGED <<files, up, working, calls, events>>

FoldsDone(c) ==
    /\ call[c].stage = "fold" /\ call[c].plan = {}
    /\ call' = [call EXCEPT ![c] = NoCall]
    /\ working' = Cleared
    /\ UNCHANGED <<files, up, baseline, audited, settled, grafted, calls, events>>

----------------------------------------------------------------------------
(* The node *)

\* A file can change while its machine runs.
CanChange(f) == \A g \in Guests : g \in Above[f] => g \in up

Change ==
    /\ events < MaxEvents
    /\ events' = events + 1
    /\ call' = Disturbed
    /\ UNCHANGED <<baseline, working, settled, grafted, calls>>

\* Somebody edits, touches, creates or removes a file.
OutOfBand(f, v) ==
    /\ Change
    /\ CanChange(f) /\ files[f] # v
    /\ files' = [files EXCEPT ![f] = v]
    /\ UNCHANGED <<up, audited>>

\* A write tool of the server: its audit record carries contentLeafHash as afterHash.
ServerWrite(f, v) ==
    /\ Change
    /\ CanChange(f) /\ (files[f] # Gone => files[f].mtime # v.mtime)
    /\ files' = [files EXCEPT ![f] = v]
    /\ audited' = audited \cup {v.content}
    /\ UNCHANGED up

GuestTurns(g) ==
    /\ Change
    /\ up' = IF g \in up THEN up \ {g} ELSE up \cup {g}
    /\ UNCHANGED <<files, audited>>

Stat == [content : FileContents, mtime : Mtimes]

IntegrityTools(c) ==
    \/ \E level \in ComputeLevels : ComputeTree(c, level)
    \/ \E level \in VerifyLevels, scope \in ReportScopes, auto \in BOOLEAN : Verify(c, level, scope, auto)
    \/ \E scope \in AcceptScopes : AcceptTruth(c, scope)

ForestNext ==
    \/ \E c \in CallIds :
          \/ IntegrityTools(c)
          \/ Read(c)
          \/ Throw(c)
          \/ LandBaseline(c)
          \/ LandPromote(c)
          \/ LandDiff(c)
          \/ LandRefold(c)
          \/ Fold(c)
          \/ FoldsDone(c)
    \/ \E f \in Leaves, v \in Stat \cup {Gone} : OutOfBand(f, v)
    \/ \E f \in Leaves, v \in Stat : ServerWrite(f, v)
    \/ \E g \in Guests : GuestTurns(g)

ForestSpec == ForestInit /\ [][ForestNext]_forestVars

----------------------------------------------------------------------------
(* Properties *)

Payloads == FileContents \cup Mtimes \cup {"unreadable", "empty-dir"}
Trees == UNION {[D -> SUBSET (Nodes \X Payloads)] : D \in SUBSET Nodes}
Stages == {"idle", "compute", "seed", "diff", "promote", "refold", "fold"}
CallRecords ==
    [stage : Stages, level : Levels \cup {"smart"}, scope : Nodes, auto : BOOLEAN,
     todo : Seq(Levels), read : Seq(Trees), drift : [Levels -> Trees],
     plan : SUBSET Nodes, chosen : SUBSET Nodes, alone : BOOLEAN, stale : BOOLEAN]

\* The types of the state: trees hold nodes of the forest (StoredNode), and a call that
\* computes has a level to compute.
ForestTypeOK ==
    /\ files \in [Leaves -> Stat \cup {Gone}] /\ up \subseteq Guests
    /\ baseline \in [Levels -> Trees] /\ working \in [Levels -> Trees]
    /\ audited \subseteq FileContents
    /\ call \in [CallIds -> CallRecords]
    /\ \A c \in CallIds : call[c].stage \notin {"idle", "fold"} => call[c].todo # <<>>
    /\ grafted \subseteq Levels
    /\ calls \in 0..MaxCalls /\ events \in 0..MaxEvents

\* The leaf differs between two trees.
Differs(b, w, f) == IF f \in DOMAIN b THEN f \notin DOMAIN w \/ b[f] # w[f] ELSE f \in DOMAIN w

\* A verify of level l names every leaf of its scope that differs: itself, or a directory
\* above it that was added or removed as a whole.
Names(c) ==
    LET l == LevelRead(c)
        entries == DOMAIN TreeDiff(baseline[l], TreeRead(c), call[c].scope)
    IN \A f \in Leaves \cap Under(call[c].scope) :
          Differs(baseline[l], TreeRead(c), f) => \E n \in entries : f \in Under(n)

\* Pruning hides nothing: whatever folds, accepts and seeds of other calls came before, the
\* diff of a verify names every leaf that differs, until a level of the baseline holds a hash
\* that is not that of its leaves: an accept_truth of a scope, a fold of an added or removed
\* directory, or a fold of a leaf whose directories the baseline lacks, where the refold stops.
\* A tree that froze such a subtree of a stopped container has it too (stale).
DriftIsReported ==
    [][\A c \in CallIds :
          /\ Landing(c, "diff") /\ call'[c] # call[c]
          /\ LevelRead(c) \notin grafted /\ ~call[c].stale
          => Names(c)]_forestVars

\* What a computation of level l would read now.
Fresh(l) == AssembleForest(l, files, up, baseline[l], Prefixes, {})

AutoAccepts(c) == call[c].stage \in {"refold", "fold"} /\ call[c].alone

\* What the policy flags stays visible: while an auto-accept runs undisturbed, and when it
\* has, every drift of its report that is not at or below a node it chose to fold is named by
\* the next verify of the same level and scope; folding its siblings has not made the
\* directories above it agree.  (A level that holds a graft is left out only while a
\* container is stopped: freezing reads the graft back.)
FlaggedStaysReported ==
    \A c \in CallIds, l \in Levels :
        AutoAccepts(c) /\ (l \notin grafted \/ up = Guests) =>
            \A n \in DOMAIN call[c].drift[l] :
                (\A m \in call[c].chosen : n \notin Under(m)) =>
                    n \in DOMAIN TreeDiff(baseline[l], Fresh(l), call[c].scope)

\* docs/adr/ADR-009-merkle-integrity-forest.md:97: "Whatever the policy declines stays
\* flagged until an explicit accept_truth".  A drift that no level reports is not flagged:
\* the fold of an added directory takes along the leaf below it that the policy declined.
DeclinedStaysFlagged ==
    \A c \in CallIds :
        AutoAccepts(c) =>
            \A n \in Drifted(call[c].drift) \ call[c].chosen :
                \E l \in Levels : n \in DOMAIN TreeDiff(baseline[l], Fresh(l), call[c].scope)

\* An accept_truth of the whole forest that ran undisturbed leaves nothing to report: until
\* a file changes, and whether or not a container that ran has been stopped since, every
\* level of the baseline agrees with the forest as it would be computed now.
AcceptedIsClean ==
    (settled # Gone /\ files = settled.files /\ up \subseteq settled.up) =>
        \A l \in Levels : TreeDiff(baseline[l], Fresh(l), Root) = EmptyTree

=============================================================================
