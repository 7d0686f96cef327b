--------------------------- MODULE ConfigHistory ---------------------------
(***************************************************************************)
(* The config history, src/history and src/tools/configSweep.ts: a git     *)
(* repository that mirrors the watched files of a target, with a manifest  *)
(* of their permissions.  A write tool records its mutation after the      *)
(* write; config_sweep compares the whole target with the mirror.          *)
(*                                                                         *)
(* Git runs one at a time (GitEngine.run), but a commit is three of them   *)
(* and a record or sweep awaits between most of its steps: each action     *)
(* below ends at an await.                                                 *)
(***************************************************************************)
EXTENDS Naturals, FiniteSets

CONSTANTS
    Paths,      \* watched files of the target, within the size cap and not excluded
    Contents,   \* file contents
    Gone,       \* no such file
    CallIds,    \* the calls of a behaviour
    Pushes,     \* a push mode with a remote is configured
    MaxEvents   \* BOUND: failures, restarts and changes by other people

ASSUME ConfigHistoryAssumption ==
    Gone \notin Contents /\ Pushes \in BOOLEAN /\ MaxEvents \in Nat

VARIABLES
    files,      \* path -> its content on the node
    mirror,     \* path -> its content in the working tree
    manifest,   \* the paths with an entry in the manifest
    index,      \* the staged tree: mirror and manifest
    head,       \* the committed tree
    remote,     \* the tree last pushed
    call,       \* call -> its progress
    events      \* failures and changes so far

vars == <<files, mirror, manifest, index, head, remote, call, events>>

Value == Contents \cup {Gone}
Tree == [mirror : [Paths -> Value], manifest : SUBSET Paths]
WorkTree == [mirror |-> mirror, manifest |-> manifest]

NoCall == [op |-> "mutate", stage |-> "idle", path |-> Gone, content |-> Gone,
           listed |-> {}, hashes |-> [p \in Paths |-> Gone], fetch |-> {}, todo |-> {}, delete |-> {},
           copy |-> {}, committed |-> FALSE, touched |-> {}, statted |-> FALSE,
           swept |-> FALSE, alone |-> FALSE]

InFlight(c) == call[c].stage \notin {"idle", "over"}

Charge(bad) ==
    /\ bad => events < MaxEvents
    /\ events' = IF bad THEN events + 1 ELSE events

\* The calls after c has gone on as rec and the mirror has changed at ps.
Touch(c, rec, ps) ==
    [d \in CallIds |-> LET r == IF d = c THEN rec ELSE call[d]
                       IN IF d = c THEN r ELSE [r EXCEPT !.touched = @ \cup ps]]

\* A call begins; swept and alone remember who else was there.
Begin(c, rec) ==
    LET others == {d \in CallIds : InFlight(d)}
        sweep == rec.op = "sweep" \/ \E d \in others : call[d].op = "sweep"
    IN /\ call[c].stage = "idle"
       /\ call' = [d \in CallIds |->
                      IF d = c THEN [rec EXCEPT !.alone = others = {}, !.swept = sweep]
                      ELSE [call[d] EXCEPT !.alone = FALSE, !.swept = @ \/ rec.op = "sweep"]]

----------------------------------------------------------------------------
(* recordMutation *)

\* A write tool has written the file and now records it.
Mutate(c, p, v) ==
    /\ files[p] # v
    /\ Begin(c, [NoCall EXCEPT !.stage = "mirror", !.path = p, !.content = v])
    /\ files' = [files EXCEPT ![p] = v]
    /\ UNCHANGED <<mirror, manifest, index, head, remote, events>>

\* The mirror copy is written, and the file's permissions are asked for.
MirrorMutation(c) ==
    /\ call[c].stage = "mirror"
    /\ mirror' = [mirror EXCEPT ![call[c].path] = call[c].content]
    /\ call' = Touch(c, [call[c] EXCEPT !.stage = "stat", !.copy = manifest], {call[c].path})
    /\ UNCHANGED <<files, manifest, index, head, remote, events>>

\* Mutant: the manifest was read before the stat.
StatFromCopy(c, fails) ==
    /\ call[c].stage = "stat"
    /\ Charge(fails)
    /\ LET known == ~fails /\ files[call[c].path] # Gone
       IN /\ manifest' = IF known THEN call[c].copy \cup {call[c].path} ELSE manifest
          /\ call' = [call EXCEPT ![c].stage = "add", ![c].statted = known]
    /\ UNCHANGED <<files, mirror, index, head, remote>>

\* The manifest is read and written back in one step; without an answer it is left.
Stat(c, fails) ==
    /\ call[c].stage = "stat"
    /\ Charge(fails)
    /\ LET known == ~fails /\ files[call[c].path] # Gone
       IN /\ manifest' = IF known THEN manifest \cup {call[c].path} ELSE manifest
          /\ call' = [call EXCEPT ![c].stage = "add", ![c].statted = known]
    /\ UNCHANGED <<files, mirror, index, head, remote>>

----------------------------------------------------------------------------
(* config_sweep of the target *)

Sweep(c) ==
    /\ Begin(c, [NoCall EXCEPT !.op = "sweep", !.stage = "find"])
    /\ UNCHANGED <<files, mirror, manifest, index, head, remote, events>>

\* find; when it fails the target is an error, and the sweep goes on to its commit.
Enumerate(c, fails) ==
    /\ call[c].stage = "find"
    /\ Charge(fails)
    /\ call' = [call EXCEPT ![c].stage = IF fails THEN "add" ELSE "hash",
                            ![c].alone = @ /\ ~fails,
                            ![c].listed = {p \in Paths : files[p] # Gone}]
    /\ UNCHANGED <<files, mirror, manifest, index, head, remote>>

\* Mutant: a file that the mirror does not have is not fetched.
FetchChanged(listed, hashes) == {p \in listed : mirror[p] # Gone /\ hashes[p] # mirror[p]}

\* diffAgainstMirror: a listed file is fetched when it has a hash and the mirror another;
\* a mirrored file that find did not list is deleted.
ToFetch(listed, hashes) == {p \in listed : hashes[p] # Gone /\ hashes[p] # mirror[p]}
ToDelete(listed, hashes) == {p \in Paths : mirror[p] # Gone /\ p \notin listed}

\* With nothing left to fetch the deletions are made, and the manifest is read; it is
\* written at once unless there are permissions to ask for.
Finish(c, rec, m) ==
    LET last == rec.todo = {}
        asks == rec.fetch # {}
        final == [p \in Paths |-> IF last /\ p \in rec.delete THEN Gone ELSE m[p]]
    IN /\ mirror' = final
       /\ manifest' = IF last /\ ~asks THEN manifest \ rec.delete ELSE manifest
       /\ call' = Touch(c, [rec EXCEPT !.stage = IF ~last THEN "fetch" ELSE IF asks THEN "stats" ELSE "add",
                                       !.copy = manifest],
                        {p \in Paths : final[p] # mirror[p]})

\* sha256sum, and the comparison with the mirror as it is when the answer arrives.
HashAndDiff(c, fails) ==
    /\ call[c].stage = "hash"
    /\ Charge(fails)
    /\ LET hashes == [p \in Paths |-> IF p \in call[c].listed THEN files[p] ELSE Gone]
           fetch == ToFetch(call[c].listed, hashes)
       IN IF fails
          THEN /\ call' = [call EXCEPT ![c].stage = "add", ![c].alone = FALSE]
               /\ UNCHANGED <<mirror, manifest>>
          ELSE Finish(c, [call[c] EXCEPT !.hashes = hashes, !.fetch = fetch, !.todo = fetch,
                                         !.delete = ToDelete(call[c].listed, hashes)], mirror)
    /\ UNCHANGED <<files, index, head, remote>>

\* The node reads a file to fetch; one that vanished is skipped.
Fetch(c, p) ==
    /\ call[c].stage = "fetch" /\ p \in call[c].todo
    /\ call' = [call EXCEPT ![c].stage = "land", ![c].path = p, ![c].content = files[p]]
    /\ UNCHANGED <<files, mirror, manifest, index, head, remote, events>>

\* Its content arrives and goes into the mirror.
Land(c) ==
    /\ call[c].stage = "land"
    /\ LET p == call[c].path
       IN Finish(c, [call[c] EXCEPT !.todo = @ \ {p}],
                 IF call[c].content = Gone THEN mirror ELSE [mirror EXCEPT ![p] = call[c].content])
    /\ UNCHANGED <<files, index, head, remote, events>>

\* The permissions arrive: the manifest is written from the copy read before them.
StatBatch(c, fails) ==
    /\ call[c].stage = "stats"
    /\ Charge(fails)
    /\ LET known == IF fails THEN {} ELSE {p \in call[c].fetch : files[p] # Gone}
       IN manifest' = (call[c].copy \cup known) \ call[c].delete
    /\ call' = [call EXCEPT ![c].stage = "add", ![c].alone = @ /\ ~fails]
    /\ UNCHANGED <<files, mirror, index, head, remote>>

----------------------------------------------------------------------------
(* ConfigHistory.commit and push *)

Answer(c, committed) ==
    [call[c] EXCEPT !.stage = IF committed /\ @ # "push" /\ call[c].op = "mutate" /\ Pushes
                              THEN "push" ELSE "over",
                    !.committed = committed]

\* Mutant: only the file of the mutation is staged.
AddOwn(c, fails) ==
    /\ call[c].stage = "add"
    /\ Charge(fails)
    /\ index' = IF fails THEN index
                ELSE IF call[c].op = "sweep" THEN WorkTree
                ELSE [index EXCEPT !.mirror[call[c].path] = mirror[call[c].path], !.manifest = manifest]
    /\ call' = [call EXCEPT ![c] = IF fails THEN Answer(c, FALSE)
                                   ELSE [call[c] EXCEPT !.stage = "diff", !.touched = {}]]
    /\ UNCHANGED <<files, mirror, manifest, head, remote>>

\* git add -A
Add(c, fails) ==
    /\ call[c].stage = "add"
    /\ Charge(fails)
    /\ index' = IF fails THEN index ELSE WorkTree
    /\ call' = [call EXCEPT ![c] = IF fails THEN Answer(c, FALSE)
                                   ELSE [call[c] EXCEPT !.stage = "diff", !.touched = {}]]
    /\ UNCHANGED <<files, mirror, manifest, head, remote>>

\* git diff --cached --quiet: nothing staged is a success.
Diff(c) ==
    /\ call[c].stage = "diff"
    /\ call' = [call EXCEPT ![c] = IF index = head THEN Answer(c, TRUE)
                                   ELSE [call[c] EXCEPT !.stage = "commit"]]
    /\ UNCHANGED <<files, mirror, manifest, index, head, remote, events>>

\* git commit: it exits non-zero when nothing is staged any more.
Commit(c, fails) ==
    /\ call[c].stage = "commit"
    /\ Charge(fails)
    /\ LET works == ~fails /\ index # head
       IN /\ head' = IF works THEN index ELSE head
          /\ call' = [call EXCEPT ![c] = Answer(c, works)]
    /\ UNCHANGED <<files, mirror, manifest, index, remote>>

\* Only a recorded mutation pushes; a push that fails is left to the next one.
Push(c, fails) ==
    /\ call[c].stage = "push"
    /\ Charge(fails)
    /\ remote' = IF fails THEN remote ELSE head
    /\ call' = [call EXCEPT ![c].stage = "over"]
    /\ UNCHANGED <<files, mirror, manifest, index, head>>

----------------------------------------------------------------------------
(* Other people, and restarts *)

OutOfBand(p, v) ==
    /\ files[p] # v
    /\ Charge(TRUE)
    /\ files' = [files EXCEPT ![p] = v]
    /\ call' = [c \in CallIds |-> [call[c] EXCEPT !.alone = FALSE]]
    /\ UNCHANGED <<mirror, manifest, index, head, remote>>

\* The server stops: its calls are gone, the repository stays as it is.
Restart ==
    /\ \E c \in CallIds : InFlight(c)
    /\ Charge(TRUE)
    /\ call' = [c \in CallIds |-> IF InFlight(c) THEN [call[c] EXCEPT !.stage = "over", !.committed = FALSE]
                                  ELSE call[c]]
    /\ UNCHANGED <<files, mirror, manifest, index, head, remote>>

Empty == [mirror |-> [p \in Paths |-> Gone], manifest |-> {}]

\* ConfigHistory.init on a new or on a current repository.
Init ==
    /\ files \in [Paths -> Value]
    /\ head \in {Empty, [mirror |-> files, manifest |-> {p \in Paths : files[p] # Gone}]}
    /\ mirror = head.mirror /\ manifest = head.manifest
    /\ index = head /\ remote = head
    /\ call = [c \in CallIds |-> NoCall]
    /\ events = 0

Next ==
    \/ \E c \in CallIds :
          \/ \E p \in Paths, v \in Contents : Mutate(c, p, v)
          \/ MirrorMutation(c)
          \/ Sweep(c)
          \/ \E p \in Paths : Fetch(c, p)
          \/ Land(c)
          \/ Diff(c)
          \/ \E fails \in BOOLEAN :
                \/ Stat(c, fails)
                \/ Enumerate(c, fails)
                \/ HashAndDiff(c, fails)
                \/ StatBatch(c, fails)
                \/ Add(c, fails)
                \/ Commit(c, fails)
                \/ Push(c, fails)
    \/ \E p \in Paths, v \in Value : OutOfBand(p, v)
    \/ Restart

Spec == Init /\ [][Next]_vars

----------------------------------------------------------------------------
(* Properties *)

Ends(c) == InFlight(c) /\ call[c].stage # "push" /\ call'[c].stage \in {"push", "over"}

\* When commit answers true (configHistory.ts:231-239), HEAD holds every file as the mirror
\* has it, whoever wrote it and whoever committed it, those of calls that a restart cut
\* short included; only a file that changed since the call's own git add may differ.
CommitCoversMirror ==
    [][\A c \in CallIds :
          Ends(c) /\ call'[c].committed =>
             \A p \in Paths \ call[c].touched : head'.mirror[p] = mirror'[p]]_vars

\* A sweep that was alone and had no failure leaves HEAD with exactly the files of the
\* node, from whatever mirror, index and HEAD it found (configSweep.ts:129-262).
SweepConverges ==
    [][\A c \in CallIds :
          Ends(c) /\ call[c].op = "sweep" /\ call[c].alone /\ call'[c].committed =>
             head'.mirror = files]_vars

\* The manifest entry that a mutation wrote is still there when its commit ends, whatever
\* other mutations did meanwhile; a sweep may still take it back (configHistory.ts:119-124,
\* configSweep.ts:240-255).
ManifestKept ==
    [][\A c \in CallIds :
          Ends(c) /\ call[c].op = "mutate" /\ call[c].statted /\ ~call[c].swept
          => call[c].path \in manifest']_vars

----------------------------------------------------------------------------
(* The inductive invariant *)

Stages == {"idle", "mirror", "stat", "find", "hash", "fetch", "land", "stats", "add", "diff",
           "commit", "push", "over"}
Call == [op : {"mutate", "sweep"}, stage : Stages, path : Paths \cup {Gone}, content : Value,
         listed : SUBSET Paths, hashes : [Paths -> Value], fetch : SUBSET Paths,
         todo : SUBSET Paths, delete : SUBSET Paths, copy : SUBSET Paths, committed : BOOLEAN,
         touched : SUBSET Paths, statted : BOOLEAN, swept : BOOLEAN, alone : BOOLEAN]

TypeOK ==
    /\ files \in [Paths -> Value] /\ mirror \in [Paths -> Value] /\ manifest \in SUBSET Paths
    /\ index \in Tree /\ head \in Tree /\ remote \in Tree
    /\ call \in [CallIds -> Call] /\ events \in Nat

\* Which stages a mutation and a sweep go through.
StageFits(c) ==
    /\ call[c].stage \in {"mirror", "stat", "push"} => call[c].op = "mutate"
    /\ call[c].stage \in {"find", "hash", "fetch", "land", "stats"} => call[c].op = "sweep"
    /\ InFlight(c) /\ call[c].op = "mutate" => call[c].path \in Paths

\* Two calls in flight know of each other.
CompanyIsKnown(c) ==
    InFlight(c) =>
        \A d \in CallIds : InFlight(d) => /\ call[d].op = "sweep" => call[c].swept
                                          /\ d # c => ~call[c].alone

\* What a call has staged is in the index until the mirror changes, whoever stages after it.
StagedFits(c) ==
    call[c].stage \in {"diff", "commit"} =>
        \A p \in Paths \ call[c].touched : index.mirror[p] = mirror[p]

\* The entry of a mutation that no sweep has met is in the manifest.
EntryFits(c) ==
    InFlight(c) /\ call[c].op = "mutate" /\ call[c].statted /\ ~call[c].swept
    => call[c].path \in manifest

\* How far a sweep that is alone has brought the mirror, and the index after it, to the files.
SweepFits(c) ==
    InFlight(c) /\ call[c].op = "sweep" /\ call[c].alone =>
        /\ call[c].stage = "hash" => call[c].listed = {p \in Paths : files[p] # Gone}
        /\ call[c].stage \in {"fetch", "land"}
           => \A p \in Paths : /\ p \in call[c].todo => files[p] # Gone
                               /\ p \in call[c].delete => files[p] = Gone
                               /\ p \notin call[c].todo \cup call[c].delete => mirror[p] = files[p]
        /\ call[c].stage = "land" => call[c].path \in call[c].todo /\ call[c].content = files[call[c].path]
        /\ call[c].stage \in {"stats", "add"} => mirror = files
        /\ call[c].stage \in {"diff", "commit"} => index.mirror = files

IInv ==
    /\ TypeOK
    /\ \A c \in CallIds : /\ StageFits(c) /\ CompanyIsKnown(c) /\ StagedFits(c)
                          /\ EntryFits(c) /\ SweepFits(c)
=============================================================================
