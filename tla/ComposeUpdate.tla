--------------------------- MODULE ComposeUpdate ---------------------------
(***************************************************************************)
(* compose_update, tools/composeUpdate.ts: pull a service's image, hold    *)
(* the old one under a tag of the server, recreate the container, gate its *)
(* health, and put the old image back when the gate fails.                 *)
(*                                                                         *)
(* One Docker daemon.  Every command is an exec that may exit non-zero,    *)
(* or throw (connection lost, timed out) before or after it took effect.   *)
(* Nothing serialises calls: two updates may be in flight, on one service, *)
(* on two that share an image ref, or on two of one name in two projects.  *)
(***************************************************************************)
EXTENDS Naturals, FiniteSets

CONSTANTS
    Services,  \* compose services with a running container, of any compose project
    Names,     \* what compose files call their services
    NameOf,    \* service -> its name in its file
    UpPulls,   \* services whose pull_policy lets `up` pull: always, daily, ...
    Refs,      \* image refs, name:tag
    Repos,     \* their repositories
    RepoOf,    \* ref -> repository
    Images,    \* image ids
    Updates,   \* calls that can be in flight together
    None,
    MaxCalls,  \* BOUND: calls in a behaviour
    MaxFaults  \* BOUND: commands that throw, and acts of an operator

HoldTags == [repo : Repos, name : Names]

ASSUME UpdateAssumption ==
    /\ Refs \cap HoldTags = {}
    /\ RepoOf \in [Refs -> Repos]
    /\ NameOf \in [Services -> Names]
    /\ UpPulls \subseteq Services
    /\ None \notin Services \cup Names \cup Refs \cup Images
    /\ Names \cap Refs = {}
    /\ MaxCalls \in Nat /\ MaxFaults \in Nat

VARIABLES
    registry,   \* ref -> the image the registry serves
    fileRef,    \* service -> the ref its compose file names
    container,  \* service -> the ref it was created from and the image it runs
    tags,       \* local tag -> image
    call,       \* update -> its progress
    met,        \* update -> service names and refs others touched meanwhile (history)
    calls,      \* calls so far
    faults      \* faults so far

vars == <<registry, fileRef, container, tags, call, met, calls, faults>>

\* Mutant: the hold tag names the repository only.
HoldTagOfRepo(r, s) == [repo |-> RepoOf[r], name |-> CHOOSE n \in Names : TRUE]

\* holdTagFor: repository and service name.  The compose project is not in it.
HoldTagFor(r, s) == [repo |-> RepoOf[r], name |-> NameOf[s]]

Tags == Refs \cup HoldTags

Outcomes == {"already-current", "updated", "rolled-back", "rollback-ok-probe-failed",
             "rollback-failed", "failed-needs-file-revert", "pull-failed"}

Stages == {"idle", "config", "pull", "resolve", "hold", "restore", "recreate", "gate",
           "retag", "redo", "regate"}

Call == [at : Stages,
         svc : Services \cup {None},
         created : Refs \cup {None},           \* target.ref
         old : Images \cup {None},             \* oldImageId
         ref : Refs \cup {None},               \* fileRef
         new : Images \cup {None},             \* newImageId
         heldBefore : Images \cup {None},      \* the hold when the call began (history)
         missed : BOOLEAN,                     \* health.probeOnly
         counted : BOOLEAN,                    \* breaker.check was called
         outcome : Outcomes \cup {"refused", "not-held", "thrown", None}]

NoCall == [at |-> "idle", svc |-> None, created |-> None, old |-> None, ref |-> None,
           new |-> None, heldBefore |-> None, missed |-> FALSE,
           counted |-> FALSE, outcome |-> None]

Init ==
    \E i \in Images :
        /\ registry = [r \in Refs |-> i]
        /\ fileRef \in [Services -> Refs]
        /\ container = [s \in Services |-> [ref |-> fileRef[s], image |-> i]]
        /\ tags = [t \in Tags |-> IF t \in Refs THEN i ELSE None]
        /\ call = [u \in Updates |-> NoCall]
        /\ met = [u \in Updates |-> {}]
        /\ calls = 0
        /\ faults = 0

InFlight(u) == call[u].at # "idle"

\* The hold tag of a call, named after the ref its container was created from.
Hold(u) == HoldTagFor(call[u].created, call[u].svc)

\* The ref of the file is not the one the container was created from.
RefMismatch(u) == call[u].created # call[u].ref

----------------------------------------------------------------------------
(* The handler *)

Go(u, stage) == call' = [call EXCEPT ![u].at = stage]

\* The call ends, by finish with its audit record or by a throw; counted when
\* breaker.check recorded the attempt.
Finish(u, outcome, counted) ==
    call' = [call EXCEPT ![u] = [NoCall EXCEPT !.outcome = outcome, !.counted = counted]]

\* The updates other than u in flight learn that x is touched.
Touch(u, x) ==
    [v \in Updates |-> IF v # u /\ InFlight(v) THEN met[v] \cup {x} ELSE met[v]]

\* The scan: the service's running container, its ref and its image.
Scanned(s) ==
    [at |-> "config", svc |-> s, created |-> container[s].ref, old |-> container[s].image,
     ref |-> None, new |-> None, heldBefore |-> tags[HoldTagFor(container[s].ref, s)],
     missed |-> FALSE, counted |-> FALSE, outcome |-> None]

Begin(u, s) ==
    /\ ~InFlight(u)
    /\ calls < MaxCalls
    /\ calls' = calls + 1
    /\ call' = [call EXCEPT ![u] = Scanned(s)]
    /\ met' = [Touch(u, NameOf[s]) EXCEPT ![u] =
                   UNION {{NameOf[call[v].svc], call[v].ref} \ {None} :
                              v \in {v \in Updates \ {u} : InFlight(v)}}]
    /\ UNCHANGED <<registry, fileRef, container, tags, faults>>

\* docker compose config: the ref in the file.
Config(u) ==
    /\ call[u].at = "config"
    /\ call' = [call EXCEPT ![u].at = "pull", ![u].ref = fileRef[call[u].svc]]
    /\ met' = Touch(u, fileRef[call[u].svc])
    /\ UNCHANGED <<registry, fileRef, container, tags, calls, faults>>

\* A precondition refuses: the probe misses the running image, build:, netns, ...
Refuse(u) ==
    /\ call[u].at \in {"config", "pull"}
    /\ Finish(u, "refused", FALSE)
    /\ UNCHANGED <<registry, fileRef, container, tags, met, calls, faults>>

\* A pull moves the tag of the ref to what the registry serves.
Pulled(r) == [tags EXCEPT ![r] = registry[r]]

Pull(u) ==
    /\ call[u].at = "pull"
    /\ tags' = Pulled(call[u].ref)
    /\ Go(u, "resolve")
    /\ UNCHANGED <<registry, fileRef, container, met, calls, faults>>

PullFails(u) ==
    /\ call[u].at \in {"pull", "resolve"}
    /\ Finish(u, "pull-failed", FALSE)
    /\ UNCHANGED <<registry, fileRef, container, tags, met, calls, faults>>

\* Mutant: hold first, ask afterwards whether there is anything to do.
ResolveAfterHold(u) ==
    /\ call[u].at = "resolve"
    /\ tags' = [tags EXCEPT ![Hold(u)] = call[u].old]
    /\ LET new == tags[call[u].ref] IN
           IF new = call[u].old /\ ~RefMismatch(u)
           THEN Finish(u, "already-current", FALSE)
           ELSE call' = [call EXCEPT ![u].at = "recreate", ![u].new = new]
    /\ UNCHANGED <<registry, fileRef, container, met, calls, faults>>

\* docker image inspect of the ref.  The image that runs, under the ref it was
\* created from: already current, and no tag moves.
Resolve(u) ==
    /\ call[u].at = "resolve"
    /\ LET new == tags[call[u].ref] IN
           IF new = call[u].old /\ ~RefMismatch(u)
           THEN Finish(u, "already-current", FALSE)
           ELSE call' = [call EXCEPT ![u].at = "hold", ![u].new = new]
    /\ UNCHANGED <<registry, fileRef, container, tags, met, calls, faults>>

\* docker tag <old> <hold>: moves the hold of an earlier update.
HoldOld(u) ==
    /\ call[u].at = "hold"
    /\ tags' = [tags EXCEPT ![Hold(u)] = call[u].old]
    /\ Go(u, "recreate")
    /\ UNCHANGED <<registry, fileRef, container, met, calls, faults>>

HoldFails(u) ==
    /\ call[u].at = "hold"
    /\ Go(u, "restore")
    /\ UNCHANGED <<registry, fileRef, container, tags, met, calls, faults>>

\* Mutant: the handler throws at once, with the pulled image under the ref.
RestoreNothing(u) ==
    /\ call[u].at = "restore"
    /\ Finish(u, "not-held", FALSE)
    /\ UNCHANGED <<registry, fileRef, container, tags, met, calls, faults>>

\* docker tag <old> <ref> after a failed hold; the handler throws, without a record.
RestoreRef(u) ==
    /\ call[u].at = "restore"
    /\ tags' = [tags EXCEPT ![call[u].ref] = call[u].old]
    /\ Finish(u, "not-held", FALSE)
    /\ UNCHANGED <<registry, fileRef, container, met, calls, faults>>

RestoreRefFails(u) ==
    /\ call[u].at = "restore"
    /\ Finish(u, "thrown", FALSE)
    /\ UNCHANGED <<registry, fileRef, container, tags, met, calls, faults>>

\* A container of the file's ref of now, by the image that tag names in t.
UpContainer(s, t) == [container EXCEPT ![s] = [ref |-> fileRef[s], image |-> t[fileRef[s]]]]

\* docker compose up -d --no-deps may pull the file's ref before it creates: nothing
\* on the command line forbids it.  Others learn that the ref is touched.
UpPull(u) ==
    LET s == call[u].svc
    IN  /\ tags' \in {tags} \cup (IF s \in UpPulls THEN {Pulled(fileRef[s])} ELSE {})
        /\ met' = Touch(u, fileRef[s])

Recreate(u) ==
    /\ call[u].at = "recreate"
    /\ UpPull(u)
    /\ container' = UpContainer(call[u].svc, tags')
    /\ Go(u, "gate")
    /\ UNCHANGED <<registry, fileRef, calls, faults>>

\* After a failed gate: the ref moved in the file, so there is nothing to re-tag
\* (counted), or the old image goes back under the ref.
AfterFailure(u, missed) ==
    IF RefMismatch(u)
    THEN Finish(u, "failed-needs-file-revert", TRUE)
    ELSE call' = [call EXCEPT ![u].at = "retag", ![u].missed = missed]

\* up that fails, with the container replaced or not.
UpPartly(u) ==
    /\ UpPull(u)
    /\ container' \in {container, UpContainer(call[u].svc, tags')}

RecreateFails(u) ==
    /\ call[u].at = "recreate"
    /\ UpPartly(u)
    /\ AfterFailure(u, FALSE)
    /\ UNCHANGED <<registry, fileRef, calls, faults>>

\* healthGate passes, the caller's probe included; a container that runs another
\* image than the one pulled is only warned about.
GatePasses(u) ==
    /\ call[u].at = "gate"
    /\ Finish(u, "updated", FALSE)
    /\ UNCHANGED <<registry, fileRef, container, tags, met, calls, faults>>

\* healthGate fails, is still pending at its deadline, or only the probe misses.
GateFails(u) ==
    /\ call[u].at = "gate"
    /\ \E missed \in BOOLEAN : AfterFailure(u, missed)
    /\ UNCHANGED <<registry, fileRef, container, tags, met, calls, faults>>

\* docker tag <hold> <ref>: the image that the hold names now.
Retag(u) ==
    /\ call[u].at = "retag"
    /\ tags[Hold(u)] # None
    /\ tags' = [tags EXCEPT ![call[u].ref] = tags[Hold(u)]]
    /\ Go(u, "redo")
    /\ UNCHANGED <<registry, fileRef, container, met, calls, faults>>

\* The hold is gone, or docker tag fails.
RetagFails(u) ==
    /\ call[u].at = "retag"
    /\ Finish(u, "rollback-failed", TRUE)
    /\ UNCHANGED <<registry, fileRef, container, tags, met, calls, faults>>

\* docker compose up -d --no-deps --pull never.
Redo(u) ==
    /\ call[u].at = "redo"
    /\ container' = UpContainer(call[u].svc, tags)
    /\ Go(u, "regate")
    /\ UNCHANGED <<registry, fileRef, tags, met, calls, faults>>

RedoFails(u) ==
    /\ call[u].at = "redo"
    /\ container' \in {container, UpContainer(call[u].svc, tags)}
    /\ Finish(u, "rollback-failed", TRUE)
    /\ UNCHANGED <<registry, fileRef, tags, met, calls, faults>>

RegatePasses(u) ==
    /\ call[u].at = "regate"
    /\ Finish(u, "rolled-back", TRUE)
    /\ UNCHANGED <<registry, fileRef, container, tags, met, calls, faults>>

\* The old image fails its gate too; only the probe missed on both: not counted.
RegateFails(u) ==
    /\ call[u].at = "regate"
    /\ \/ Finish(u, "rollback-failed", TRUE)
       \/ call[u].missed /\ Finish(u, "rollback-ok-probe-failed", FALSE)
    /\ UNCHANGED <<registry, fileRef, container, tags, met, calls, faults>>

\* transport.exec throws, before or after the command took effect: the handler
\* has no catch, so there is no record and nothing is counted.
Throws(u) ==
    /\ InFlight(u)
    /\ faults < MaxFaults
    /\ faults' = faults + 1
    /\ Finish(u, "thrown", FALSE)
    /\ \/ UNCHANGED <<tags, container, met>>
       \/ call[u].at = "recreate" /\ UpPartly(u)
       \/ /\ call[u].at = "redo"
          /\ container' = UpContainer(call[u].svc, tags)
          /\ UNCHANGED <<tags, met>>
       \/ /\ UNCHANGED <<container, met>>
          /\ \/ call[u].at = "pull" /\ tags' = Pulled(call[u].ref)
             \/ call[u].at = "hold" /\ tags' = [tags EXCEPT ![Hold(u)] = call[u].old]
             \/ call[u].at = "restore" /\ tags' = [tags EXCEPT ![call[u].ref] = call[u].old]
             \/ call[u].at = "retag" /\ tags[Hold(u)] # None
                                      /\ tags' = [tags EXCEPT ![call[u].ref] = tags[Hold(u)]]
    /\ UNCHANGED <<registry, fileRef, calls>>

----------------------------------------------------------------------------
(* The world *)

\* A new image is published under a ref.
Publish(r, i) ==
    /\ faults < MaxFaults
    /\ faults' = faults + 1
    /\ registry' = [registry EXCEPT ![r] = i]
    /\ UNCHANGED <<fileRef, container, tags, call, met, calls>>

\* The compose file is edited to name another ref.
EditFile(s, r) ==
    /\ faults < MaxFaults
    /\ faults' = faults + 1
    /\ fileRef' = [fileRef EXCEPT ![s] = r]
    /\ met' = [v \in Updates |-> IF InFlight(v) THEN met[v] \cup {NameOf[s]} ELSE met[v]]
    /\ UNCHANGED <<registry, container, tags, call, calls>>

\* compose_redeploy: docker compose up -d of a whole file, in which every service
\* has its own name; up may pull here too.
Redeploy(S) ==
    /\ faults < MaxFaults
    /\ faults' = faults + 1
    /\ \A s, t \in S : NameOf[s] = NameOf[t] => s = t
    /\ \E R \in SUBSET {fileRef[s] : s \in S \cap UpPulls} :
         /\ tags' = [t \in Tags |-> IF t \in R THEN registry[t] ELSE tags[t]]
         /\ met' = [v \in Updates |-> IF InFlight(v) THEN met[v] \cup {NameOf[s] : s \in S} \cup R
                                     ELSE met[v]]
    /\ container' = [s \in Services |-> IF s \in S THEN UpContainer(s, tags')[s] ELSE container[s]]
    /\ UNCHANGED <<registry, fileRef, call, calls>>

\* An operator removes a hold, docker rmi <repo>:mcp-hold-<service>.
DropHold(t) ==
    /\ faults < MaxFaults
    /\ faults' = faults + 1
    /\ tags[t] # None
    /\ tags' = [tags EXCEPT ![t] = None]
    /\ met' = [v \in Updates |-> IF InFlight(v) THEN met[v] \cup {t.name} ELSE met[v]]
    /\ UNCHANGED <<registry, fileRef, container, call, calls>>

Next ==
    \/ \E u \in Updates :
        \/ \E s \in Services : Begin(u, s)
        \/ Config(u) \/ Refuse(u)
        \/ Pull(u) \/ PullFails(u) \/ Resolve(u)
        \/ HoldOld(u) \/ HoldFails(u) \/ RestoreRef(u) \/ RestoreRefFails(u)
        \/ Recreate(u) \/ RecreateFails(u) \/ GatePasses(u) \/ GateFails(u)
        \/ Retag(u) \/ RetagFails(u) \/ Redo(u) \/ RedoFails(u)
        \/ RegatePasses(u) \/ RegateFails(u)
        \/ Throws(u)
    \/ \E r \in Refs, i \in Images : Publish(r, i)
    \/ \E s \in Services, r \in Refs : EditFile(s, r)
    \/ \E t \in HoldTags : DropHold(t)
    \/ \E S \in SUBSET Services : Redeploy(S)

Spec == Init /\ [][Next]_vars

----------------------------------------------------------------------------
(* Properties *)

TypeOK ==
    /\ registry \in [Refs -> Images]
    /\ fileRef \in [Services -> Refs]
    /\ container \in [Services -> [ref : Refs, image : Images]]
    /\ tags \in [Tags -> Images \cup {None}]
    /\ \A r \in Refs : tags[r] # None
    /\ call \in [Updates -> Call]
    /\ met \in [Updates -> SUBSET (Names \cup Refs)]
    /\ calls \in 0 .. MaxCalls
    /\ faults \in 0 .. MaxFaults

\* Nobody else updated, edited, un-held or redeployed the service while the call
\* ran, nor a service of another compose project that has the same name: the two
\* share their hold tag.
OwnHold(u) == NameOf[call[u].svc] \notin met[u]

\* Nor did an update of another service use the ref.
OwnRef(u) == call[u].ref \notin met[u]

\* From the hold to the end of the handler the image that may have to come back
\* is under the hold tag, whatever the updates of services of other names do,
\* those that share the image included.  (The updates of a service of the same
\* name move it: the comment on holdTagFor, "one per service", is not true of
\* two projects on one daemon.)
RollbackImageIsHeld ==
    \A u \in Updates :
        (/\ call[u].at \in {"recreate", "gate", "retag", "redo", "regate"}
         /\ OwnHold(u)) => tags[Hold(u)] = call[u].old

Ends(u) == InFlight(u) /\ ~InFlight(u)'

\* What the outcome says runs is what runs, and the ref is not left pointing at an
\* image that was rejected, when no other update shared the hold or the ref.  An
\* update of a service for which `up` may pull ends on the image of the ref, which
\* need not be the one that was pulled first and is reported.
Truthful(u, outcome, running, ref) ==
    /\ outcome = "updated" => running = ref /\ (call[u].svc \notin UpPulls => running = call[u].new)
    /\ outcome \in {"rolled-back", "rollback-ok-probe-failed", "not-held", "already-current"}
           => running = call[u].old /\ ref = call[u].old
    /\ outcome \in {"refused", "pull-failed"} => running = call[u].old

OutcomeIsTrue ==
    [][\A u \in Updates :
          (Ends(u) /\ OwnHold(u) /\ OwnRef(u))
              => Truthful(u, call'[u].outcome, container'[call[u].svc].image,
                          tags'[IF call[u].ref = None THEN call[u].created ELSE call[u].ref])]_vars

\* A call that ends without recreating anything leaves the hold of the last real
\* update where it was; with the hold moved first, that image lost its last tag.
NoopKeepsHold ==
    [][\A u \in Updates :
          (/\ Ends(u) /\ OwnHold(u)
           /\ call'[u].outcome \in {"already-current", "pull-failed", "refused", "not-held"})
              => tags'[Hold(u)] = call[u].heldBefore]_vars

----------------------------------------------------------------------------
(* The inductive invariant *)

\* What each stage knows of its service, image and ref.
StageIsSound(u) ==
    /\ InFlight(u) => /\ call[u].svc \in Services
                      /\ call[u].created \in Refs
                      /\ call[u].old \in Images
    /\ call[u].at \notin {"idle", "config"} => call[u].ref \in Refs
    /\ call[u].at \in {"hold", "restore", "recreate", "gate"} => call[u].new \in Images

StagesAreSound == \A u \in Updates : StageIsSound(u)

\* Two calls in flight know of each other's service name and, once read, ref.
OverlapIsMet ==
    \A u, v \in Updates :
        (u # v /\ InFlight(u) /\ InFlight(v)) =>
            /\ NameOf[call[v].svc] \in met[u]
            /\ call[v].at # "config" => call[v].ref \in met[u]

\* Until it moves the hold, an undisturbed call finds it where it was.
HoldIsUntouched ==
    \A u \in Updates :
        (call[u].at \in {"config", "pull", "resolve", "hold", "restore"} /\ OwnHold(u))
            => tags[Hold(u)] = call[u].heldBefore

\* What runs, stage by stage.
RunningIsKnown ==
    \A u \in Updates :
        (InFlight(u) /\ OwnHold(u)) =>
            /\ call[u].at # "config" => fileRef[call[u].svc] = call[u].ref
            /\ call[u].at \in {"config", "pull", "resolve", "hold", "restore", "recreate"}
                   => container[call[u].svc].image = call[u].old
            /\ OwnRef(u) =>
                  /\ call[u].at = "gate" => container[call[u].svc].image = tags[call[u].ref]
                  /\ call[u].at = "regate" => container[call[u].svc].image = call[u].old

\* What the ref names, stage by stage.
RefIsKnown ==
    \A u \in Updates :
        (InFlight(u) /\ OwnHold(u) /\ OwnRef(u)) =>
            /\ call[u].at \in {"hold", "restore", "recreate"} => tags[call[u].ref] = call[u].new
            /\ call[u].at = "gate" /\ call[u].svc \notin UpPulls => tags[call[u].ref] = call[u].new
            /\ call[u].at \in {"redo", "regate"} => tags[call[u].ref] = call[u].old

IInv ==
    /\ TypeOK
    /\ StagesAreSound
    /\ OverlapIsMet
    /\ HoldIsUntouched
    /\ RollbackImageIsHeld
    /\ RunningIsKnown
    /\ RefIsKnown
=============================================================================
