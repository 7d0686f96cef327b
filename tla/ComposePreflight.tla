-------------------------- MODULE ComposePreflight --------------------------
(***************************************************************************)
(* compose_preflight, src/tools/composePreflight.ts and its handler: the   *)
(* analysis of a proposed compose file for port collisions inside a shared *)
(* network namespace, for the recreation of a namespace provider, and for  *)
(* ports already bound in the guest.                                       *)
(*                                                                         *)
(* The bound ports are read in two commands, a scan of the running         *)
(* containers and a probe of the listeners of one namespace, and the       *)
(* containers may be recreated, stopped or joined by a stranger between    *)
(* them.  One port stands for them all: a check compares claims on one     *)
(* port only, and a port has one holder per namespace.                     *)
(***************************************************************************)
EXTENDS Naturals, FiniteSets

CONSTANTS
    Services,        \* the service names of the stack
    Outside,         \* a container that is no service of the file, named by network_mode
    ContainerNames,  \* the names that container_name gives to services
    ServiceOf,       \* such a name -> the service
    Claims,          \* BOUND: the ways to claim the port, of none, ports, expose and env
    Absent, NoFile,  \* a service that is not in a file; a file that was not read
    Lxc,             \* the guest's own namespace
    Proxy, Stranger, \* docker-proxy, and a container or process that is not the stack's
    MaxTurns         \* BOUND: changes of the containers during the call

VARIABLES
    disk,      \* the compose file in the guest, which the running stack was created from
    stack,     \* service of disk -> its container
    stranger,  \* where the stranger is, and what it does there
    check,     \* the call: its stage, input and what it has read
    turns      \* changes so far

preflightVars == <<disk, stack, stranger, check, turns>>

\* A container of the stack: its generation, the id it is created with, and its namespace.
Container == [gen : Nat, up : BOOLEAN, netns : {Outside, Lxc} \cup (Services \X Nat)]

ASSUME PreflightAssumption ==
    /\ IsFiniteSet(Services)
    /\ Services \cap {"own", "host", Outside, Absent, Lxc} = {}
    /\ Outside \notin {"own", "host", Absent, Lxc} /\ Lxc # Absent
    /\ ContainerNames \cap (Services \cup {"own", "host", Outside, Absent, Lxc}) = {}
    /\ ServiceOf \in [ContainerNames -> Services]
    /\ \A other \in {Outside, Absent, Lxc, Stranger} : other \notin Services \X Nat
    /\ Absent \notin Container
    /\ MaxTurns \in Nat

----------------------------------------------------------------------------
(* Compose files *)

\* ComposeService: network_mode, and how the service claims the port, if it does.  The
\* network_mode is absent ("own"), host, service:<x>, or container:<x> of a container of the
\* stack by its container_name or of another one.
Definition == [net : {"own", "host", Outside} \cup Services \cup ContainerNames, claim : Claims]

Present(f) == {s \in Services : f[s] # Absent}
Claimants(f) == {s \in Present(f) : f[s].claim # "none"}

\* Mutant: network_mode container:<name> is not recognised.
KeyOfServices(f, s) == IF f[s].net \in Services THEN f[s].net ELSE s

\* netnsOwner: service: and container: name an owner, and host does not.
Owns(f, s) == f[s].net \in {"own", "host"}

\* groupByNetns: a group per key, with the provider added to its own.
Key(f, s) == IF Owns(f, s) THEN s ELSE f[s].net
Keys(f) == {Key(f, s) : s \in Present(f)}
Dependents(f, k) == {s \in Present(f) : f[s].net = k}
Members(f, k) == {s \in Present(f) : Key(f, s) = k} \cup ({k} \cap Present(f))

\* providersWithDependents, and those of them with the most dependents.
Providers(f) == {p \in Keys(f) \cap Present(f) : Dependents(f, p) # {}}
Dominant(f) == {p \in Providers(f) : \A q \in Providers(f) :
                    Cardinality(Dependents(f, q)) <= Cardinality(Dependents(f, p))}

\* detectPortCollisions: dependents that publish, and two claims in one group.
DependentPublishes(f) ==
    {[kind |-> "dependent-publishes", severity |-> "error", services |-> {s}] :
        s \in {s \in Present(f) : ~Owns(f, s) /\ f[s].claim = "ports"}}

PortCollisions(f) ==
    {[kind |-> "port-collision",
      severity |-> IF \E s \in Members(f, k) : f[s].claim = "env" THEN "warn" ELSE "error",
      services |-> Members(f, k) \cap Claimants(f)] :
        k \in {k \in Keys(f) : Cardinality(Members(f, k) \cap Claimants(f)) > 1}}

\* detectNetnsRecreate: a reminder without the previous file, an error for a changed provider.
NetnsRecreates(next, prev) ==
    {[kind |-> "netns-recreate", severity |-> IF prev = NoFile THEN "info" ELSE "error",
      services |-> {p} \cup Dependents(next, p)] :
        p \in {p \in Providers(next) : prev # NoFile => prev[p] # next[p]}}

----------------------------------------------------------------------------
(* The guest *)

\* Whose namespace a service gets: its own, the guest's, or that of the container it names.
Joins(f, s) ==
    CASE f[s].net = "own" -> s
      [] f[s].net = "host" -> Lxc
      [] f[s].net \in ContainerNames -> ServiceOf[f[s].net]
      [] OTHER -> f[s].net

Id(s) == <<s, stack[s].gen>>
Running(s) == stack[s] # Absent /\ stack[s].up

\* Who listens on the port in namespace n: containers by id, and processes without one.
\* A published port of the stack is held in the guest's namespace by docker-proxy.
Listeners(n) ==
    {Id(s) : s \in {s \in Claimants(disk) : Running(s) /\ stack[s].netns = n}}
        \cup (IF n = Lxc /\ \E s \in Present(disk) : Running(s) /\ disk[s].claim = "ports"
                                                     /\ disk[s].net = "own"
              THEN {Proxy} ELSE {})
        \cup (IF stranger.netns = n /\ stranger.listens THEN {Stranger} ELSE {})

NoStranger == [netns |-> Absent, listens |-> FALSE, contained |-> FALSE, namesake |-> FALSE]

----------------------------------------------------------------------------
(* The call *)

Idle == [pc |-> "idle", next |-> NoFile, prev |-> NoFile, provider |-> Absent, ids |-> {},
         found |-> FALSE, allOwn |-> FALSE, bound |-> {}, checked |-> FALSE, seen |-> NoStranger]

\* composePreflightHandler: the proposal is supplied, and the file on disk is then the previous
\* one, or it is the file on disk.  A malformed file on disk loses the comparison.
ReadFiles(proposal, malformed, ports) ==
    /\ check' = [check EXCEPT !.pc = IF ports THEN "scan" ELSE "report",
                              !.next = IF proposal = NoFile THEN disk ELSE proposal,
                              !.prev = IF proposal = NoFile \/ malformed THEN NoFile ELSE disk]
    /\ UNCHANGED <<disk, stack, stranger, turns>>

\* Mutant: one member of the project is enough.
NetnsSomeOwn(p) == Running(p)

\* probeBoundPorts: netnsMembers of the provider's container all belong to the project.
NetnsAllOwn(p) == ~(stranger.netns = Id(p))

\* probeBoundPorts: the scan of the running containers, which may fail.
ScanContainers(ok, provider) ==
    /\ check.pc = "scan"
    /\ IF Dominant(check.next) = {} THEN provider = Absent ELSE provider \in Dominant(check.next)
    /\ LET found == ok /\ provider # Absent /\ Running(provider)
       IN check' = [check EXCEPT
            !.pc = "probe", !.provider = provider, !.found = found,
            !.ids = IF ok THEN {Id(s) : s \in {s \in Present(disk) : Running(s)}}
                               \cup (IF stranger.contained THEN {Stranger} ELSE {})
                    ELSE {},
            !.allOwn = found /\ NetnsAllOwn(provider),
            !.seen = IF ok THEN stranger ELSE NoStranger]
    /\ UNCHANGED <<disk, stack, stranger, turns>>

\* parseAttributedListeners: a listener with the name of its process, and its container when
\* the scan knew its id.  The stack's processes are not named like its services.
Attributed(who, known) ==
    [container |-> IF who \in known THEN (IF who = Stranger THEN "stranger" ELSE "own") ELSE "unknown",
     named |-> IF who = Stranger /\ stranger.namesake THEN "namesake" ELSE "other"]

Unnamed == [container |-> "unknown", named |-> "unknown"]

\* The namespace the probe enters: of the provider's container as it is now, or the guest's.
Probed == IF check.provider = Absent THEN Lxc ELSE stack[check.provider].netns
CanEnter == check.provider # Absent => Running(check.provider)

Bind(bound, checked) ==
    /\ check' = [check EXCEPT !.pc = "report", !.bound = bound, !.checked = checked]
    /\ UNCHANGED <<disk, stack, stranger, turns>>

\* The attributed probe: nsenter from the guest sees every process of the namespace.
AttributedProbe ==
    /\ check.pc = "probe"
    /\ check.provider # Absent => check.found
    /\ CanEnter
    /\ Bind({Attributed(w, check.ids) : w \in Listeners(Probed)}, TRUE)

\* The probe that is left when the tooling is missing: inside the provider's container only
\* the provider's own process is named, and without ss nothing is.
FallbackProbe(named) ==
    /\ check.pc = "probe"
    /\ CanEnter
    /\ LET inside == check.provider # Absent
       IN Bind({IF named /\ (inside => w = Id(check.provider)) THEN Attributed(w, {}) ELSE Unnamed :
                    w \in Listeners(Probed)}, TRUE)

\* Both probes fail: the ports are reported as not checked.
ProbeFailed == check.pc = "probe" /\ Bind({}, FALSE)

----------------------------------------------------------------------------
(* The report *)

\* Mutant: what was not attributed is a conflict.
SeverityOfUnknown(b) ==
    IF b.container = "own" THEN "info"
    ELSE IF b.container # "unknown" \/ b.named # "unknown" THEN "error" ELSE "warn"

\* crossCheckBoundPorts on the one holder of the port.
Severity(b) ==
    IF \/ b.container = "own"
       \/ b.container = "unknown" /\ check.allOwn
    THEN "info"
    ELSE IF b.container # "unknown" \/ b.named # "unknown" THEN "error" ELSE "warn"

BoundElsewhere ==
    {[kind |-> "port-bound-elsewhere", severity |-> Severity(b), services |-> {s}] :
        s \in Claimants(check.next), b \in {b \in check.bound : b.named # "namesake"}}

\* analyzeCompose
Hazards ==
    DependentPublishes(check.next) \cup PortCollisions(check.next)
        \cup NetnsRecreates(check.next, check.prev)
        \cup (IF check.checked THEN BoundElsewhere ELSE {})

----------------------------------------------------------------------------
(* Other actors, while the call is under way *)

Turn == check.pc \in {"scan", "probe"} /\ turns < MaxTurns /\ turns' = turns + 1

\* A container is recreated: a new id, and a new namespace or that of its provider as it is now.
Recreate(s) ==
    /\ Turn
    /\ s \in Present(disk)
    /\ ~Owns(disk, s) /\ Joins(disk, s) # Outside => Running(Joins(disk, s))
    /\ stack' = [stack EXCEPT ![s] =
                    [gen |-> stack[s].gen + 1, up |-> TRUE,
                     netns |-> CASE Joins(disk, s) = s -> <<s, stack[s].gen + 1>>
                                 [] Joins(disk, s) \in Services \ {s} -> Id(Joins(disk, s))
                                 [] OTHER -> Joins(disk, s)]]
    /\ UNCHANGED <<disk, stranger, check>>

Halt(s) ==
    /\ Turn
    /\ Running(s)
    /\ stack' = [stack EXCEPT ![s].up = FALSE]
    /\ UNCHANGED <<disk, stranger, check>>

\* A stranger binds the port when it is free: a process or a container in the guest's
\* namespace, or a container that joins the namespace of one of the stack's.
Intrude(n, contained, namesake) ==
    /\ Turn
    /\ stranger = NoStranger
    /\ n # Lxc => contained /\ \E s \in Present(disk) : Running(s) /\ n = Id(s) /\ disk[s].net = "own"
    /\ stranger' = [netns |-> n, listens |-> Listeners(n) = {}, contained |-> contained,
                    namesake |-> namesake]
    /\ UNCHANGED <<disk, stack, check>>

Leave ==
    /\ Turn
    /\ stranger # NoStranger
    /\ stranger' = NoStranger
    /\ UNCHANGED <<disk, stack, check>>

----------------------------------------------------------------------------
(* Files a running stack can have come from: providers are containers of their own, only they  *)
(* publish, and no two services listen on the port in one namespace.  BOUND: the others claim  *)
(* the port by an env hint.                                                                    *)
Runnable(f) ==
    /\ \A s \in Present(f) : Joins(f, s) \in Services =>
                               Joins(f, s) \in Present(f) /\ f[Joins(f, s)].net = "own"
    /\ \A s, t \in Claimants(f) : s # t => Joins(f, s) # Joins(f, t)
    /\ \A s \in Claimants(f) : f[s].claim = (IF f[s].net = "own" THEN "ports" ELSE "env")
    /\ Cardinality({s \in Claimants(f) : Owns(f, s)}) <= 1

Files == [Services -> Definition \cup {Absent}]

\* Where network_mode leads: the service, its provider, the provider of that, and so on.
Holders == Services \cup {Outside, Lxc}
Led(f, s) ==
    LET Follows(U) == s \in U /\ \A x \in U \cap Present(f) : Joins(f, x) \in U
    IN {r \in Holders : \A U \in SUBSET Holders : Follows(U) => r \in U}

\* Who owns the namespace a service is in: one container, the guest, or none when it leads in
\* a circle.
Owners(f, s) == {r \in Led(f, s) : r \in Present(f) => f[r].net = "own"}

\* A proposal compose accepts: one service edited, added or dropped, none without its provider
\* and no circle of them.
Proposals ==
    {f \in {[disk EXCEPT ![s] = d] : s \in Services, d \in Definition \cup {Absent}} :
        \A s \in Present(f) : /\ f[s].net \in Services => f[s].net \in Present(f)
                         /\ Owners(f, s) # {}}

\* BOUND: the ports are checked for proposals that leave every network_mode as it is.
KeepsNets(f) == Present(f) = Present(disk) /\ \A s \in Present(f) : f[s].net = disk[s].net

PreflightInit ==
    /\ disk \in {f \in Files : Runnable(f)}
    /\ stack = [s \in Services |->
                    IF disk[s] = Absent THEN Absent
                    ELSE [gen |-> 0, up |-> TRUE,
                          netns |-> IF Joins(disk, s) \in Services
                                    THEN <<Joins(disk, s), 0>> ELSE Joins(disk, s)]]
    /\ stranger = NoStranger
    /\ check = Idle
    /\ turns = 0

PreflightNext ==
    \/ /\ check.pc = "idle"
       /\ \E f \in Proposals \cup {NoFile}, malformed, ports \in BOOLEAN :
            /\ ports /\ f # NoFile => KeepsNets(f)
            /\ ReadFiles(f, malformed, ports)
    \/ \E ok \in BOOLEAN, p \in Services \cup {Absent} : ScanContainers(ok, p)
    \/ AttributedProbe
    \/ \E named \in BOOLEAN : FallbackProbe(named)
    \/ ProbeFailed
    \/ \E s \in Services : Recreate(s) \/ Halt(s)
    \/ \E contained, namesake \in BOOLEAN :
          \/ Intrude(Lxc, contained, namesake)
          \/ \E s \in Services : stack[s] # Absent /\ Intrude(Id(s), contained, namesake)
    \/ Leave

PreflightSpec == PreflightInit /\ [][PreflightNext]_preflightVars

----------------------------------------------------------------------------
(* Properties *)

\* What the analysis does not follow: a provider whose own network_mode leads on, the guest's
\* network shared by host services, and a service named by its container_name.
Chained(f) == \E s \in Present(f) : Joins(f, s) \in Present(f) /\ f[Joins(f, s)].net # "own"
Unfollowed(f, s, t) ==
    LET nets == {f[s].net, f[t].net}
    IN Chained(f) \/ "host" \in nets \/ (nets \cap ContainerNames # {} /\ f[s].net # f[t].net)

\* A collision is reported for two services only when both claim the port in one namespace, and,
\* wherever the provider stands in the file, whenever they do by service:<x> or by one and the
\* same container:<x>.  Two host services, and a service joined by its container_name, share a
\* namespace unseen (netnsOwner, groupByNetns, detectPortCollisions).
CollisionsAreReported ==
    check.pc = "report" =>
        \A s, t \in Claimants(check.next) : s # t =>
            LET reported == \E h \in PortCollisions(check.next) : h.kind = "port-collision" /\ {s, t} \subseteq h.services
                together == Owners(check.next, s) = Owners(check.next, t)
            IN /\ reported => together
               /\ together /\ ~Unfollowed(check.next, s, t) => reported

\* A redeploy of a stack with a namespace provider that the scan found is not told that its own
\* instance is in the way, even when its containers are recreated or stopped between the scan
\* and the probe (probeBoundPorts, netnsAllOwn; crossCheckBoundPorts).  A stack without a
\* provider is told so: its published port is held by docker-proxy, which has no container.
OwnInstanceIsNoConflict ==
    check.pc = "report" /\ check.found /\ check.seen = NoStranger /\ stranger = NoStranger =>
        \A h \in Hazards : h.kind = "port-bound-elsewhere" => h.severity = "info"

\* A stranger that the scan saw in the provider's namespace and that still holds the port there
\* when the listeners are read is reported, whichever probe answered (crossCheckBoundPorts).
StrangerIsReported ==
    check.pc = "report" /\ check.checked /\ check.found
        /\ check.seen.listens /\ stranger = check.seen /\ ~stranger.namesake
        /\ stranger.netns = Probed /\ Claimants(check.next) # {} =>
            \E h \in Hazards : h.kind = "port-bound-elsewhere" /\ h.severity # "info"

----------------------------------------------------------------------------
(* The inductive invariant *)

StrangerType == [netns : {Absent, Lxc} \cup (Services \X Nat), listens : BOOLEAN,
                 contained : BOOLEAN, namesake : BOOLEAN]

Holder == [container : {"own", "stranger", "unknown"}, named : {"other", "namesake", "unknown"}]

Checking == [pc : {"idle", "scan", "probe", "report"}, next : Files \cup {NoFile},
             prev : Files \cup {NoFile}, provider : Services \cup {Absent},
             ids : SUBSET ((Services \X Nat) \cup {Stranger}), found : BOOLEAN,
             allOwn : BOOLEAN, bound : SUBSET Holder, checked : BOOLEAN, seen : StrangerType]

PreflightTypeOK ==
    /\ disk \in Files
    /\ stack \in [Services -> Container \cup {Absent}]
    /\ stranger \in StrangerType
    /\ check \in Checking

\* The stack was started from the file: a container for each service in it, and a service
\* with a network of its own has the namespace of its container as it is now.
StackFits ==
    /\ Runnable(disk)
    /\ \A s \in Services : /\ stack[s] # Absent <=> disk[s] # Absent
                           /\ stack[s] # Absent => stack[s] \in Container
                           /\ stack[s] # Absent /\ disk[s].net = "own" => stack[s].netns = Id(s)

\* A stranger can only have joined a namespace that there was.
StrangerIsPast ==
    \A s \in Services, g \in Nat :
        stack[s] # Absent /\ stranger.netns = <<s, g>> => g <= stack[s].gen

\* What the scan found: a provider of the stack, whose namespace was the stack's own alone
\* unless the stranger that was seen is in it.
ScanFits ==
    /\ check.pc = "scan" => KeepsNets(check.next) /\ check.next \in Files
    /\ check.pc \in {"idle", "scan"} => ~check.found
    /\ check.found =>
         /\ check.provider \in Present(disk) /\ disk[check.provider].net = "own"
         /\ check.seen = NoStranger => check.allOwn
         /\ check.allOwn => \A g \in Nat :
              g >= stack[check.provider].gen => check.seen.netns # <<check.provider, g>>

\* What the probe of a provider's namespace found: the stack's own, and the stranger when it
\* holds the port there.
ProbeFits ==
    check.pc = "report" /\ check.checked /\ check.found =>
        /\ stranger = NoStranger => \A b \in check.bound : b.container # "stranger"
        /\ stranger.listens /\ stranger.netns = Probed /\ ~stranger.namesake =>
             \E b \in check.bound : b.container # "own" /\ b.named # "namesake"

PreflightIInv == PreflightTypeOK /\ StackFits /\ StrangerIsPast /\ ScanFits /\ ProbeFits
=============================================================================
