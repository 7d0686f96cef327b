----------------------------- MODULE GuestFiles -----------------------------
(***************************************************************************)
(* The file tools on one file in a guest: pct_, docker_ and qm_ read_file, *)
(* write_file and edit_file, and revert_file's read and write-back         *)
(* (src/tools/*File.ts), by way of pctFiles.ts, dockerFiles.ts and         *)
(* qmFiles.ts.  A read or a write of a container file is a chain of        *)
(* commands through a temporary file on the node and, for a file that only *)
(* docker sees, another in the container.                                  *)
(*                                                                         *)
(* One action is one command: the event loop runs other calls at each      *)
(* await.  The backup, the audit record and the revert's breaker are       *)
(* WritePipeline; this module refines its remote reads and writes.         *)
(***************************************************************************)
EXTENDS Naturals, FiniteSets

CONSTANTS
    CallIds,    \* the calls of a behaviour
    Contents,   \* what the file can hold
    None,       \* a missing file
    Unread,     \* a call that has not read yet
    MaxEvents   \* BOUND: failed commands, stops of the guest, edits by others

ASSUME GuestFilesAssumption ==
    /\ IsFiniteSet(CallIds) /\ MaxEvents \in Nat
    /\ None \notin Contents /\ Unread \notin Contents \cup {None}

VARIABLES
    route,     \* how the tools reach the file (constant in a behaviour)
    up,        \* the guest runs and its agent answers
    file,      \* [data, perms]: the file, None when missing
    nodeTemp,  \* call -> its temporary file on the node
    lxcTemp,   \* call -> its temporary file in the container
    call,      \* call -> its progress
    events     \* events so far

vars == <<route, up, file, nodeTemp, lxcTemp, call, events>>

Routes == {"pct", "bind", "relay", "qm"}

\* perms: which of the file's owner and mode are still the ones it was given.
Own == {"owner", "mode"}
Perms == SUBSET Own

\* The perms could not be read: a stat that fails gives null.
Lost == {"unknown"}
Missing == [data |-> None, perms |-> Own]

\* A temporary file: gone, empty, or with content.
Gone == "gone"
Empty == "empty"

Dry == {"dryWrite", "dryEdit"}
Edits == {"edit", "dryEdit"}

\* leg: which transfer; err: it has failed and cleans up; got: what the file held; keep:
\* the perms it had, Lost when they could not be read; note: the result says that perms
\* may be lost.  The last six are history variables.
NoCall == [op |-> "read", stage |-> "idle", leg |-> "in", err |-> FALSE, new |-> Unread,
           got |-> Unread, keep |-> Lost, note |-> FALSE,
           sample |-> Unread, wrote |-> FALSE, shaky |-> FALSE, leaked |-> FALSE,
           touched |-> FALSE, before |-> Missing]

At(c, stage) == call[c].stage = stage
InFlight(c) == call[c].stage \notin {"idle", "ok", "failed"}

----------------------------------------------------------------------------
(* Commands *)

\* How a command ends: done; a non-zero exit, without effect; an exception without
\* (lost) or with (late) its effect.
Outcomes == {"done", "exit", "lost", "late"}
Throws(o) == o \in {"lost", "late"}
Effective(o) == o \in {"done", "late"}

\* A command in a guest that does not run exits with an error.
Ends(o, inGuest) ==
    \/ /\ o = "done" /\ (inGuest => up)
       /\ UNCHANGED events
    \/ /\ o = "exit" /\ inGuest /\ ~up
       /\ UNCHANGED events
    \/ /\ o # "done" /\ (o = "late" /\ inGuest => up)
       /\ events < MaxEvents
       /\ events' = events + 1

\* The progress of c, and whether the guest has refused it a command.
Becomes(c, o, rec) == call' = [call EXCEPT ![c] = [rec EXCEPT !.shaky = @ \/ o = "exit"]]

Goes(c, o, stage) == Becomes(c, o, [call[c] EXCEPT !.stage = stage])

\* A step of a transfer throws: its finally blocks run, from the stage given.
Unwinds(c, o, stage) == Becomes(c, o, [call[c] EXCEPT !.err = TRUE, !.stage = stage])

\* What follows when the temporary files have been dealt with.
AfterLeg(c) ==
    IF call[c].err THEN "failed" ELSE IF call[c].leg = "in" THEN "decide" ELSE "audit"

\* Mutant: the throw leaves without the outer finally block.
OuterSkipped(c) == "failed"

\* The outer finally block, which only the relay has.
Outer(c) == IF route = "relay" THEN "rmLxc" ELSE "failed"

----------------------------------------------------------------------------
(* The read *)

\* A call begins with the check of the guest's state.
Begin(c, routes, op, new) ==
    /\ At(c, "idle") /\ route \in routes
    /\ call' = [call EXCEPT ![c] = [NoCall EXCEPT !.op = op, !.stage = "check", !.before = file,
                                                  !.new = new]]
    /\ UNCHANGED <<route, up, file, nodeTemp, lxcTemp, events>>

Docker == {"bind", "relay"}

PctReadFile(c) == Begin(c, {"pct"}, "read", Unread)
DockerReadFile(c) == Begin(c, Docker, "read", Unread)
QmReadFile(c) == Begin(c, {"qm"}, "read", Unread)

PctWriteFile(c, dryRun, new) == Begin(c, {"pct"}, IF dryRun THEN "dryWrite" ELSE "write", new)
DockerWriteFile(c, dryRun, new) == Begin(c, Docker, IF dryRun THEN "dryWrite" ELSE "write", new)
QmWriteFile(c, dryRun, new) == Begin(c, {"qm"}, IF dryRun THEN "dryWrite" ELSE "write", new)

\* new is the result of the replacement, should it apply.
PctEditFile(c, dryRun, new) == Begin(c, {"pct"}, IF dryRun THEN "dryEdit" ELSE "edit", new)
DockerEditFile(c, dryRun, new) == Begin(c, Docker, IF dryRun THEN "dryEdit" ELSE "edit", new)
QmEditFile(c, dryRun, new) == Begin(c, {"qm"}, IF dryRun THEN "dryEdit" ELSE "edit", new)

\* A check that does not throw goes on to the next stage.
Passes(c, o, inGuest, stage) ==
    /\ Ends(o, inGuest)
    /\ Goes(c, o, IF o = "done" THEN stage ELSE "failed")
    /\ UNCHANGED <<route, up, file, nodeTemp, lxcTemp>>

AssertContainerRunning(c, o) ==
    /\ At(c, "check") /\ route # "qm"
    /\ Passes(c, o, TRUE, IF route = "pct" THEN "probe" ELSE "inspect")

\* docker inspect; its mounts decide between the bind mount and the relay.
ResolveDockerContainer(c, o) ==
    /\ At(c, "inspect")
    /\ Passes(c, o, TRUE, IF route = "relay" THEN "mkLxc" ELSE "probe")

AssertAgentAvailable(c, o) ==
    /\ At(c, "check") /\ route = "qm"
    /\ Passes(c, o, TRUE, "hostname")

ResolveNodeName(c, o) == At(c, "hostname") /\ Passes(c, o, FALSE, "agentRead")

\* readVmFile: an error text that reads like "not found" is a missing file, whatever failed.
AgentRead(c, o, missing) ==
    /\ At(c, "agentRead") /\ Ends(o, TRUE)
    /\ LET text == IF o = "exit" /\ missing THEN None ELSE Unread
           read == IF o = "done" THEN file.data ELSE text
       IN Becomes(c, o, [call[c] EXCEPT !.sample = read, !.got = read,
                                        !.stage = IF read = Unread THEN "failed" ELSE "decide"])
    /\ UNCHANGED <<route, up, file, nodeTemp, lxcTemp>>

\* makeLxcTemp
MakeLxcTemp(c, o) ==
    /\ At(c, "mkLxc") /\ Ends(o, TRUE)
    /\ lxcTemp' = IF Effective(o) THEN [lxcTemp EXCEPT ![c] = Empty] ELSE lxcTemp
    /\ LET next == IF call[c].leg = "in" THEN "cpOut" ELSE "mkTemp"
       IN Becomes(c, o, [call[c] EXCEPT !.stage = IF o = "done" THEN next ELSE "failed",
                                        !.leaked = @ \/ o = "late"])
    /\ UNCHANGED <<route, up, file, nodeTemp>>

\* docker cp out of the container; it fails on a missing file.
DockerCpOut(c, o, missing) ==
    /\ At(c, "cpOut") /\ Ends(o, TRUE)
    /\ IF Effective(o) /\ file.data # None
       THEN /\ lxcTemp' = [lxcTemp EXCEPT ![c] = file.data]
            /\ Becomes(c, o, [call[c] EXCEPT !.sample = file.data, !.err = Throws(o),
                                             !.stage = IF Throws(o) THEN "rmLxc" ELSE "probe"])
       ELSE /\ UNCHANGED lxcTemp
            /\ IF o = "done" \/ (o = "exit" /\ missing)
               THEN Becomes(c, o, [call[c] EXCEPT !.sample = None, !.got = None, !.stage = "rmLxc"])
               ELSE Unwinds(c, o, "rmLxc")
    /\ UNCHANGED <<route, up, file, nodeTemp>>

\* The file that the transfer through the node reads.
Source(c) == IF route = "relay" THEN lxcTemp[c] ELSE file.data

\* containerFileExists: any exit code but 0 is a missing file.
Probe(c, o) ==
    /\ At(c, "probe") /\ Ends(o, TRUE)
    /\ LET absent == o = "exit" \/ (o = "done" /\ Source(c) = None)
           next == IF route = "relay" THEN "rmLxc" ELSE "decide"
       IN IF Throws(o) THEN Unwinds(c, o, Outer(c))
          ELSE IF absent
               THEN Becomes(c, o, [call[c] EXCEPT !.sample = None, !.got = None, !.stage = next])
               ELSE Goes(c, o, "mkTemp")
    /\ UNCHANGED <<route, up, file, nodeTemp, lxcTemp>>

\* createNodeTemp
MakeNodeTemp(c, o) ==
    /\ At(c, "mkTemp") /\ Ends(o, FALSE)
    /\ nodeTemp' = IF Effective(o) THEN [nodeTemp EXCEPT ![c] = Empty] ELSE nodeTemp
    /\ LET next == IF call[c].leg = "in" THEN "pull" ELSE "sftpWrite"
       IN IF o = "done" THEN Goes(c, o, next)
          ELSE Becomes(c, o, [call[c] EXCEPT !.err = TRUE, !.stage = Outer(c),
                                             !.leaked = @ \/ o = "late"])
    /\ UNCHANGED <<route, up, file, lxcTemp>>

\* Mutant: every failed pull is taken for a missing file.
PullAnything(c, o, missing) ==
    /\ At(c, "pull") /\ Ends(o, TRUE)
    /\ LET there == Source(c) # None
       IN /\ nodeTemp' = IF there /\ Effective(o) THEN [nodeTemp EXCEPT ![c] = Source(c)] ELSE nodeTemp
          /\ IF there /\ o = "done"
             THEN Becomes(c, o, [call[c] EXCEPT !.sample = Source(c), !.stage = "sftpRead"])
             ELSE Becomes(c, o, [call[c] EXCEPT !.sample = None, !.got = None, !.stage = "rmTemp"])
    /\ UNCHANGED <<route, up, file, lxcTemp>>

\* pct pull; the file may be gone since the probe.
Pull(c, o, missing) ==
    /\ At(c, "pull") /\ Ends(o, TRUE)
    /\ LET there == Source(c) # None
           seen == IF route = "relay" THEN call[c].sample ELSE Source(c)
       IN IF there /\ Effective(o)
          THEN /\ nodeTemp' = [nodeTemp EXCEPT ![c] = Source(c)]
               /\ Becomes(c, o, [call[c] EXCEPT !.sample = seen, !.err = Throws(o),
                                                !.stage = IF Throws(o) THEN "rmTemp" ELSE "sftpRead"])
          ELSE /\ UNCHANGED nodeTemp
               /\ IF o = "done" \/ (o = "exit" /\ missing)
                  THEN Becomes(c, o, [call[c] EXCEPT !.sample = None, !.got = None, !.stage = "rmTemp"])
                  ELSE Unwinds(c, o, "rmTemp")
    /\ UNCHANGED <<route, up, file, lxcTemp>>

\* The temporary file is read over SFTP.
SftpRead(c, o) ==
    /\ At(c, "sftpRead") /\ o # "exit" /\ Ends(o, FALSE)
    /\ IF o = "done" THEN Becomes(c, o, [call[c] EXCEPT !.got = nodeTemp[c], !.stage = "rmTemp"])
       ELSE Unwinds(c, o, "rmTemp")
    /\ UNCHANGED <<route, up, file, nodeTemp, lxcTemp>>

\* removeNodeTemp: whatever comes of it, the call goes on.
RemoveNodeTemp(c, o) ==
    /\ At(c, "rmTemp") /\ Ends(o, FALSE)
    /\ nodeTemp' = IF Effective(o) THEN [nodeTemp EXCEPT ![c] = Gone] ELSE nodeTemp
    /\ LET next == IF route # "relay" THEN AfterLeg(c)
                   ELSE IF call[c].err \/ call[c].leg = "in" THEN "rmLxc" ELSE "cpIn"
       IN Becomes(c, o, [call[c] EXCEPT !.stage = next, !.leaked = @ \/ ~Effective(o)])
    /\ UNCHANGED <<route, up, file, lxcTemp>>

\* removeLxcTemp
RemoveLxcTemp(c, o) ==
    /\ At(c, "rmLxc") /\ Ends(o, TRUE)
    /\ lxcTemp' = IF Effective(o) THEN [lxcTemp EXCEPT ![c] = Gone] ELSE lxcTemp
    /\ Becomes(c, o, [call[c] EXCEPT !.stage = AfterLeg(c), !.leaked = @ \/ ~Effective(o)])
    /\ UNCHANGED <<route, up, file, nodeTemp>>

----------------------------------------------------------------------------
(* The handler *)

\* The handler has what the file held: a reader answers, or throws when it is missing or
\* over the cap.
Answer(c) ==
    /\ At(c, "decide") /\ call[c].op = "read"
    /\ \E stage \in {"ok", "failed"} :
          /\ call[c].got = None => stage = "failed"
          /\ Goes(c, "done", stage)
    /\ UNCHANGED <<route, up, file, nodeTemp, lxcTemp, events>>

\* An edit of a missing file, or one whose oldString is not there or not unique.
EditFails(c) ==
    /\ At(c, "decide") /\ call[c].op \in Edits
    /\ Goes(c, "done", "failed")
    /\ UNCHANGED <<route, up, file, nodeTemp, lxcTemp, events>>

\* A write is refused: redaction markers, the size cap of the agent, a store over its cap.
Refuse(c) ==
    /\ At(c, "decide") /\ call[c].op # "read"
    /\ Goes(c, "done", "failed")
    /\ UNCHANGED <<route, up, file, nodeTemp, lxcTemp, events>>

\* The tool has content to write: an edit needs a file.
Resolved(c) ==
    /\ At(c, "decide") /\ call[c].op # "read"
    /\ call[c].op \in Edits => call[c].got # None
    /\ UNCHANGED <<route, up, file, nodeTemp, lxcTemp, events>>

\* A dry run answers; else the backup is stored and the write begins.
Writes(c, stage) ==
    IF call[c].op \in Dry THEN Goes(c, "done", "ok")
    ELSE Becomes(c, "done", [call[c] EXCEPT !.leg = "out", !.stage = stage])

\* A new file has no perms to look up.
WriteResolvedPct(c) ==
    /\ route = "pct" /\ Resolved(c)
    /\ Writes(c, IF call[c].got = None THEN "mkTemp" ELSE "stat")

\* On the way to a bind mount writeDockerFile looks anyway.
WriteResolvedDocker(c) ==
    /\ route \in Docker /\ Resolved(c)
    /\ Writes(c, IF route = "relay" /\ call[c].got = None THEN "mkLxc" ELSE "stat")

WriteResolvedQm(c) == route = "qm" /\ Resolved(c) /\ Writes(c, "agentWrite")

\* statContainerPerms, statDockerPerms: null when the stat fails.
Stat(c, o) ==
    /\ At(c, "stat") /\ Ends(o, TRUE)
    /\ LET next == IF route = "relay" THEN "mkLxc" ELSE "mkTemp"
           found == IF o = "done" /\ file.data # None THEN file.perms ELSE Lost
       IN Becomes(c, o, [call[c] EXCEPT !.keep = found, !.stage = IF Throws(o) THEN "failed" ELSE next])
    /\ UNCHANGED <<route, up, file, nodeTemp, lxcTemp>>

----------------------------------------------------------------------------
(* The write *)

\* The content goes to the node's temporary file over SFTP.
SftpWrite(c, o) ==
    /\ At(c, "sftpWrite") /\ o # "exit" /\ Ends(o, FALSE)
    /\ nodeTemp' = IF Effective(o) THEN [nodeTemp EXCEPT ![c] = call[c].new] ELSE nodeTemp
    /\ IF o = "done" THEN Goes(c, o, "push") ELSE Unwinds(c, o, "rmTemp")
    /\ UNCHANGED <<route, up, file, lxcTemp>>

\* The progress of c, which has changed the file: the other calls in flight are overtaken.
Overtakes(c, o, rec) ==
    call' = [d \in CallIds |->
                IF d = c THEN [rec EXCEPT !.shaky = @ \/ o = "exit"]
                ELSE [call[d] EXCEPT !.touched = @ \/ InFlight(d)]]

\* The file is replaced.
Lands(c, o, new, rec) == file' = new /\ Overtakes(c, o, [rec EXCEPT !.wrote = TRUE])

\* pct push with the perms that were found, else with the configured ones.
Push(c, o) ==
    /\ At(c, "push") /\ Ends(o, TRUE)
    /\ LET rec == [call[c] EXCEPT !.stage = "rmTemp", !.err = o # "done"]
       IN IF ~Effective(o)
          THEN Becomes(c, o, rec) /\ UNCHANGED <<file, lxcTemp>>
          ELSE IF route = "relay"
               THEN /\ lxcTemp' = [lxcTemp EXCEPT ![c] = nodeTemp[c]]
                    /\ Becomes(c, o, rec) /\ UNCHANGED file
               ELSE /\ Lands(c, o, [data |-> nodeTemp[c], perms |-> call[c].keep \ Lost], rec)
                    /\ UNCHANGED lxcTemp
    /\ UNCHANGED <<route, up, nodeTemp>>

\* docker cp into the container, which preserves neither owner nor mode.  Without perms
\* to restore the result says so.
DockerCpIn(c, o) ==
    /\ At(c, "cpIn") /\ Ends(o, TRUE)
    /\ LET known == call[c].keep # Lost
           rec == IF o = "done" THEN [call[c] EXCEPT !.stage = IF known THEN "chown" ELSE "rmLxc",
                                                     !.note = ~known]
                  ELSE [call[c] EXCEPT !.stage = "rmLxc", !.err = TRUE]
       IN IF Effective(o) THEN Lands(c, o, [data |-> lxcTemp[c], perms |-> {}], rec)
          ELSE Becomes(c, o, rec) /\ UNCHANGED file
    /\ UNCHANGED <<route, up, nodeTemp, lxcTemp>>

\* Mutant: the exit code of the chown or chmod is not looked at.
RestorePermUnchecked(c, o, stage, perm, next) ==
    /\ At(c, stage) /\ Ends(o, TRUE)
    /\ LET rec == [call[c] EXCEPT !.stage = IF Throws(o) THEN "rmLxc" ELSE next, !.err = Throws(o)]
       IN IF Effective(o) /\ file.data # None
          THEN /\ file' = [file EXCEPT !.perms = (@ \ {perm}) \cup ({perm} \cap call[c].keep)]
               /\ Overtakes(c, o, rec)
          ELSE Becomes(c, o, rec) /\ UNCHANGED file
    /\ UNCHANGED <<route, up, nodeTemp, lxcTemp>>

\* docker exec chown and chmod: a failure is noted.
RestorePerm(c, o, stage, perm, next) ==
    /\ At(c, stage) /\ Ends(o, TRUE)
    /\ LET there == file.data # None
           rec == [call[c] EXCEPT !.stage = IF Throws(o) THEN "rmLxc" ELSE next, !.err = Throws(o),
                                  !.note = @ \/ o = "exit" \/ ~there]
       IN IF Effective(o) /\ there
          THEN /\ file' = [file EXCEPT !.perms = (@ \ {perm}) \cup ({perm} \cap call[c].keep)]
               /\ Overtakes(c, o, rec)
          ELSE Becomes(c, o, rec) /\ UNCHANGED file
    /\ UNCHANGED <<route, up, nodeTemp, lxcTemp>>

\* writeVmFile: the agent takes no owner or mode.
AgentWrite(c, o) ==
    /\ At(c, "agentWrite") /\ Ends(o, TRUE)
    /\ LET rec == [call[c] EXCEPT !.stage = IF o = "done" THEN "audit" ELSE "failed"]
       IN IF Effective(o) THEN \E p \in Perms : Lands(c, o, [data |-> call[c].new, perms |-> p], rec)
          ELSE Becomes(c, o, rec) /\ UNCHANGED file
    /\ UNCHANGED <<route, up, nodeTemp, lxcTemp>>

\* The audit record is appended and the result returned.
Audit(c) ==
    /\ At(c, "audit")
    /\ Goes(c, "done", "ok")
    /\ UNCHANGED <<route, up, file, nodeTemp, lxcTemp, events>>

----------------------------------------------------------------------------
(* The environment *)

\* Somebody edits, creates or removes the file, or gives it other perms.
OutOfBand ==
    /\ events < MaxEvents /\ events' = events + 1
    /\ \E v \in Contents \cup {None} :
          /\ v # file.data
          /\ file' = IF v = None THEN Missing ELSE [data |-> v, perms |-> Own]
    /\ call' = [c \in CallIds |-> [call[c] EXCEPT !.touched = @ \/ InFlight(c)]]
    /\ UNCHANGED <<route, up, nodeTemp, lxcTemp>>

\* The guest stops, in the middle of calls, or starts.
Power ==
    /\ events < MaxEvents /\ events' = events + 1
    /\ up' = ~up
    /\ call' = [c \in CallIds |-> [call[c] EXCEPT !.shaky = @ \/ InFlight(c)]]
    /\ UNCHANGED <<route, file, nodeTemp, lxcTemp>>

PctTools(c) ==
    \/ PctReadFile(c)
    \/ \E dryRun \in BOOLEAN, new \in Contents : PctWriteFile(c, dryRun, new) \/ PctEditFile(c, dryRun, new)

QmTools(c) ==
    \/ QmReadFile(c)
    \/ \E dryRun \in BOOLEAN, new \in Contents : QmWriteFile(c, dryRun, new) \/ QmEditFile(c, dryRun, new)

DockerTools(c) ==
    \/ DockerReadFile(c)
    \/ \E dryRun \in BOOLEAN, new \in Contents :
          DockerWriteFile(c, dryRun, new) \/ DockerEditFile(c, dryRun, new)

Handler(c) ==
    \/ \E o \in Outcomes, missing \in BOOLEAN :
          AgentRead(c, o, missing) \/ DockerCpOut(c, o, missing) \/ Pull(c, o, missing)
    \/ \E o \in Outcomes :
          \/ AssertContainerRunning(c, o) \/ ResolveDockerContainer(c, o)
          \/ AssertAgentAvailable(c, o) \/ ResolveNodeName(c, o)
          \/ MakeLxcTemp(c, o) \/ Probe(c, o) \/ MakeNodeTemp(c, o) \/ SftpRead(c, o)
          \/ RemoveNodeTemp(c, o) \/ RemoveLxcTemp(c, o) \/ Stat(c, o) \/ SftpWrite(c, o)
          \/ Push(c, o) \/ DockerCpIn(c, o) \/ AgentWrite(c, o)
          \/ RestorePerm(c, o, "chown", "owner", "chmod") \/ RestorePerm(c, o, "chmod", "mode", "rmLxc")
    \/ Answer(c) \/ EditFails(c) \/ Refuse(c) \/ Audit(c)
    \/ WriteResolvedPct(c) \/ WriteResolvedDocker(c) \/ WriteResolvedQm(c)

Init ==
    /\ route \in Routes /\ up = TRUE
    /\ file \in {Missing} \cup [data : Contents, perms : {Own}]
    /\ nodeTemp = [c \in CallIds |-> Gone] /\ lxcTemp = [c \in CallIds |-> Gone]
    /\ call = [c \in CallIds |-> NoCall]
    /\ events = 0

Next ==
    \/ \E c \in CallIds : PctTools(c) \/ QmTools(c) \/ DockerTools(c) \/ Handler(c)
    \/ OutOfBand \/ Power

Spec == Init /\ [][Next]_vars

----------------------------------------------------------------------------
(* Properties *)

\* A call that has ended has left no temporary file behind, on the node or in the
\* container, unless the command that makes or removes one failed: every other failure,
\* at whatever step, unwinds through both finally blocks.
TempsAreGone ==
    \A c \in CallIds :
        call[c].stage \in {"ok", "failed"} /\ ~call[c].leaked => nodeTemp[c] = Gone /\ lxcTemp[c] = Gone

\* A write that answers well, and that nobody overtook, leaves the owner and the mode of
\* the file it replaced, or says in a note that it may not have.  Over pct push this
\* takes a stat that did not fail: without one the configured perms are used.
WriteKeepsPerms ==
    \A c \in CallIds :
        LET r == call[c]
            excused == r.note \/ (route # "relay" /\ r.keep = Lost)
        IN At(c, "audit") /\ ~r.touched /\ route # "qm" /\ r.before.data # None /\ ~excused
           => file.perms = r.before.perms

----------------------------------------------------------------------------
(* What WritePipeline takes a file for *)

Phase(c) ==
    IF call[c].stage \in {"idle", "ok", "failed"} THEN call[c].stage
    ELSE IF call[c].wrote THEN "written" ELSE "reading"

Seen(c) == IF call[c].got = Unread THEN call[c].sample ELSE call[c].got

\* What a call is to write, Unread when it only reads.
Put(c) == IF call[c].op \in {"read"} \cup Dry THEN Unread ELSE call[c].new

Channel == INSTANCE FileChannel WITH
    data  <- file.data,
    got   <- [c \in CallIds |-> Seen(c)],
    phase <- [c \in CallIds |-> Phase(c)],
    new   <- [c \in CallIds |-> Put(c)],
    shaky <- {c \in CallIds : call[c].shaky}

\* The chain of commands is one read and one replacement: a call sees the content the
\* file had at one moment, no part of a step that failed, and a missing file only when it
\* was missing or the guest refused a command; and it replaces the whole file at one moment.
IsOneReadOneWrite == Channel!Spec

----------------------------------------------------------------------------
(* The inductive invariant *)

Ops == {"read", "write", "edit"} \cup Dry
Stages == {"idle", "check", "inspect", "hostname", "agentRead", "mkLxc", "cpOut", "probe", "mkTemp",
           "pull", "sftpRead", "rmTemp", "rmLxc", "decide", "stat", "sftpWrite", "push", "cpIn",
           "chown", "chmod", "agentWrite", "audit", "ok", "failed"}
Temp == {Gone, Empty} \cup Contents
File == [data : Contents \cup {None}, perms : Perms]
Call == [op : Ops, stage : Stages, leg : {"in", "out"}, err : BOOLEAN,
         new : Contents \cup {Unread}, got : Contents \cup {None, Unread},
         keep : Perms \cup {Lost}, note : BOOLEAN, sample : Contents \cup {None, Unread},
         wrote : BOOLEAN, shaky : BOOLEAN, leaked : BOOLEAN, touched : BOOLEAN, before : File]

TypeOK ==
    /\ route \in Routes /\ up \in BOOLEAN /\ file \in File /\ events \in Nat
    /\ nodeTemp \in [CallIds -> Temp] /\ lxcTemp \in [CallIds -> Temp]
    /\ call \in [CallIds -> Call]

\* Which stages a route, a leg and a failed call go through.
StageFits(c) ==
    /\ call[c].stage \in {"mkLxc", "cpOut", "rmLxc", "cpIn", "chown", "chmod"} => route = "relay"
    /\ call[c].stage \in {"hostname", "agentRead", "agentWrite"} => route = "qm"
    /\ call[c].stage = "inspect" => route \in Docker
    /\ call[c].stage \in {"probe", "mkTemp", "pull", "sftpRead", "rmTemp", "sftpWrite", "push", "stat"}
       => route # "qm"
    /\ call[c].stage \in {"check", "inspect", "hostname", "agentRead", "cpOut", "probe", "pull",
                          "sftpRead", "decide"} => call[c].leg = "in"
    /\ call[c].stage \in {"stat", "sftpWrite", "push", "cpIn", "chown", "chmod", "agentWrite",
                          "audit"} => call[c].leg = "out"
    /\ call[c].err => call[c].stage \in {"rmTemp", "rmLxc", "failed"}
    /\ call[c].stage = "idle" => call[c] = NoCall

\* Where a call that leaked nothing has no temporary file.
TempsFit(c) ==
    ~call[c].leaked =>
        /\ call[c].stage \notin {"pull", "sftpRead", "rmTemp", "sftpWrite", "push"} => nodeTemp[c] = Gone
        /\ \/ route # "relay"
           \/ call[c].stage \in {"idle", "check", "inspect", "mkLxc", "decide", "stat", "audit", "ok", "failed"}
           => lxcTemp[c] = Gone

\* What has been read on the way in: the one sample is what travels.
ReadFits(c) ==
    /\ call[c].leg = "in" /\ call[c].stage \in {"check", "inspect", "hostname", "agentRead", "mkLxc", "cpOut"}
       => call[c].sample = Unread /\ call[c].got = Unread
    /\ call[c].leg = "in" /\ call[c].stage \in {"probe", "mkTemp", "pull"}
       => /\ call[c].got = Unread
          /\ IF route = "relay" THEN call[c].sample = lxcTemp[c] /\ lxcTemp[c] \in Contents
             ELSE call[c].sample = Unread
    /\ call[c].stage = "sftpRead"
       => call[c].got = Unread /\ call[c].sample = nodeTemp[c] /\ nodeTemp[c] \in Contents
    /\ call[c].leg = "in" /\ call[c].stage \in {"rmTemp", "rmLxc", "decide"} /\ ~call[c].err
       => call[c].got # Unread

\* What is written on the way out: the new content travels, and lands once.
WriteFits(c) ==
    /\ call[c].stage # "idle" /\ call[c].op # "read" => call[c].new \in Contents
    /\ call[c].leg = "out" => call[c].got # Unread /\ call[c].op \in {"write", "edit"}
    /\ call[c].wrote => call[c].leg = "out"
    /\ call[c].stage \in {"stat", "mkLxc", "mkTemp", "sftpWrite", "push", "cpIn", "agentWrite"}
       => ~call[c].wrote
    /\ call[c].stage = "push" => nodeTemp[c] = call[c].new
    /\ call[c].leg = "out" /\ call[c].stage = "rmTemp" /\ ~call[c].err
       => IF route = "relay" THEN ~call[c].wrote /\ lxcTemp[c] = call[c].new ELSE call[c].wrote
    /\ call[c].stage = "cpIn" => lxcTemp[c] = call[c].new
    /\ call[c].leg = "out" /\ call[c].stage \in {"rmLxc", "chown", "chmod", "audit"} /\ ~call[c].err
       => call[c].wrote

\* What a call in flight that nobody overtook knows of the file and its perms.
PermsFit(c) ==
    InFlight(c) /\ ~call[c].touched =>
        /\ ~call[c].wrote => file = call[c].before
        /\ call[c].keep # Lost => call[c].keep = call[c].before.perms
        /\ call[c].wrote /\ ~call[c].err /\ route # "qm" =>
              IF route # "relay" THEN call[c].keep # Lost => file.perms = call[c].keep
              ELSE /\ call[c].stage = "chown" => call[c].keep # Lost /\ file.perms = {}
                   /\ call[c].stage = "chmod"
                      => /\ call[c].keep # Lost
                         /\ call[c].note \/ file.perms = call[c].keep \cap {"owner"}
                   /\ call[c].stage \in {"rmLxc", "audit"}
                      => call[c].note \/ (call[c].keep # Lost /\ file.perms = call[c].keep)

IInv ==
    /\ TypeOK
    /\ \A c \in CallIds : /\ StageFits(c) /\ TempsFit(c) /\ ReadFits(c)
                          /\ WriteFits(c) /\ PermsFit(c)
=============================================================================
