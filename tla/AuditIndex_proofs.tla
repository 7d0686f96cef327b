------------------------- MODULE AuditIndex_proofs -------------------------
(***************************************************************************)
(* Proofs about AuditIndex for every set of servers, records and filters:  *)
(* the index is a part of the log, a backfill leaves no gap that nobody     *)
(* knows of, rows are stable, and both ways to answer a query agree on all *)
(* but the text it looks for.                                              *)
(***************************************************************************)
EXTENDS AuditIndex, TLAPS

\* What the shape of the processes says: TypeOK's conjuncts about proc, with those of the
\* sidecar, which has neither a projector nor a backfill (ui/server.ts).
ProcsAreSound ==
    /\ proc \in [Procs -> [stage : Stages, db : BOOLEAN, read : SUBSET Ids, rec : Ids \cup {Null}]]
    /\ \A p \in Procs :
          /\ proc[p].stage = "written" <=> proc[p].rec # Null
          /\ proc[p].stage = "written" => proc[p].db /\ proc[p].rec \in logged
          /\ proc[p].read # {} <=> proc[p].stage = "opening"
          /\ proc[p].read \subseteq logged
    /\ proc[Sidecar].stage \in {"down", "up"} /\ ~proc[Sidecar].db

\* A process that changes to a sound state leaves all processes sound.
LEMMA OneProcChanges ==
    ASSUME ProcsAreSound, NEW q \in Procs, logged \subseteq logged',
           NEW stage \in Stages, NEW db \in BOOLEAN, NEW read, NEW rec \in Ids \cup {Null},
           proc' = [proc EXCEPT ![q] = State(stage, db, read, rec)],
           read \subseteq logged', logged' \subseteq Ids,
           stage = "written" <=> rec # Null,
           stage = "written" => db /\ rec \in logged',
           read # {} <=> stage = "opening",
           q = Sidecar => stage \in {"down", "up"} /\ ~db
    PROVE  ProcsAreSound'
  <1> DEFINE state == State(stage, db, read, rec)
  <1>1. /\ state \in [stage : Stages, db : BOOLEAN, read : SUBSET Ids, rec : Ids \cup {Null}]
        /\ state.stage = stage /\ state.db = db /\ state.read = read /\ state.rec = rec
    BY DEF State
  <1>2. proc' = [proc EXCEPT ![q] = state]
    OBVIOUS
  <1> HIDE DEF state
  <1>3. proc' \in [Procs -> [stage : Stages, db : BOOLEAN, read : SUBSET Ids, rec : Ids \cup {Null}]]
    BY <1>1, <1>2 DEF ProcsAreSound
  <1>4. ASSUME NEW p \in Procs
        PROVE  /\ proc'[p].stage = "written" <=> proc'[p].rec # Null
               /\ proc'[p].stage = "written" => proc'[p].db /\ proc'[p].rec \in logged'
               /\ proc'[p].read # {} <=> proc'[p].stage = "opening"
               /\ proc'[p].read \subseteq logged'
    <2>1. CASE p = q
      <3>1. proc'[p] = state
        BY <1>2, <2>1 DEF ProcsAreSound
      <3> QED
        BY <1>1, <3>1
    <2>2. CASE p # q
      <3>1. proc'[p] = proc[p]
        BY <1>2, <2>2 DEF ProcsAreSound
      <3> QED
        BY <3>1 DEF ProcsAreSound
    <2> QED
      BY <2>1, <2>2
  <1>5. proc'[Sidecar].stage \in {"down", "up"} /\ ~proc'[Sidecar].db
    <2>1. CASE q = Sidecar
      BY <1>1, <1>2, <2>1 DEF ProcsAreSound
    <2>2. CASE q # Sidecar
      BY <1>2, <2>2 DEF ProcsAreSound, Procs
    <2> QED
      BY <2>1, <2>2
  <1> QED
    BY <1>3, <1>4, <1>5 DEF ProcsAreSound

\* A process that holds no copy of the log is not opening the index.
LEMMA OneProcIsReadless ==
    ASSUME ProcsAreSound, NEW q \in Procs, logged \subseteq logged', logged' \subseteq Ids,
           NEW stage \in Stages \ {"opening"}, NEW db \in BOOLEAN, NEW rec \in Ids \cup {Null},
           proc' = [proc EXCEPT ![q] = State(stage, db, {}, rec)],
           stage = "written" <=> rec # Null,
           stage = "written" => db /\ rec \in logged',
           q = Sidecar => stage \in {"down", "up"} /\ ~db
    PROVE  ProcsAreSound'
  <1> DEFINE none == {}
  <1>1. proc' = [proc EXCEPT ![q] = State(stage, db, none, rec)]
    OBVIOUS
  <1>2. none \subseteq logged' /\ (none # {} <=> stage = "opening") /\ stage \in Stages
    OBVIOUS
  <1> HIDE DEF none
  <1> QED
    BY <1>1, <1>2, OneProcChanges

\* A process that comes up, or goes down, has nothing under way.
LEMMA OneProcRests ==
    ASSUME ProcsAreSound, NEW q \in Procs, NEW db \in BOOLEAN, q = Sidecar => ~db,
           \/ proc' = [proc EXCEPT ![q] = Up(db)]
           \/ proc' = [proc EXCEPT ![q] = Down],
           logged \subseteq logged', logged' \subseteq Ids
    PROVE  ProcsAreSound'
  <1>1. PICK stage \in {"up", "down"}, on \in BOOLEAN :
            /\ proc' = [proc EXCEPT ![q] = State(stage, on, {}, Null)]
            /\ q = Sidecar => ~on
    <2>1. CASE proc' = [proc EXCEPT ![q] = Up(db)]
      BY <2>1 DEF Up
    <2>2. CASE proc' = [proc EXCEPT ![q] = Down]
      BY <2>2 DEF Down
    <2> QED
      BY <2>1, <2>2
  <1>2. stage \in Stages \ {"opening"} /\ stage # "written" /\ Null \in Ids \cup {Null}
    BY DEF Stages
  <1> QED
    BY <1>1, <1>2, OneProcIsReadless

\* Inserting rows keeps those that are there (ON CONFLICT DO NOTHING).
LEMMA InsertKeepsRows ==
    ASSUME NEW new
    PROVE  /\ DOMAIN Insert(new) = DOMAIN rows \cup DOMAIN new
           /\ \A i \in DOMAIN rows : Insert(new)[i] = rows[i]
           /\ \A i \in DOMAIN new \ DOMAIN rows : Insert(new)[i] = new[i]
  BY DEF Insert

\* A row has its two columns.
LEMMA RowType ==
    ASSUME NEW i, NEW diff \in BOOLEAN
    PROVE  Row(i, diff) \in [diff : BOOLEAN, old : BOOLEAN]
  BY DEF Row

----------------------------------------------------------------------------
(* Type correctness *)

\* The parts of TypeOK that are not about processes, and the inductive part of it.
RowsAreTyped ==
    /\ DOMAIN rows \subseteq logged
    /\ \A i \in DOMAIN rows : rows[i] \in [diff : BOOLEAN, old : BOOLEAN]

LogIsTyped ==
    /\ logged \subseteq Ids /\ History \subseteq logged /\ unprojected \subseteq logged
    /\ scrub \in [stage : {"idle", "found", "planned"}, plan : SUBSET Ids]
    /\ events \in 0..MaxEvents

TypeInv == LogIsTyped /\ RowsAreTyped /\ ProcsAreSound

LEMMA TypeInvIsType == TypeInv => TypeOK
  BY DEF TypeInv, TypeOK, LogIsTyped, RowsAreTyped, ProcsAreSound

\* Charge keeps the counter of events in its bound.
LEMMA ChargeType ==
    ASSUME NEW bad \in BOOLEAN, events \in 0..MaxEvents, Charge(bad)
    PROVE  events' \in 0..MaxEvents
  BY AuditAssumption DEF Charge, AuditAssumption

LEMMA InitType == Init => TypeInv
  <1> SUFFICES ASSUME Init PROVE TypeInv
    OBVIOUS
  <1>1. LogIsTyped
    BY AuditAssumption DEF AuditAssumption, Init, LogIsTyped, NoScrub
  <1>2. RowsAreTyped
    <2>1. CASE rows = NoRows
      BY <2>1 DEF RowsAreTyped, NoRows
    <2>2. CASE rows = [i \in History |-> Row(i, Fields[i].diff # {})]
      BY <2>2, RowType DEF RowsAreTyped, Init
    <2> QED
      BY <2>1, <2>2 DEF Init
  <1>3. ProcsAreSound
    BY AuditAssumption DEF AuditAssumption, Init, ProcsAreSound, Procs, Down, State, Stages
  <1> QED
    BY <1>1, <1>2, <1>3 DEF TypeInv

LEMMA StartType ==
    ASSUME TypeInv, NEW s \in Servers, NEW enabled \in BOOLEAN, Start(s, enabled)
    PROVE  TypeInv'
  <1>1. LogIsTyped'
    BY ChargeType DEF TypeInv, LogIsTyped, Start
  <1>2. RowsAreTyped'
    BY DEF TypeInv, RowsAreTyped, Start
  <1>3. ProcsAreSound'
    <2>1. CASE enabled /\ rows = NoRows /\ logged # {}
      <3>1. proc' = [proc EXCEPT ![s] = State("opening", TRUE, logged, Null)] /\ "opening" \in Stages
        BY <2>1 DEF Start, Stages
      <3>2. s \in Procs /\ s # Sidecar /\ logged' = logged /\ logged \subseteq Ids
        BY AuditAssumption DEF AuditAssumption, TypeInv, LogIsTyped, Start, Procs
      <3> QED
        BY <2>1, <3>1, <3>2, OneProcChanges DEF TypeInv
    <2>2. CASE ~(enabled /\ rows = NoRows /\ logged # {})
      BY <1>1, <2>2, OneProcRests, AuditAssumption
         DEF AuditAssumption, TypeInv, LogIsTyped, Start, Procs
    <2> QED
      BY <2>1, <2>2
  <1> QED
    BY <1>1, <1>2, <1>3 DEF TypeInv

LEMMA StartSidecarType ==
    ASSUME TypeInv, StartSidecar
    PROVE  TypeInv'
  <1>1. LogIsTyped' /\ RowsAreTyped'
    BY DEF TypeInv, LogIsTyped, RowsAreTyped, StartSidecar
  <1>2. ProcsAreSound'
    BY OneProcRests DEF TypeInv, LogIsTyped, StartSidecar, Procs
  <1> QED
    BY <1>1, <1>2 DEF TypeInv

\* Rows inserted for records of the log.
LEMMA InsertType ==
    ASSUME RowsAreTyped, NEW new, DOMAIN new \subseteq logged', logged \subseteq logged',
           \A i \in DOMAIN new : new[i] \in [diff : BOOLEAN, old : BOOLEAN],
           rows' = Insert(new)
    PROVE  RowsAreTyped'
  <1>1. DOMAIN rows' = DOMAIN rows \cup DOMAIN new
    BY InsertKeepsRows
  <1>2. ASSUME NEW i \in DOMAIN rows' PROVE rows'[i] \in [diff : BOOLEAN, old : BOOLEAN]
    <2>1. CASE i \in DOMAIN rows
      BY <2>1, InsertKeepsRows DEF RowsAreTyped
    <2>2. CASE i \notin DOMAIN rows
      <3>1. i \in DOMAIN new \ DOMAIN rows
        BY <1>1, <2>2
      <3>2. rows'[i] = new[i]
        BY <3>1, InsertKeepsRows
      <3> QED
        BY <3>1, <3>2
    <2> QED
      BY <2>1, <2>2
  <1> QED
    BY <1>1, <1>2 DEF RowsAreTyped

LEMMA RebuildType ==
    ASSUME TypeInv, NEW s \in Servers, Rebuild(s)
    PROVE  TypeInv'
  <1> DEFINE new == [i \in proc[s].read |-> Row(i, FALSE)]
  <1>1. LogIsTyped'
    BY DEF TypeInv, LogIsTyped, Rebuild
  <1>2. RowsAreTyped'
    <2>1. rows' = Insert(new) /\ logged' = logged
      BY DEF Rebuild
    <2>2. \A i \in DOMAIN new : new[i] \in [diff : BOOLEAN, old : BOOLEAN]
      BY RowType
    <2>3. DOMAIN new \subseteq logged
      BY DEF TypeInv, ProcsAreSound, Procs
    <2> HIDE DEF new
    <2> QED
      BY <2>1, <2>2, <2>3, InsertType DEF TypeInv
  <1>3. ProcsAreSound'
    BY <1>1, OneProcRests, AuditAssumption
       DEF AuditAssumption, TypeInv, LogIsTyped, Rebuild, Procs
  <1> QED
    BY <1>1, <1>2, <1>3 DEF TypeInv

LEMMA AppendType ==
    ASSUME TypeInv, NEW p \in Procs, NEW i \in Ids, Append(p, i)
    PROVE  TypeInv'
  <1>1. LogIsTyped'
    BY DEF TypeInv, LogIsTyped, Append
  <1>2. RowsAreTyped'
    BY DEF TypeInv, RowsAreTyped, Append
  <1>3. ProcsAreSound'
    <2>1. CASE proc[p].db
      <3>1. proc' = [proc EXCEPT ![p] = State("written", TRUE, {}, i)] /\ "written" \in Stages \ {"opening"}
        BY <2>1 DEF Append, Stages
      <3>2. p # Sidecar /\ i # Null
        BY <2>1, AuditAssumption DEF AuditAssumption, TypeInv, ProcsAreSound
      <3>3. logged \subseteq logged' /\ i \in logged' /\ logged' \subseteq Ids
        BY DEF Append, TypeInv, LogIsTyped
      <3>4. i \in Ids \cup {Null} /\ TRUE \in BOOLEAN /\ ProcsAreSound
        BY DEF TypeInv
      <3> QED
        BY <3>1, <3>2, <3>3, <3>4, OneProcIsReadless
    <2>2. CASE ~proc[p].db
      <3>1. proc' = proc /\ logged \subseteq logged'
        BY <2>2 DEF Append, TypeInv, ProcsAreSound
      <3> QED
        BY <3>1 DEF TypeInv, ProcsAreSound
    <2> QED
      BY <2>1, <2>2
  <1> QED
    BY <1>1, <1>2, <1>3 DEF TypeInv

LEMMA ProjectType ==
    ASSUME TypeInv, NEW s \in Servers, NEW fails \in BOOLEAN, Project(s, fails)
    PROVE  TypeInv'
  <1> DEFINE new == [j \in {proc[s].rec} |-> Row(j, Fields[j].diff # {})]
  <1>1. proc[s].rec \in logged
    BY DEF TypeInv, ProcsAreSound, Project, Procs
  <1>2. LogIsTyped'
    BY <1>1, ChargeType DEF TypeInv, LogIsTyped, Project
  <1>3. RowsAreTyped'
    <2>1. CASE fails
      BY <2>1 DEF TypeInv, RowsAreTyped, Project
    <2>2. CASE ~fails
      <3>1. rows' = Insert(new) /\ logged' = logged
        BY <2>2 DEF Project
      <3>2. \A j \in DOMAIN new : new[j] \in [diff : BOOLEAN, old : BOOLEAN]
        BY RowType
      <3>3. DOMAIN new \subseteq logged
        BY <1>1
      <3> HIDE DEF new
      <3> QED
        BY <3>1, <3>2, <3>3, InsertType DEF TypeInv
    <2> QED
      BY <2>1, <2>2
  <1>4. ProcsAreSound'
    BY <1>2, OneProcRests, AuditAssumption
       DEF AuditAssumption, TypeInv, LogIsTyped, Project, Procs
  <1> QED
    BY <1>2, <1>3, <1>4 DEF TypeInv

LEMMA StopType ==
    ASSUME TypeInv, NEW p \in Procs, Stop(p)
    PROVE  TypeInv'
  <1>1. proc[p].stage = "written" => proc[p].rec \in logged
    BY DEF TypeInv, ProcsAreSound
  <1>2. LogIsTyped'
    BY <1>1, ChargeType DEF TypeInv, LogIsTyped, Stop
  <1>3. RowsAreTyped'
    BY DEF TypeInv, RowsAreTyped, Stop
  <1>4. ProcsAreSound'
    BY OneProcRests DEF TypeInv, LogIsTyped, Stop
  <1> QED
    BY <1>2, <1>3, <1>4 DEF TypeInv

LEMMA MaintenanceType ==
    ASSUME TypeInv, RescrubScan \/ RescrubPlan \/ RescrubApply \/ DropIndex
    PROVE  TypeInv'
  <1>1. ProcsAreSound'
    BY DEF TypeInv, ProcsAreSound, RescrubScan, RescrubPlan, RescrubApply, DropIndex
  <1>2. LogIsTyped'
    <2>1. scrub' \in [stage : {"idle", "found", "planned"}, plan : SUBSET Ids]
      <3>1. CASE RescrubScan
        BY <3>1 DEF RescrubScan
      <3>2. CASE RescrubPlan
        <4>1. PlanRescrub \subseteq Ids
          BY DEF PlanRescrub, TypeInv, LogIsTyped, RowsAreTyped
        <4> QED
          BY <3>2, <4>1 DEF RescrubPlan
      <3>3. CASE RescrubApply
        BY <3>3 DEF RescrubApply, NoScrub
      <3>4. CASE DropIndex
        BY <3>4 DEF DropIndex, TypeInv, LogIsTyped
      <3> QED
        BY <3>1, <3>2, <3>3, <3>4
    <2>2. events' \in 0..MaxEvents
      BY ChargeType DEF TypeInv, LogIsTyped, RescrubScan, RescrubPlan, RescrubApply, DropIndex
    <2> QED
      BY <2>1, <2>2 DEF TypeInv, LogIsTyped, RescrubScan, RescrubPlan, RescrubApply, DropIndex
  <1>3. RowsAreTyped'
    <2>1. CASE RescrubScan \/ RescrubPlan
      BY <2>1 DEF TypeInv, RowsAreTyped, RescrubScan, RescrubPlan
    <2>2. CASE RescrubApply
      BY <2>2 DEF TypeInv, RowsAreTyped, RescrubApply, Scrubbed
    <2>3. CASE DropIndex
      BY <2>3 DEF TypeInv, RowsAreTyped, DropIndex, NoRows
    <2> QED
      BY <2>1, <2>2, <2>3
  <1> QED
    BY <1>1, <1>2, <1>3 DEF TypeInv

LEMMA StepType == TypeInv /\ [Next]_vars => TypeInv'
  <1> SUFFICES ASSUME TypeInv, [Next]_vars PROVE TypeInv'
    OBVIOUS
  <1>1. CASE UNCHANGED vars
    BY <1>1 DEF vars, TypeInv, LogIsTyped, RowsAreTyped, ProcsAreSound
  <1> QED
    BY <1>1, StartType, StartSidecarType, RebuildType, AppendType, ProjectType, StopType, MaintenanceType
       DEF Next

\* Every reachable state is well typed; in particular the index holds no record that the
\* log lacks (AuditLog.append writes the line first).
THEOREM TypeCorrect == Spec => []TypeOK
  <1>1. TypeInv => TypeOK
    BY TypeInvIsType
  <1> QED
    BY <1>1, InitType, StepType, PTL DEF Spec

----------------------------------------------------------------------------
(* The index is whole *)

Whole == BackfillIsWhole /\ ServersAreWhole

\* Nothing drops out of sight: a record that a server was about to project has its row, or
\* is known to lack it.
KeepsTrack ==
    /\ unprojected \subseteq unprojected' /\ DOMAIN rows \subseteq DOMAIN rows'
    /\ \A s \in Servers : \/ proc[s].rec = Null
                          \/ proc'[s].rec = proc[s].rec
                          \/ proc[s].rec \in unprojected' \cup DOMAIN rows'

\* A step that keeps track and logs nothing opens no gap.
LEMMA NoNewGap ==
    ASSUME TypeInv, KeepsTrack, logged' = logged
    PROVE  Gap' \subseteq Gap
  BY AuditAssumption DEF AuditAssumption, TypeInv, LogIsTyped, KeepsTrack, Gap

\* Without a gap everything is whole.
LEMMA NoGapIsWhole ==
    ASSUME Gap = {} PROVE Whole
  BY DEF Whole, BackfillIsWhole, ServersAreWhole

LEMMA InitWhole == Init => Whole
  <1> SUFFICES ASSUME Init PROVE Whole
    OBVIOUS
  <1>1. CASE rows = NoRows
    BY <1>1 DEF Init, Whole, BackfillIsWhole, ServersAreWhole, Down, State, Procs
  <1>2. CASE rows = [i \in History |-> Row(i, Fields[i].diff # {})]
    <2>1. Gap = {}
      BY <1>2 DEF Init, Gap
    <2> QED
      BY <2>1, NoGapIsWhole
  <1> QED
    BY <1>1, <1>2 DEF Init

LEMMA StartWhole ==
    ASSUME TypeInv, Whole, NEW s \in Servers, NEW enabled \in BOOLEAN, Start(s, enabled)
    PROVE  Whole'
  <1>1. proc[s].rec = Null /\ s \in Procs
    BY DEF TypeInv, ProcsAreSound, Start, Procs
  <1>2. \A q \in Servers \ {s} : proc'[q] = proc[q]
    BY DEF Start
  <1>3. Gap' \subseteq Gap
    BY <1>1, <1>2, NoNewGap DEF Start, KeepsTrack
  <1>4. BackfillIsWhole'
    BY <1>3 DEF Whole, BackfillIsWhole, Start
  <1>5. proc'[s] = IF enabled /\ rows = NoRows /\ logged # {}
                   THEN State("opening", TRUE, logged, Null) ELSE Up(enabled)
    BY <1>1 DEF Start, TypeInv, ProcsAreSound
  <1>6. proc'[s].stage = "opening" => Gap' \subseteq proc'[s].read
    BY <1>3, <1>5 DEF State, Up, Gap
  <1>7. proc'[s].stage \in {"up", "written"} /\ proc'[s].db => Gap' = {}
    BY <1>3, <1>5 DEF State, Up, Whole, BackfillIsWhole, Gap
  <1>8. ServersAreWhole'
    BY <1>2, <1>3, <1>6, <1>7 DEF Whole, ServersAreWhole
  <1> QED
    BY <1>4, <1>8 DEF Whole

LEMMA StartSidecarWhole ==
    ASSUME TypeInv, Whole, StartSidecar
    PROVE  Whole'
  <1>1. \A q \in Servers : proc'[q] = proc[q]
    BY AuditAssumption DEF AuditAssumption, StartSidecar, TypeInv, ProcsAreSound, Procs
  <1>2. Gap' \subseteq Gap
    BY <1>1, NoNewGap DEF StartSidecar, KeepsTrack
  <1> QED
    BY <1>1, <1>2 DEF Whole, BackfillIsWhole, ServersAreWhole, StartSidecar

\* The backfill inserts the log as it was read; what came later is accounted for.
LEMMA RebuildWhole ==
    ASSUME TypeInv, Whole, NEW s \in Servers, Rebuild(s)
    PROVE  Whole'
  <1>1. DOMAIN rows' = DOMAIN rows \cup proc[s].read
    BY InsertKeepsRows DEF Rebuild
  <1>2. \A q \in Servers : proc'[q].rec = proc[q].rec
    BY DEF Rebuild, TypeInv, ProcsAreSound, Up, State, Procs
  <1>3. Gap' \subseteq Gap
    BY <1>1, <1>2, NoNewGap DEF Rebuild, KeepsTrack
  <1>4. Gap \subseteq proc[s].read
    BY DEF Whole, ServersAreWhole, Rebuild
  <1>5. Gap' = {}
    BY <1>1, <1>3, <1>4 DEF Gap
  <1>6. ASSUME Gap' = {} PROVE Whole'
    BY <1>6 DEF Whole, BackfillIsWhole, ServersAreWhole
  <1> QED
    BY <1>5, <1>6

\* The record that is appended is accounted for: the projection is next, or never is.
LEMMA AppendWhole ==
    ASSUME TypeInv, Whole, NEW p \in Procs, NEW i \in Ids, Append(p, i)
    PROVE  Whole'
  <1>1. proc[p].rec = Null
    BY DEF TypeInv, ProcsAreSound, Append
  <1>2. proc \in [Procs -> [stage : Stages, db : BOOLEAN, read : SUBSET Ids, rec : Ids \cup {Null}]]
    BY DEF TypeInv, ProcsAreSound
  <1>3. CASE proc[p].db
    <2>1. proc' = [proc EXCEPT ![p] = State("written", TRUE, {}, i)] /\ p \in Servers
      BY <1>3 DEF Append, TypeInv, ProcsAreSound, Procs
    <2>2. proc'[p].rec = i /\ proc'[p].db /\ proc'[p].stage = "written"
      BY <1>2, <2>1 DEF State
    <2>3. \A q \in Servers \ {p} : proc'[q] = proc[q]
      BY <2>1
    <2>4. Gap = {}
      BY <1>3, <2>1 DEF Append, Whole, ServersAreWhole
    <2>5. ASSUME NEW j \in Gap' PROVE FALSE
      <3>1. j # i /\ j \in logged \ DOMAIN rows /\ j \notin unprojected
        BY <1>3, <2>1, <2>2 DEF Append, Gap
      <3>2. j # Null
        BY <3>1, AuditAssumption DEF AuditAssumption, TypeInv, LogIsTyped
      <3>3. \A q \in Servers : proc[q].rec # j
        BY <1>1, <2>3, <3>2 DEF Gap
      <3> QED
        BY <2>4, <3>1, <3>3 DEF Gap
    <2>6. ASSUME Gap' = {} PROVE Whole'
      BY <2>6 DEF Whole, BackfillIsWhole, ServersAreWhole
    <2> QED
      BY <2>5, <2>6
  <1>4. CASE ~proc[p].db
    <2>1. proc' = proc /\ rows' = rows
      BY <1>2, <1>4 DEF Append
    <2>2. Gap' \subseteq Gap
      BY <1>4, <2>1 DEF Append, Gap
    <2> QED
      BY <2>1, <2>2 DEF Whole, BackfillIsWhole, ServersAreWhole
  <1> QED
    BY <1>3, <1>4

LEMMA ProjectWhole ==
    ASSUME TypeInv, Whole, NEW s \in Servers, NEW fails \in BOOLEAN, Project(s, fails)
    PROVE  Whole'
  <1>1. Gap = {}
    BY DEF Whole, ServersAreWhole, TypeInv, ProcsAreSound, Project, Procs
  <1>2. \A q \in Servers \ {s} : proc'[q] = proc[q]
    BY DEF Project
  <1>3. /\ DOMAIN rows \subseteq DOMAIN rows' /\ unprojected \subseteq unprojected'
        /\ proc[s].rec \in unprojected' \cup DOMAIN rows'
    <2>1. CASE fails
      BY <2>1 DEF Project
    <2>2. CASE ~fails
      BY <2>2, InsertKeepsRows DEF Project
    <2> QED
      BY <2>1, <2>2
  <1>4. Gap' \subseteq Gap
    BY <1>2, <1>3, NoNewGap DEF Project, KeepsTrack
  <1>5. ASSUME Gap' = {} PROVE Whole'
    BY <1>5 DEF Whole, BackfillIsWhole, ServersAreWhole
  <1> QED
    BY <1>1, <1>4, <1>5

LEMMA StopWhole ==
    ASSUME TypeInv, Whole, NEW p \in Procs, Stop(p)
    PROVE  Whole'
  <1>1. proc'[p].stage = "down" /\ \A q \in Procs \ {p} : proc'[q] = proc[q]
    BY DEF Stop, Down, State, TypeInv, ProcsAreSound
  <1>2. proc[p].rec = Null \/ proc[p].rec \in unprojected'
    BY DEF Stop, TypeInv, ProcsAreSound
  <1>3. Gap' \subseteq Gap
    BY <1>1, <1>2, NoNewGap DEF Stop, KeepsTrack, Procs
  <1> QED
    BY <1>1, <1>3 DEF Whole, BackfillIsWhole, ServersAreWhole, Stop, Procs

\* The scrub keeps every row, and the index is only deleted while no server has it.
LEMMA MaintenanceWhole ==
    ASSUME TypeInv, Whole, RescrubScan \/ RescrubPlan \/ RescrubApply \/ DropIndex
    PROVE  Whole'
  <1>1. CASE RescrubScan \/ RescrubPlan
    BY <1>1 DEF RescrubScan, RescrubPlan, Whole, BackfillIsWhole, ServersAreWhole, Gap
  <1>2. CASE RescrubApply
    <2>1. DOMAIN rows' = DOMAIN rows /\ proc' = proc /\ logged' = logged /\ unprojected' = unprojected
      BY <1>2 DEF RescrubApply
    <2>2. Gap' = Gap
      BY <2>1 DEF Gap
    <2>3. rows' # NoRows => rows # NoRows
      BY <1>2, <2>1 DEF RescrubApply, NoRows
    <2> QED
      BY <2>1, <2>2, <2>3 DEF Whole, BackfillIsWhole, ServersAreWhole
  <1>3. CASE DropIndex
    BY <1>3 DEF DropIndex, Whole, BackfillIsWhole, ServersAreWhole
  <1> QED
    BY <1>1, <1>2, <1>3

LEMMA StepWhole == TypeInv /\ Whole /\ [Next]_vars => Whole'
  <1> SUFFICES ASSUME TypeInv, Whole, [Next]_vars PROVE Whole'
    OBVIOUS
  <1>1. CASE UNCHANGED vars
    BY <1>1 DEF vars, Whole, BackfillIsWhole, ServersAreWhole, Gap
  <1> QED
    BY <1>1, StartWhole, StartSidecarWhole, RebuildWhole, AppendWhole, ProjectWhole, StopWhole,
       MaintenanceWhole DEF Next

\* IInv, which the model checker sees, is the two parts together.
LEMMA Inductive ==
    /\ Init => IInv
    /\ IInv /\ [Next]_vars => IInv'
  <1>1. IInv <=> TypeInv /\ Whole
    BY DEF IInv, TypeOK, TypeInv, LogIsTyped, RowsAreTyped, ProcsAreSound, Whole
  <1>2. IInv' <=> TypeInv' /\ Whole'
    BY DEF IInv, TypeOK, TypeInv, LogIsTyped, RowsAreTyped, ProcsAreSound, Whole
  <1> QED
    BY <1>1, <1>2, InitType, InitWhole, StepType, StepWhole

\* The backfill of an empty index is whole (AuditDb.rebuildFrom in one transaction): once
\* the index has a row it lacks only records whose own append never reached it.
THEOREM Backfilled == Spec => []BackfillIsWhole
  <1>1. IInv => BackfillIsWhole
    BY DEF IInv
  <1> QED
    BY <1>1, Inductive, PTL DEF Spec

----------------------------------------------------------------------------
(* Rows are stable *)

\* What RowsAreStable asks of a step.
RowsStay ==
    \A i \in DOMAIN rows : rows' # NoRows =>
        /\ i \in DOMAIN rows'
        /\ rows[i].diff => rows'[i].diff
        /\ rows'[i].old => rows[i].old

LEMMA StepKeepsRows == TypeInv /\ [Next]_vars => RowsStay
  <1> SUFFICES ASSUME TypeInv, [Next]_vars PROVE RowsStay
    OBVIOUS
  <1>1. ASSUME \/ rows' = rows
               \/ \E new : rows' = Insert(new)
        PROVE  RowsStay
    BY <1>1, InsertKeepsRows DEF RowsStay
  <1>2. CASE UNCHANGED vars
    BY <1>1, <1>2 DEF vars
  <1>3. ASSUME NEW s \in Servers, NEW enabled \in BOOLEAN, Start(s, enabled) PROVE RowsStay
    BY <1>1, <1>3 DEF Start
  <1>4. CASE StartSidecar
    BY <1>1, <1>4 DEF StartSidecar
  <1>5. ASSUME NEW s \in Servers, Rebuild(s) PROVE RowsStay
    BY <1>1, <1>5 DEF Rebuild
  <1>6. ASSUME NEW p \in Procs, NEW i \in Ids, Append(p, i) PROVE RowsStay
    BY <1>1, <1>6 DEF Append
  <1>7. ASSUME NEW s \in Servers, NEW fails \in BOOLEAN, Project(s, fails) PROVE RowsStay
    BY <1>1, <1>7 DEF Project
  <1>8. ASSUME NEW p \in Procs, Stop(p) PROVE RowsStay
    BY <1>1, <1>8 DEF Stop
  <1>9. CASE RescrubScan \/ RescrubPlan
    BY <1>1, <1>9 DEF RescrubScan, RescrubPlan
  <1>10. CASE RescrubApply
    <2>1. /\ DOMAIN rows' = DOMAIN rows
          /\ \A i \in DOMAIN rows : rows'[i] = IF i \in scrub.plan THEN Scrubbed(i) ELSE rows[i]
      BY <1>10 DEF RescrubApply
    <2>2. ASSUME NEW i \in DOMAIN rows
          PROVE  Scrubbed(i).diff = rows[i].diff /\ Scrubbed(i).old = FALSE
      BY DEF Scrubbed, TypeInv, RowsAreTyped
    <2> QED
      BY <2>1, <2>2 DEF RowsStay
  <1>11. CASE DropIndex
    BY <1>11 DEF DropIndex, RowsStay
  <1> QED
    BY <1>2, <1>3, <1>4, <1>5, <1>6, <1>7, <1>8, <1>9, <1>10, <1>11 DEF Next

\* While the index exists no row leaves it, loses the diff that only it holds, or gets back
\* a text that the rescrub redacted (ON CONFLICT DO NOTHING, rescrubAuditDb).
THEOREM RowsStable == Spec => RowsAreStable
  <1>1. TypeInv /\ [Next]_vars => [RowsStay]_vars
    BY StepKeepsRows
  <1>2. RowsStay <=> \A i \in DOMAIN rows : rows' # NoRows =>
                        /\ i \in DOMAIN rows'
                        /\ rows[i].diff => rows'[i].diff
                        /\ rows'[i].old => rows[i].old
    BY DEF RowsStay
  <1> QED
    BY <1>1, <1>2, InitType, StepType, PTL DEF Spec, RowsAreStable

----------------------------------------------------------------------------
(* Both ways to answer agree *)

\* Two columns compared with a value that is not absent compare as the fields do.
LEMMA EqualIsEqual ==
    ASSUME NEW column, NEW value, value # Null
    PROVE  Equal(column, value) <=> column = value
  BY DEF Equal

LEMMA HashClauseIsMembership ==
    ASSUME NEW r, NEW h, h # Null
    PROVE  HashClause(r, h) <=> h \in {r.before, r.after}
  BY DEF HashClause, Equal

\* The WHERE clause without the full text match.
LEMMA WhereIsFilter ==
    ASSUME NEW f \in Filters, NEW i \in logged \cap DOMAIN rows
    PROVE  i \in QueryRecords(f)
               <=> /\ i \in FilterAuditRecords(f)
                   /\ f.text # Unset => Tokens[f.text] \subseteq RowWords(i)
  <1> DEFINE r == Fields[i]
  <1>1. f.tool # Null /\ f.vmid # Null /\ f.hashEquals # Null /\ "unknown" # Null
    BY AuditAssumption DEF AuditAssumption
  <1>2. /\ Equal(r.tool, f.tool) <=> r.tool = f.tool
        /\ Equal(r.vmid, f.vmid) <=> r.vmid = f.vmid
        /\ Equal(r.scope, "unknown") <=> r.scope = "unknown"
        /\ HashClause(r, f.hashEquals) <=> f.hashEquals \in {r.before, r.after}
    BY <1>1, EqualIsEqual, HashClauseIsMembership
  <1> QED
    BY <1>2 DEF QueryRecords, FilterAuditRecords

LEMMA TypeAgrees == TypeInv => VerdictsAgree
  <1> SUFFICES ASSUME TypeInv, NEW f \in Filters, NEW i \in DOMAIN rows
               PROVE  /\ f.text = Unset => (i \in QueryRecords(f) <=> i \in Fallback(f))
                      /\ f.text # Unset /\ Tokens[f.text] \subseteq Fields[i].words =>
                            (i \in Fallback(f) => i \in QueryRecords(f))
    BY DEF VerdictsAgree
  <1>1. i \in logged
    BY DEF TypeInv, RowsAreTyped
  <1>2. i \in Fallback(f) <=> /\ i \in FilterAuditRecords(f)
                              /\ f.text # Unset => f.text \in Fields[i].contains
    BY DEF Fallback
  <1>3. Fields[i].words \subseteq RowWords(i)
    BY DEF RowWords
  <1> QED
    BY <1>1, <1>2, <1>3, WhereIsFilter

\* On a record that the index holds, the two ways to answer (queryRecords,
\* filterAuditRecords) give the same verdict when no text is searched: SQL's NULL and an
\* absent field never differ.  Of the text searches only those for whole words that
\* redaction leaves are covered, and in one direction: the index finds what the log finds.
THEOREM Agreement == Spec => []VerdictsAgree
  <1> QED
    BY InitType, StepType, TypeAgrees, PTL DEF Spec

=============================================================================
