----------------------------- MODULE AuditIndex -----------------------------
(***************************************************************************)
(* The audit trail, src/audit, and its reader query_audit: the JSONL log,  *)
(* which is the system of record, and the SQLite index audit.db that each  *)
(* server process mirrors its appends into and answers queries from.       *)
(*                                                                         *)
(* Several processes share both files: MCP servers, one per session, and   *)
(* the UI sidecar, which appends to the log and has no index.  A record is *)
(* written once; its fields are constants and its id stands for it.        *)
(***************************************************************************)
EXTENDS Naturals, FiniteSets

CONSTANTS
    Servers,     \* MCP server processes
    Sidecar,     \* the UI process
    Ids,         \* audit records
    Fields,      \* record -> its fields
    History,     \* the records that are in the log before the index exists
    OldText,     \* the records of History whose text today's redaction changes
    Filters,     \* the inputs of query_audit that are asked
    Tokens,      \* buildFtsMatch: the text of a search -> its words, in one case
    Unset, Null,   \* a filter that is not given; a field that is absent
    MaxEvents    \* BOUND: crashes, failures, restarts without an index, scrubs and drops

VARIABLES
    logged,  \* the records in the log
    rows,    \* record -> its row in the index
    proc,    \* process -> its progress
    scrub,   \* progress of the rescrub command, and the rows its last scan found
    unprojected, \* records whose own append never reached the index (history variable)
    events   \* events so far

vars == <<logged, rows, proc, scrub, unprojected, events>>

Procs == Servers \cup {Sidecar}
NoRows == [i \in {} |-> Null]

\* Filters are records of these fields, each Unset or a value; a substring is never empty.
\* Of the text of a record: the searches that its cmd, path or note contains, letter for
\* letter; the words of those columns that redaction leaves and those that it takes out;
\* and the words of its redacted diff.
AuditAssumption ==
    /\ Sidecar \notin Servers /\ History \subseteq Ids /\ OldText \subseteq History
    /\ Null \notin Ids /\ Null # "unknown"
    /\ \A f \in Filters : Null \notin {f.tool, f.vmid, f.hashEquals}
    /\ \A i \in Ids : DOMAIN Fields[i] = {"tool", "vmid", "path", "ts", "large", "scope", "scopeParts",
                                          "before", "after", "contains", "words", "secrets", "diff"}
    /\ \A f \in Filters : DOMAIN f = {"tool", "vmid", "pathContains", "since", "until",
                                      "largeOnly", "hashScopeContains", "unknownScopeOnly",
                                      "hashEquals", "text"}
    /\ MaxEvents \in Nat
ASSUME AuditAssumption

----------------------------------------------------------------------------
(* The two ways to answer *)

\* queryAudit.filterAuditRecords: an absent field is undefined, and an absent path is "".
FilterAuditRecords(f) ==
    {i \in logged :
        LET r == Fields[i]
        IN /\ f.tool # Unset => r.tool = f.tool
           /\ f.vmid # Unset => r.vmid = f.vmid
           /\ f.pathContains # Unset => r.path # Null /\ f.pathContains \in r.path
           /\ f.since # Unset => r.ts >= f.since
           /\ f.until # Unset => r.ts <= f.until
           /\ f.largeOnly => r.large = TRUE
           /\ f.hashScopeContains # Unset => r.scopeParts # Null /\ f.hashScopeContains \in r.scopeParts
           /\ f.unknownScopeOnly => r.scope = "unknown"
           /\ f.hashEquals # Unset => f.hashEquals \in {r.before, r.after}}

\* fallbackTextFilter: a substring of what the log holds, which has no diffs.
Fallback(f) == {i \in FilterAuditRecords(f) : f.text # Unset => f.text \in Fields[i].contains}

\* A comparison with NULL is not true.
Equal(column, value) == column # Null /\ column = value

\* Mutant: two hashes are compared at once, and NULL is contagious.
EitherHash(r, h) == r.before # Null /\ r.after # Null /\ h \in {r.before, r.after}

\* The clause on before_hash and after_hash.
HashClause(r, h) == Equal(r.before, h) \/ Equal(r.after, h)

\* audit_fts: the words of a row's cmd, diff, path and note.
RowWords(i) ==
    Fields[i].words \cup (IF rows[i].old THEN Fields[i].secrets ELSE {})
                    \cup (IF rows[i].diff THEN Fields[i].diff ELSE {})

\* AuditDb.queryRecords: the WHERE clause over the columns that recordToColumns wrote, and
\* the full text match, each word of the search in any column; a search without a word
\* matches every row.
QueryRecords(f) ==
    {i \in DOMAIN rows :
        LET r == Fields[i]
        IN /\ f.text # Unset => Tokens[f.text] \subseteq RowWords(i)
           /\ f.tool # Unset => Equal(r.tool, f.tool)
           /\ f.vmid # Unset => Equal(r.vmid, f.vmid)
           /\ f.pathContains # Unset => r.path # Null /\ f.pathContains \in r.path
           /\ f.since # Unset => r.ts >= f.since
           /\ f.until # Unset => r.ts <= f.until
           /\ f.largeOnly => r.large = TRUE
           /\ f.hashScopeContains # Unset => r.scopeParts # Null /\ f.hashScopeContains \in r.scopeParts
           /\ f.unknownScopeOnly => Equal(r.scope, "unknown")
           /\ f.hashEquals # Unset => HashClause(r, f.hashEquals)}

----------------------------------------------------------------------------
(* Processes *)

Stages == {"down", "opening", "up", "written"}
State(stage, db, read, rec) == [stage |-> stage, db |-> db, read |-> read, rec |-> rec]
Down == State("down", FALSE, {}, Null)
Up(db) == State("up", db, {}, Null)

NoScrub == [stage |-> "idle", plan |-> {}]

\* A row as recordToColumns makes it: the text is that of the log.
Row(i, diff) == [diff |-> diff, old |-> i \in OldText]

\* A log without an index, or with one that an earlier release kept.
Init ==
    /\ logged = History
    /\ rows \in {NoRows, [i \in History |-> Row(i, Fields[i].diff # {})]}
    /\ proc = [p \in Procs |-> Down]
    /\ scrub = NoScrub
    /\ unprojected = {}
    /\ events = 0

Charge(bad) ==
    /\ bad => events < MaxEvents
    /\ events' = IF bad THEN events + 1 ELSE events

\* Start-up: with audit.dbEnabled the index is opened and attached, and when it has no row
\* while the log has records, the log is read for a backfill.
Start(s, enabled) ==
    /\ s \in Servers /\ proc[s].stage = "down"
    /\ Charge(~enabled)
    /\ proc' = [proc EXCEPT ![s] =
          IF enabled /\ rows = NoRows /\ logged # {}
          THEN State("opening", TRUE, logged, Null) ELSE Up(enabled)]
    /\ UNCHANGED <<logged, rows, scrub, unprojected>>

\* The sidecar makes an AuditLog without a projector.
StartSidecar ==
    /\ proc[Sidecar].stage = "down"
    /\ proc' = [proc EXCEPT ![Sidecar] = Up(FALSE)]
    /\ UNCHANGED <<logged, rows, scrub, unprojected, events>>

\* Mutant: INSERT OR REPLACE.
Upsert(new) == [i \in DOMAIN rows \cup DOMAIN new |-> IF i \in DOMAIN new THEN new[i] ELSE rows[i]]

\* insertCols, ON CONFLICT(id) DO NOTHING.
Insert(new) == [i \in DOMAIN rows \cup DOMAIN new |-> IF i \in DOMAIN rows THEN rows[i] ELSE new[i]]

\* Mutant: one transaction per record, and the process dies in between.
RebuildPartly(s) ==
    /\ proc[s].stage = "opening"
    /\ \E some \in SUBSET proc[s].read :
          /\ rows' = Insert([i \in some |-> Row(i, FALSE)])
          /\ proc' = [proc EXCEPT ![s] = IF some = @.read THEN Up(TRUE) ELSE Down]
    /\ UNCHANGED <<logged, scrub, unprojected, events>>

\* rebuildFrom: one transaction; a backfilled row has no diff.
Rebuild(s) ==
    /\ proc[s].stage = "opening"
    /\ rows' = Insert([i \in proc[s].read |-> Row(i, FALSE)])
    /\ proc' = [proc EXCEPT ![s] = Up(TRUE)]
    /\ UNCHANGED <<logged, scrub, unprojected, events>>

\* Mutant: the projection before the line.
AppendProjected(p, i) ==
    /\ proc[p].stage = "up" /\ i \notin logged /\ \A q \in Procs : proc[q].rec # i
    /\ IF proc[p].db
       THEN /\ rows' = Insert([j \in {i} |-> Row(i, FALSE)])
            /\ proc' = [proc EXCEPT ![p] = State("written", TRUE, {}, i)]
            /\ UNCHANGED <<logged, unprojected>>
       ELSE /\ logged' = logged \cup {i} /\ unprojected' = unprojected \cup {i}
            /\ UNCHANGED <<rows, proc>>
    /\ UNCHANGED <<scrub, events>>

\* AuditLog.append up to the projection: the line is in the log.
Append(p, i) ==
    /\ proc[p].stage = "up" /\ i \notin logged /\ \A q \in Procs : proc[q].rec # i
    /\ logged' = logged \cup {i}
    /\ proc' = [proc EXCEPT ![p] = IF @.db THEN State("written", TRUE, {}, i) ELSE @]
    /\ unprojected' = IF proc[p].db THEN unprojected ELSE unprojected \cup {i}
    /\ UNCHANGED <<rows, scrub, events>>

\* AuditDb.project: with the redacted diff, when the call made one.  An error is written to
\* stderr and swallowed.
Project(s, fails) ==
    /\ proc[s].stage = "written"
    /\ Charge(fails)
    /\ rows' = IF fails THEN rows
               ELSE Insert([j \in {proc[s].rec} |-> Row(j, Fields[j].diff # {})])
    /\ unprojected' = IF fails THEN unprojected \cup {proc[s].rec} ELSE unprojected
    /\ proc' = [proc EXCEPT ![s] = Up(TRUE)]
    /\ UNCHANGED <<logged, scrub>>

\* A process is stopped, or dies where it is.
Stop(p) ==
    /\ proc[p].stage # "down"
    /\ Charge(proc[p].stage # "up")
    /\ unprojected' = IF proc[p].stage = "written" THEN unprojected \cup {proc[p].rec} ELSE unprojected
    /\ proc' = [proc EXCEPT ![p] = Down]
    /\ UNCHANGED <<logged, rows, scrub>>

----------------------------------------------------------------------------
(* Maintenance *)

\* planRescrub: the rows whose text changes under today's redaction.
PlanRescrub == {i \in DOMAIN rows : rows[i].old}

\* The rescrub command: the dry scan, and with a change found, the copy of the file.
RescrubScan ==
    /\ scrub.stage = "idle" /\ PlanRescrub # {}
    /\ Charge(TRUE)
    /\ scrub' = [stage |-> "found", plan |-> {}]
    /\ UNCHANGED <<logged, rows, proc, unprojected>>

\* rescrubAuditDb with apply: the second scan.
RescrubPlan ==
    /\ scrub.stage = "found"
    /\ scrub' = [stage |-> "planned", plan |-> PlanRescrub]
    /\ UNCHANGED <<logged, rows, proc, unprojected, events>>

\* The row as the UPDATE leaves it.
Scrubbed(i) == [rows[i] EXCEPT !.old = FALSE]

\* Its update of what it found, in one transaction.
RescrubApply ==
    /\ scrub.stage = "planned"
    /\ rows' = [i \in DOMAIN rows |-> IF i \in scrub.plan THEN Scrubbed(i) ELSE rows[i]]
    /\ scrub' = NoScrub
    /\ UNCHANGED <<logged, proc, unprojected, events>>

\* The index file is deleted, to be rebuilt from the log at the next start.
DropIndex ==
    /\ \A s \in Servers : proc[s].stage = "down"
    /\ scrub.stage = "idle" /\ rows # NoRows
    /\ Charge(TRUE)
    /\ rows' = NoRows
    /\ UNCHANGED <<logged, proc, scrub, unprojected>>

Next ==
    \/ \E s \in Servers, enabled \in BOOLEAN : Start(s, enabled)
    \/ StartSidecar
    \/ \E s \in Servers : Rebuild(s)
    \/ \E p \in Procs, i \in Ids : Append(p, i)
    \/ \E s \in Servers, fails \in BOOLEAN : Project(s, fails)
    \/ \E p \in Procs : Stop(p)
    \/ RescrubScan
    \/ RescrubPlan
    \/ RescrubApply
    \/ DropIndex

Spec == Init /\ [][Next]_vars

----------------------------------------------------------------------------
(* Properties *)

\* The state is well typed: a process waits for a projection only with an index and after
\* its line, only a starting server holds a log it has read, and the log is the system of
\* record: the index has no row for a record that the log lacks (AuditLog.append).
TypeOK ==
    /\ logged \subseteq Ids /\ History \subseteq logged /\ unprojected \subseteq logged
    /\ DOMAIN rows \subseteq logged
    /\ \A i \in DOMAIN rows : rows[i] \in [diff : BOOLEAN, old : BOOLEAN]
    /\ proc \in [Procs -> [stage : Stages, db : BOOLEAN, read : SUBSET Ids, rec : Ids \cup {Null}]]
    /\ \A p \in Procs :
          /\ proc[p].stage = "written" <=> proc[p].rec # Null
          /\ proc[p].stage = "written" => proc[p].db /\ proc[p].rec \in logged
          /\ proc[p].read # {} <=> proc[p].stage = "opening"
          /\ proc[p].read \subseteq logged
    /\ scrub \in [stage : {"idle", "found", "planned"}, plan : SUBSET Ids]
    /\ events \in 0..MaxEvents

\* The records that the index lacks, except those whose own append never reached it or is
\* about to.
Gap == {i \in logged \ DOMAIN rows : i \notin unprojected /\ \A s \in Servers : proc[s].rec # i}

\* The backfill of an empty index is whole (index.ts start-up, AuditDb.rebuildFrom): once
\* the index has any row, the records it lacks are those whose own append never reached
\* it.  Otherwise count() # 0 would keep every later start from repairing it.
BackfillIsWhole == rows # NoRows => Gap = {}

\* Both ways to answer (queryRecords, filterAuditRecords) give the same verdict on an indexed
\* record when no text is searched.  With a text they may differ either way: one looks for a
\* substring, the other for words (fallbackTextFilter, buildFtsMatch).  A search for whole
\* words that redaction leaves is answered by the index wherever the log does, whether the
\* row was projected or backfilled, before and after a rescrub.
VerdictsAgree ==
    \A f \in Filters, i \in DOMAIN rows :
        /\ f.text = Unset => (i \in QueryRecords(f) <=> i \in Fallback(f))
        /\ f.text # Unset /\ Tokens[f.text] \subseteq Fields[i].words =>
              (i \in Fallback(f) => i \in QueryRecords(f))

\* A row is stable (ON CONFLICT DO NOTHING, rescrubAuditDb): while the index exists no row
\* leaves it, loses the diff that only it holds, or gets back a text that was scrubbed.
RowsAreStable ==
    [][\A i \in DOMAIN rows : rows' # NoRows =>
          /\ i \in DOMAIN rows'
          /\ rows[i].diff => rows'[i].diff
          /\ rows'[i].old => rows[i].old]_vars

----------------------------------------------------------------------------
(* The inductive invariant *)

\* A server that answers from the index found it whole, or filled it, or had an empty log
\* to begin with; one that opens an empty index has read what it lacks.
ServersAreWhole ==
    \A s \in Servers :
        /\ proc[s].stage = "opening" => Gap \subseteq proc[s].read
        /\ proc[s].stage \in {"up", "written"} /\ proc[s].db => Gap = {}

IInv ==
    /\ TypeOK
    /\ proc[Sidecar].stage \in {"down", "up"} /\ ~proc[Sidecar].db
    /\ BackfillIsWhole
    /\ ServersAreWhole
=============================================================================
