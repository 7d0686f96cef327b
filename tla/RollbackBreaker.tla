-------------------------- MODULE RollbackBreaker --------------------------
(***************************************************************************)
(* The rollback circuit breaker, guardrails/rollbackBreaker.ts: a sliding  *)
(* window of attempts per target, shared by every rollback tool.           *)
(*                                                                         *)
(* revert_file, snapshot_rollback and guest_backup_restore call check,     *)
(* which records the attempt and answers at once.  compose_update peeks    *)
(* when it starts and checks only if it rolls back, many awaits later.     *)
(* With overrideCircuitBreaker a rollback verb asks and records nothing,   *)
(* so it is no step here; compose_update skips the peek and still checks.  *)
(***************************************************************************)
EXTENDS Naturals, FiniteSets

CONSTANTS
    Targets,      \* keys of the rollback verbs: host/.., pct/.., guest/..
    UpdateKeys,   \* keys of compose_update: compose/<vmid>/<service>
    Updates,      \* compose_update calls that can be in flight together
    Limit,        \* cfg.guardrails.rollbackBreaker.limit
    WindowMs,     \* cfg.guardrails.rollbackBreaker.windowMs
    Enabled,      \* cfg.guardrails.rollbackBreaker.enabled
    NotUpdating,  \* updating[u] of an update that is not past the gate
    MaxNow,       \* BOUND: the clock
    MaxAttempts   \* BOUND: attempts in a behaviour

ASSUME BreakerAssumption ==
    /\ IsFiniteSet(Updates)
    /\ Targets \cap UpdateKeys = {}
    /\ NotUpdating \notin UpdateKeys
    /\ Limit \in Nat \ {0}
    /\ WindowMs \in Nat \ {0}
    /\ Enabled \in BOOLEAN
    /\ MaxNow \in Nat /\ MaxAttempts \in Nat

BreakerKeys == Targets \cup UpdateKeys

VARIABLES
    now,       \* Date.now()
    history,   \* key -> the attempts the breaker remembers
    updating,  \* update -> the service it let through peek, or NotUpdating
    attempts,  \* attempts so far: their ids
    asked,     \* key -> every attempt recorded since the start (history variable)
    admitted,  \* target -> attempts that check let through (history variable)
    rolled     \* service -> rollbacks counted without override (history variable)

vars == <<now, history, updating, attempts, asked, admitted, rolled>>

\* An entry of the number[] under a key; the id keeps equal timestamps apart.
Attempt == [id : 1 .. MaxAttempts, t : 0 .. MaxNow]

Init ==
    /\ now = 0
    /\ history = [k \in BreakerKeys |-> {}]
    /\ updating = [u \in Updates |-> NotUpdating]
    /\ attempts = 0
    /\ asked = [k \in BreakerKeys |-> {}]
    /\ admitted = [k \in Targets |-> {}]
    /\ rolled = [k \in UpdateKeys |-> {}]

\* Mutant: the window has no start.
EverInWindow(A) == {a \in A : a.t <= now}

\* t >= now - windowMs
InWindow(A) == {a \in A : a.t + WindowMs >= now}

\* Mutant: trips one attempt later.
TrippedLate(A) == Enabled /\ Cardinality(InWindow(A)) > Limit

\* evaluateRollbackBreaker
Tripped(A) == Enabled /\ Cardinality(InWindow(A)) >= Limit

ThisAttempt == [id |-> attempts + 1, t |-> now]

\* check: prune, record this attempt.  Disabled: a no-op.
Recorded(k) == InWindow(history[k]) \cup {ThisAttempt}

Check(k) ==
    /\ attempts < MaxAttempts
    /\ attempts' = attempts + 1
    /\ history' = IF Enabled THEN [history EXCEPT ![k] = Recorded(k)] ELSE history
    /\ asked' = [asked EXCEPT ![k] = @ \cup {ThisAttempt}]

\* A rollback verb: check, and go on only if the verdict is not tripped.
RollbackVerb(k) ==
    /\ Check(k)
    /\ admitted' = IF Enabled /\ Tripped(Recorded(k)) THEN admitted
                   ELSE [admitted EXCEPT ![k] = @ \cup {ThisAttempt}]
    /\ UNCHANGED <<now, updating, rolled>>

\* Mutant: the gate of compose_update is left out.
UpdateBeginUngated(u, k) ==
    /\ updating[u] = NotUpdating
    /\ updating' = [updating EXCEPT ![u] = k]
    /\ UNCHANGED <<now, history, attempts, asked, admitted, rolled>>

\* compose_update starts: peek, without recording.
UpdateBegin(u, k) ==
    /\ updating[u] = NotUpdating
    /\ ~Tripped(history[k])
    /\ updating' = [updating EXCEPT ![u] = k]
    /\ UNCHANGED <<now, history, attempts, asked, admitted, rolled>>

\* compose_update fails its health gate and has rolled back, or cannot because the
\* ref changed; either way it is past the point of refusal and check only records.
UpdateRollsBack(u) ==
    /\ updating[u] # NotUpdating
    /\ Check(updating[u])
    /\ rolled' = [rolled EXCEPT ![updating[u]] = @ \cup {ThisAttempt}]
    /\ updating' = [updating EXCEPT ![u] = NotUpdating]
    /\ UNCHANGED <<now, admitted>>

\* compose_update with overrideCircuitBreaker rolls back: no peek, but recorded.
OverriddenRollsBack(k) ==
    /\ Check(k)
    /\ UNCHANGED <<now, updating, admitted, rolled>>

\* compose_update ends without a counted rollback: healthy, already current,
\* thrown, or rolled back with only the caller's probe failing on both images.
UpdateEnds(u) ==
    /\ updating[u] # NotUpdating
    /\ updating' = [updating EXCEPT ![u] = NotUpdating]
    /\ UNCHANGED <<now, history, attempts, asked, admitted, rolled>>

\* Time passes: the wall clock is taken not to run backwards.
Tick ==
    /\ now < MaxNow
    /\ now' = now + 1
    /\ UNCHANGED <<history, updating, attempts, asked, admitted, rolled>>

\* The process restarts: the map is gone, and so are the calls in flight.
Restart ==
    /\ history' = [k \in BreakerKeys |-> {}]
    /\ updating' = [u \in Updates |-> NotUpdating]
    /\ asked' = [k \in BreakerKeys |-> {}]
    /\ admitted' = [k \in Targets |-> {}]
    /\ rolled' = [k \in UpdateKeys |-> {}]
    /\ UNCHANGED <<now, attempts>>

Next ==
    \/ \E k \in Targets : RollbackVerb(k)
    \/ \E u \in Updates, k \in UpdateKeys : UpdateBegin(u, k)
    \/ \E u \in Updates : UpdateRollsBack(u) \/ UpdateEnds(u)
    \/ \E k \in UpdateKeys : OverriddenRollsBack(k)
    \/ Tick
    \/ Restart

Spec == Init /\ [][Next]_vars

----------------------------------------------------------------------------
(* Properties *)

TypeOK ==
    /\ now \in 0 .. MaxNow
    /\ history \in [BreakerKeys -> SUBSET Attempt]
    /\ updating \in [Updates -> UpdateKeys \cup {NotUpdating}]
    /\ attempts \in 0 .. MaxAttempts
    /\ asked \in [BreakerKeys -> SUBSET Attempt]
    /\ admitted \in [Targets -> SUBSET Attempt]
    /\ rolled \in [UpdateKeys -> SUBSET Attempt]

\* The thrash loop is cut: of the rollback verbs on one target that did not
\* override the breaker, fewer than limit went through in any windowMs, although
\* pruning forgets attempts and refused attempts are recorded like the others.
FewerThanLimitAdmitted ==
    Enabled => \A k \in Targets : Cardinality(InWindow(admitted[k])) < Limit

\* compose_update asks before and records after, so concurrent updates of one
\* service can each pass the gate: the rollbacks it counts for a service
\* within windowMs exceed limit - 1 by at most the number of updates in flight together.
ConcurrentUpdatesOvershoot ==
    Enabled => \A k \in UpdateKeys :
        Cardinality(InWindow(rolled[k])) <= Limit - 1 + Cardinality(Updates)

\* The window forgives: when nothing was attempted on a target for windowMs, the
\* next rollback is not refused for what happened before (limit 1 refuses all).
QuietTargetIsForgiven ==
    \A k \in Targets :
        (Limit > 1 /\ \A a \in asked[k] : a.t + WindowMs < now) => ~Tripped(Recorded(k))

----------------------------------------------------------------------------
(* The inductive invariant *)

\* What is in the window survives the prune, and what is remembered was asked.
Remembered ==
    Enabled =>
        /\ \A k \in Targets : InWindow(admitted[k]) \subseteq history[k]
        /\ \A k \in UpdateKeys : InWindow(rolled[k]) \subseteq history[k]
        /\ \A k \in BreakerKeys : history[k] \subseteq asked[k]

FiniteHistories ==
    /\ \A k \in BreakerKeys : IsFiniteSet(history[k])
    /\ \A k \in Targets : IsFiniteSet(admitted[k])
    /\ \A k \in UpdateKeys : IsFiniteSet(rolled[k])

PastGate(k) == {u \in Updates : updating[u] = k}

\* Every update past the gate is a rollback that may still be recorded.
OvershootBudget ==
    Enabled => \A k \in UpdateKeys :
        Cardinality(InWindow(rolled[k])) + Cardinality(PastGate(k))
            <= Limit - 1 + Cardinality(Updates)

IInv == TypeOK /\ FiniteHistories /\ Remembered /\ FewerThanLimitAdmitted /\ OvershootBudget
=============================================================================
