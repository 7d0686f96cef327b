----------------------------- MODULE MCAdvisors -----------------------------
(* What is asked before anything is changed: the tools compose_preflight and             *)
(* image_updates, and the breaker in front of every rollback, RollbackBreaker.           *)
(* A behaviour is of one of them, with the others at rest: a call of image_updates in a  *)
(* guest without a compose file, a call of compose_preflight in a guest whose tags Diun  *)
(* does not track, or the life of the breaker.                                           *)
EXTENDS ComposePreflight, ImageUpdates, RollbackBreaker, TLC

CONSTANTS a, b, c, na, nb, nc, x, y, p, l, web, db, A, B

MCServiceOf == (na :> a) @@ (nb :> b) @@ (nc :> c)
MCRefOf == (x :> web) @@ (y :> db) @@ (p :> web) @@ (l :> db)
MCContentOf == (1 :> A) @@ (2 :> A) @@ (3 :> B)

\* BOUND: of the running stack's services one at most is on the guest's network or joins
\* another by its container_name.
OddNets == {s \in Present(disk) : disk[s].net \in {"host"} \cup ContainerNames}

AdvisorsInit == PreflightInit /\ UpdatesInit /\ Init /\ Cardinality(OddNets) <= 1

Untracked == diun = [r \in Refs |-> None]
PreflightRests == check.pc = "idle" /\ turns = 0
UpdatesRests == ask.pc = "idle" /\ moves = 0
BreakerRests == <<now, attempts, updating>> = <<0, 0, [u \in Updates |-> NotUpdating]>>

AdvisorsNext ==
    \/ Untracked /\ UpdatesRests /\ BreakerRests /\ PreflightNext /\ UNCHANGED <<updatesVars, vars>>
    \/ Present(disk) = {} /\ PreflightRests /\ BreakerRests /\ UpdatesNext /\ UNCHANGED <<preflightVars, vars>>
    \/ Untracked /\ Present(disk) = {} /\ PreflightRests /\ UpdatesRests /\ Next
       /\ UNCHANGED <<preflightVars, updatesVars>>

AdvisorsSpec == AdvisorsInit /\ [][AdvisorsNext]_<<preflightVars, updatesVars, vars>>

\* A permutation of the services takes their container names with them.
WithNames(perm) ==
    perm @@ [n \in ContainerNames |-> CHOOSE m \in ContainerNames : ServiceOf[m] = perm[ServiceOf[n]]]
Symmetry == {WithNames(perm) : perm \in Permutations(Services)} \cup Permutations(Updates)
=============================================================================
