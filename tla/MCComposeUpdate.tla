-------------------------- MODULE MCComposeUpdate --------------------------
(***************************************************************************)
(* A small instance of ComposeUpdate: two refs of two repositories, and    *)
(* three services that may share a ref.  s1 and s3 are the `web` services  *)
(* of two compose projects; `up` may pull for s2 and s3.                   *)
(***************************************************************************)
EXTENDS ComposeUpdate, TLC

CONSTANTS s1, s2, s3, web, db

MCRepoOf == [r \in Refs |-> r]

MCNameOf == [s \in Services |-> IF s = s2 THEN db ELSE web]

MCUpPulls == {s2, s3}

\* A repository has the name of its ref.
Symmetry == {p @@ q @@ r : p \in Permutations(Updates), q \in Permutations(Images),
                           r \in Permutations(Refs)}
=============================================================================
