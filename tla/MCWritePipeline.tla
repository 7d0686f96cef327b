-------------------------- MODULE MCWritePipeline --------------------------
(***************************************************************************)
(* Small instances of WritePipeline: a host file h and a container file g  *)
(* of the same path; text contents a, b, c, a binary content z (not valid  *)
(* utf8) and a content l that is large and beyond MAX_DIFF_LINES.          *)
(***************************************************************************)
EXTENDS WritePipeline, TLC

CONSTANTS h, g, a, b, c, z, l, zz

\* The container file's directory sorts before the host file's.
MCKeyRank == [k \in Targets |-> IF k = h THEN Cardinality(Targets) ELSE 1]

\* The bytes of z do not survive a round trip through a utf8 string.
MCUtf8 == [x \in Content |-> IF x = z THEN zz ELSE x]

MCHostPath == [k \in Targets |-> h]

Symmetry == Permutations(Clients)
=============================================================================
