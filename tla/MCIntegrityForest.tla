------------------------- MODULE MCIntegrityForest -------------------------
(***************************************************************************)
(* A small forest: one watched directory of the host with a sensitive      *)
(* config file, and a container with a plain file.                         *)
(***************************************************************************)
EXTENDS IntegrityForest, TLC

CONSTANTS etc, conf, host, guest, root, file

MCParent == [n \in {etc, conf, host, guest, file} |->
                CASE n = conf -> etc [] n = etc -> host [] n = file -> guest [] OTHER -> root]

MCAbove ==
    [n \in {etc, conf, host, guest, root, file} |->
        CASE n = conf -> {etc, host, root} [] n = etc -> {host, root} [] n = file -> {guest, root}
          [] n = root -> {} [] OTHER -> {root}]

MCPathOrder == <<root, host, etc, conf, guest, file>>

Symmetry == Permutations(CallIds) \cup Permutations(FileContents) \cup Permutations(Mtimes)
=============================================================================
