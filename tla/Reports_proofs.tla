--------------------------- MODULE Reports_proofs ---------------------------
(***************************************************************************)
(* Proofs about the tools that look at the node and report.                *)
(*                                                                         *)
(* image_updates and the preflight of a compose update, for every set of   *)
(* containers, refs, images and services and any number of changes during  *)
(* a call.                                                                 *)
(*                                                                         *)
(* The integrity forest, for every tree of paths, set of containers and    *)
(* number of calls: the hashes of a level that nobody grafted are those of *)
(* its leaves, so that a diff names every leaf that differs; an accept of  *)
(* the whole forest that nothing disturbed leaves nothing to report; and   *)
(* an auto-accept that nothing disturbed hides no drift but what is at or  *)
(* below the nodes that it chose to fold.                                  *)
(***************************************************************************)
EXTENDS ComposePreflight, ImageUpdates, IntegrityForest, FiniteSetTheorems, WellFoundedInduction, TLAPS

----------------------------------------------------------------------------
(* image_updates: the types *)

\* What a call of image_updates reads and notes down has its type.
LEMMA CallsAreTyped == UpdatesTypeOK /\ Call => ask' \in Asking
  <1> SUFFICES ASSUME UpdatesTypeOK, Call PROVE ask' \in Asking
    OBVIOUS
  <1> USE UpdatesAssumption
  <1>0. ask \in Asking
    BY DEF UpdatesTypeOK
  <1>1. CASE \E s \in Sources : Ask(s)
    BY <1>0, <1>1 DEF Ask, Asking
  <1>2. CASE \E ok \in BOOLEAN : Scan(ok)
    <2>1. running \in [Containers -> Contents \cup {None}]
      BY DEF UpdatesTypeOK
    <2>2. \/ ask' = [ask EXCEPT !.pc = "inspect", !.ids = running]
          \/ ask' = [ask EXCEPT !.pc = "ended"]
      BY <1>2 DEF Scan
    <2> QED
      BY <1>0, <2>1, <2>2 DEF Asking
  <1>3. CASE \E ok \in BOOLEAN : InspectImages(ok)
    <2>1. PICK local \in [Containers -> Digests \cup {None}], missing \in SUBSET Containers,
               alone \in SUBSET Containers :
            ask' = [ask EXCEPT !.pc = "registry", !.missing = missing, !.local = local, !.alone = alone]
      <3>1. PICK ok \in BOOLEAN : InspectImages(ok)
        BY <1>3
      <3> DEFINE images(c) == held[RefOf[c]][Inspected(c)]
                 missing == {c \in Containers : ~ok \/ images(c) = {}}
                 given == Containers \ (missing \cup Local)
      <3>2. PICK first \in [given -> Digests] :
              ask' = [ask EXCEPT
                    !.pc = "registry", !.missing = missing,
                    !.local = [c \in Containers |-> IF c \in given THEN first[c] ELSE None],
                    !.alone = {c \in given : Cardinality(images(c)) = 1}]
        BY <3>1 DEF InspectImages
      <3> DEFINE local == [c \in Containers |-> IF c \in given THEN first[c] ELSE None]
                 alone == {c \in given : Cardinality(images(c)) = 1}
      <3>3. local \in [Containers -> Digests \cup {None}]
        BY <3>2
      <3>4. missing \in SUBSET Containers /\ alone \in SUBSET Containers
        OBVIOUS
      <3>5. ask' = [ask EXCEPT !.pc = "registry", !.missing = missing, !.local = local, !.alone = alone]
        BY <3>2
      <3> HIDE DEF local, alone, missing
      <3> QED
        BY <3>3, <3>4, <3>5
    <2> QED
      BY <1>0, <2>1 DEF Asking
  <1>4. CASE \E failed, cut \in SUBSET Refs : CheckRegistry(failed, cut)
    <2>1. PICK remote \in [Refs -> Digests \cup {None, Failed}] :
            ask' = [ask EXCEPT !.pc = "diun", !.remote = remote]
      <3>1. PICK failed \in SUBSET Refs, cut \in SUBSET Refs : CheckRegistry(failed, cut)
        BY <1>4
      <3> DEFINE remote == [r \in Refs |->
                IF ask.source = "diun" \/ r \notin Checkable \ cut THEN None
                ELSE IF r \in failed THEN Failed ELSE registry[r]]
      <3>2. registry \in [Refs -> Digests]
        BY DEF UpdatesTypeOK
      <3>3. remote \in [Refs -> Digests \cup {None, Failed}]
        BY <3>2
      <3>4. ask' = [ask EXCEPT !.pc = "diun", !.remote = remote]
        BY <3>1 DEF CheckRegistry
      <3> HIDE DEF remote
      <3> QED
        BY <3>3, <3>4
    <2> QED
      BY <1>0, <2>1 DEF Asking
  <1>5. CASE \E ok \in BOOLEAN : ReadDiun(ok)
    <2>1. diun \in [Refs -> Digests \cup {None}]
      BY DEF UpdatesTypeOK
    <2>2. [r \in Refs |-> None] \in [Refs -> Digests \cup {None}]
      OBVIOUS
    <2> QED
      BY <1>0, <1>5, <2>1, <2>2 DEF ReadDiun, Asking
  <1> QED
    BY <1>1, <1>2, <1>3, <1>4, <1>5 DEF Call

\* The steps of the call leave the guest and the registry alone.
LEMMA CallsOnlyRead == Call => UNCHANGED <<running, held, tagged, registry, diun, moves>>
  BY DEF Call, guestVars, Ask, Scan, InspectImages, CheckRegistry, ReadDiun

\* Every step keeps the types.
LEMMA UpdatesTypeStep == UpdatesTypeOK /\ [UpdatesNext]_updatesVars => UpdatesTypeOK'
  <1> SUFFICES ASSUME UpdatesTypeOK, [UpdatesNext]_updatesVars PROVE UpdatesTypeOK'
    OBVIOUS
  <1> USE UpdatesAssumption
  <1>1. CASE UNCHANGED updatesVars
    BY <1>1 DEF updatesVars, UpdatesTypeOK
  <1>2. CASE UpdatesNext
    <2>1. /\ running' \in [Containers -> Contents]
          /\ held' \in [Refs -> [Contents -> SUBSET Digests]]
          /\ tagged' \in [Refs -> Contents]
          /\ registry' \in [Refs -> Digests]
          /\ diun' \in [Refs -> Digests \cup {None}]
          /\ moves' \in 0 .. MaxMoves
          /\ ask' \in Asking
      <3>1. CASE Call
        BY <3>1, CallsAreTyped, CallsOnlyRead DEF UpdatesTypeOK
      <3>2. ASSUME Move PROVE moves' \in 0 .. MaxMoves
        BY <3>2 DEF Move, UpdatesTypeOK
      <3>3. ASSUME NEW r \in Refs, Pull(r)
            PROVE  /\ held' \in [Refs -> [Contents -> SUBSET Digests]]
                   /\ tagged' \in [Refs -> Contents]
        <4>1. registry[r] \in Digests /\ ContentOf[registry[r]] \in Contents
          BY DEF UpdatesTypeOK
        <4> QED
          BY <3>3, <4>1 DEF Pull, UpdatesTypeOK
      <3>4. CASE \E r \in Refs : Pull(r)
        BY <3>2, <3>3, <3>4 DEF Pull, UpdatesTypeOK
      <3>5. CASE \E r \in Refs : DiunScans(r)
        BY <3>2, <3>5 DEF DiunScans, UpdatesTypeOK
      <3>6. CASE \E r \in Refs, d \in Digests : Publish(r, d)
        BY <3>2, <3>6 DEF Publish, UpdatesTypeOK
      <3>7. CASE \E r \in Refs, k \in Contents : Prune(r, k)
        BY <3>2, <3>7 DEF Prune, UpdatesTypeOK
      <3>8. CASE \E c \in Containers : Replace(c)
        BY <3>2, <3>8 DEF Replace, UpdatesTypeOK
      <3> QED
        BY <1>2, <3>1, <3>4, <3>5, <3>6, <3>7, <3>8 DEF UpdatesNext, Others
    <2>2. \A c \in Containers : Standing(c)' \in Contents \X {"same", "differs"}
      BY <2>1 DEF Standing
    <2>3. was \in [Containers -> SUBSET (Contents \X {"same", "differs"})]
      BY DEF UpdatesTypeOK
    <2>4. was' \in [Containers -> SUBSET (Contents \X {"same", "differs"})]
      BY <1>2, <2>2, <2>3 DEF UpdatesNext
    <2> QED
      BY <2>1, <2>4 DEF UpdatesTypeOK
  <1> QED
    BY <1>1, <1>2

----------------------------------------------------------------------------
(* image_updates: images and history *)

\* A digest is only ever held by the image it leads to.
LEMMA HeldStep ==
    UpdatesTypeOK /\ HeldByContent /\ [UpdatesNext]_updatesVars => HeldByContent'
  <1> SUFFICES ASSUME UpdatesTypeOK, HeldByContent, [UpdatesNext]_updatesVars,
                      NEW r \in Refs, NEW k \in Contents, NEW d \in held'[r][k]
               PROVE  ContentOf[d] = k
    BY DEF HeldByContent
  <1>1. CASE held' = held
    BY <1>1 DEF HeldByContent
  <1>2. ASSUME NEW q \in Refs, Pull(q) PROVE ContentOf[d] = k
    <2>1. held' = [held EXCEPT ![q][ContentOf[registry[q]]] = @ \cup {registry[q]}]
      BY <1>2 DEF Pull
    <2>2. d \in held[r][k] \/ (k = ContentOf[registry[q]] /\ d = registry[q])
      BY <2>1 DEF UpdatesTypeOK
    <2> QED
      BY <2>2 DEF HeldByContent
  <1>3. ASSUME NEW q \in Refs, NEW j \in Contents, Prune(q, j) PROVE ContentOf[d] = k
    <2>1. held' = [held EXCEPT ![q][j] = {}]
      BY <1>3 DEF Prune
    <2>2. d \in held[r][k]
      BY <2>1 DEF UpdatesTypeOK
    <2> QED
      BY <2>2 DEF HeldByContent
  <1> QED
    BY <1>1, <1>2, <1>3, CallsOnlyRead
       DEF UpdatesNext, Others, updatesVars, DiunScans, Publish, Replace

\* The history has the present in it, and forgets nothing after the scan.
LEMMA WasStep ==
    ASSUME UpdatesTypeOK, WasIsCurrent, [UpdatesNext]_updatesVars
    PROVE  /\ WasIsCurrent'
           /\ ask'.pc \notin {"idle", "scan"} => \A c \in Containers : was[c] \subseteq was'[c]
  <1>1. CASE UNCHANGED updatesVars
    BY <1>1 DEF updatesVars, WasIsCurrent, Standing
  <1>2. CASE UpdatesNext
    <2> DEFINE now(c) == Standing(c)'
    <2>1. was' = [c \in Containers |->
                    IF ask'.pc \in {"idle", "scan"} THEN {now(c)} ELSE was[c] \cup {now(c)}]
      BY <1>2 DEF UpdatesNext
    <2>2. \A c \in Containers : now(c) \in was'[c]
      BY <2>1
    <2> HIDE DEF now
    <2>3. ask'.pc \notin {"idle", "scan"} => \A c \in Containers : was[c] \subseteq was'[c]
      BY <2>1
    <2> QED
      BY <2>2, <2>3 DEF WasIsCurrent, now
  <1> QED
    BY <1>1, <1>2

\* With the registry's tag on the image that runs, a replacement makes the two differ.
LEMMA ReplacedDiffers ==
    ASSUME UpdatesTypeOK, HeldByContent, WasIsCurrent, NEW c \in Containers, ~Differed(c),
           running'[c] # running[c], running'[c] \in Contents, held' = held, registry' = registry
    PROVE  Standing(c)'[2] = "differs"
  <1>1. Standing(c)[2] = "same"
    <2>1. Standing(c) \in was[c] /\ was[c] \subseteq Contents \X {"same", "differs"}
      BY DEF WasIsCurrent, UpdatesTypeOK
    <2> QED
      BY <2>1 DEF Differed
  <1>2. registry[RefOf[c]] \in held[RefOf[c]][running[c]]
    BY <1>1 DEF Standing
  <1>3. RefOf[c] \in Refs /\ running[c] \in Contents
    BY UpdatesAssumption DEF UpdatesTypeOK
  <1>4. ContentOf[registry[RefOf[c]]] = running[c]
    BY <1>2, <1>3 DEF HeldByContent
  <1>5. registry[RefOf[c]] \notin held[RefOf[c]][running'[c]]
    BY <1>3, <1>4 DEF HeldByContent
  <1> QED
    BY <1>5 DEF Standing

\* A container that has not been recreated runs what the scan found, and one that never
\* differed from the registry still does not.
UntoldIsNow ==
    \A c \in Containers :
        /\ ~Recreated(c) => running[c] = ask.ids[c]
        /\ ~Differed(c) => registry[RefOf[c]] \in held[RefOf[c]][running[c]]

LEMMA HistoryTells == UpdatesTypeOK /\ WasIsCurrent => UntoldIsNow
  <1> SUFFICES ASSUME UpdatesTypeOK, WasIsCurrent, NEW c \in Containers
               PROVE  /\ ~Recreated(c) => running[c] = ask.ids[c]
                      /\ ~Differed(c) => registry[RefOf[c]] \in held[RefOf[c]][running[c]]
    BY DEF UntoldIsNow
  <1>1. Standing(c) \in was[c] /\ was[c] \subseteq Contents \X {"same", "differs"}
    BY DEF WasIsCurrent, UpdatesTypeOK
  <1>2. Standing(c)[1] = running[c]
    BY DEF Standing
  <1>3. ~Differed(c) => Standing(c)[2] = "same"
    BY <1>1 DEF Differed
  <1>4. ~Recreated(c) => running[c] = ask.ids[c]
    BY <1>1, <1>2 DEF Recreated
  <1> QED
    BY <1>3, <1>4 DEF Standing

\* What the others do keeps what a container's readings say of it.
LEMMA OthersKeepScanned ==
    ASSUME UpdatesIInv, [UpdatesNext]_updatesVars, Others, NEW c \in Containers,
           ask.pc \notin {"idle", "scan"}, ScannedFits(c), was[c] \subseteq was'[c], WasIsCurrent',
           UpdatesTypeOK', UntoldIsNow'
    PROVE  ScannedFits(c)' /\ (Recreated(c) => Recreated(c)') /\ (Differed(c) => Differed(c)')
  <1>1. ask' = ask
    BY DEF Others, Pull, DiunScans, Publish, Prune, Replace
  <1>2. (Recreated(c) => Recreated(c)') /\ (Differed(c) => Differed(c)')
    BY <1>1 DEF Recreated, Differed
  <1>3. Recreated(c)' \/ running'[c] = ask.ids[c]
    BY <1>1 DEF UntoldIsNow
  <1>4. Differed(c)' \/ running'[c] = ask.ids[c]
    <2>1. CASE running'[c] = running[c]
      BY <1>2, <2>1 DEF ScannedFits
    <2>2. CASE running'[c] # running[c] /\ ~Differed(c)
      <3>1. held' = held /\ registry' = registry
        BY <2>2 DEF Others, Pull, DiunScans, Publish, Prune, Replace
      <3>2. running'[c] \in Contents
        BY DEF UpdatesTypeOK
      <3>3. Standing(c)'[2] = "differs"
        BY <2>2, <3>1, <3>2, ReplacedDiffers DEF UpdatesIInv
      <3>4. Standing(c)' \in was'[c]
        BY DEF WasIsCurrent
      <3> QED
        BY <3>3, <3>4 DEF Differed
    <2> QED
      BY <1>2, <2>1, <2>2
  <1> QED
    BY <1>1, <1>2, <1>3, <1>4 DEF ScannedFits

LEMMA OthersKeepInspected ==
    ASSUME UpdatesIInv, [UpdatesNext]_updatesVars, Others, NEW c \in Containers,
           ask.pc \notin {"idle", "scan"}, ScannedFits(c), InspectedFits(c), ask.local[c] # None,
           was[c] \subseteq was'[c], WasIsCurrent', UpdatesTypeOK', UntoldIsNow'
    PROVE  InspectedFits(c)'
  <1> USE UpdatesAssumption
  <1> DEFINE r == RefOf[c]
             k == ask.ids[c]
  <1>1. ask' = ask
    BY DEF Others, Pull, DiunScans, Publish, Prune, Replace
  <1>2. ScannedFits(c)' /\ (Recreated(c) => Recreated(c)') /\ (Differed(c) => Differed(c)')
    BY OthersKeepScanned
  <1>3. r \in Refs /\ k \in Contents /\ ask.local[c] \in Digests
    BY DEF ScannedFits, UpdatesIInv, UpdatesTypeOK, Asking
  <1>4. running[c] = k => held[r][k] \subseteq held'[r][k]
    <2>1. ASSUME NEW q \in Refs, Pull(q) PROVE held[r][k] \subseteq held'[r][k]
      <3>1. held' = [held EXCEPT ![q][ContentOf[registry[q]]] = @ \cup {registry[q]}]
        BY <2>1 DEF Pull
      <3> QED
        BY <1>3, <3>1 DEF UpdatesIInv, UpdatesTypeOK
    <2>2. ASSUME NEW q \in Refs, NEW j \in Contents, Prune(q, j), running[c] = k
          PROVE  held[r][k] \subseteq held'[r][k]
      <3>1. held' = [held EXCEPT ![q][j] = {}] /\ (q = r => j # k)
        BY <2>2 DEF Prune
      <3> QED
        BY <1>3, <3>1 DEF UpdatesIInv, UpdatesTypeOK
    <2> QED
      BY <2>1, <2>2 DEF Others, DiunScans, Publish, Replace
  <1>5. Recreated(c)' \/ ask.local[c] \in held'[r][k]
    <2>1. CASE Recreated(c)
      BY <1>2, <2>1
    <2>2. CASE ~Recreated(c)
      <3>1. running[c] = k
        BY <2>2, HistoryTells DEF UpdatesIInv, UntoldIsNow
      <3> QED
        BY <1>4, <2>2, <3>1 DEF InspectedFits
    <2> QED
      BY <2>1, <2>2
  <1>6. ASSUME c \in ask.alone, ~Differed(c)'
        PROVE  held'[r][k] = {ask.local[c]} /\ registry'[r] = ask.local[c]
    <2>1. ~Differed(c)
      BY <1>2, <1>6
    <2>2. held[r][k] = {ask.local[c]} /\ registry[r] = ask.local[c]
      BY <1>6, <2>1 DEF InspectedFits
    <2>3. running'[c] = k /\ running[c] = k
      BY <1>1, <1>2, <1>6, <2>1 DEF ScannedFits
    <2>4. registry'[r] \in held'[r][k]
      BY <1>6, <2>3 DEF UntoldIsNow
    <2>5. held'[r][k] \subseteq held[r][k] \cup {registry[r]}
      <3>1. ASSUME NEW q \in Refs, Pull(q) PROVE held'[r][k] \subseteq held[r][k] \cup {registry[r]}
        <4>1. held' = [held EXCEPT ![q][ContentOf[registry[q]]] = @ \cup {registry[q]}]
          BY <3>1 DEF Pull
        <4> QED
          BY <1>3, <4>1 DEF UpdatesIInv, UpdatesTypeOK
      <3>2. ASSUME NEW q \in Refs, NEW j \in Contents, Prune(q, j)
            PROVE  held'[r][k] \subseteq held[r][k] \cup {registry[r]}
        <4>1. held' = [held EXCEPT ![q][j] = {}]
          BY <3>2 DEF Prune
        <4> QED
          BY <1>3, <4>1 DEF UpdatesIInv, UpdatesTypeOK
      <3> QED
        BY <3>1, <3>2 DEF Others, DiunScans, Publish, Replace
    <2>6. held[r][k] \subseteq held'[r][k]
      BY <1>4, <2>3
    <2> QED
      BY <2>2, <2>4, <2>5, <2>6
  <1> QED
    BY <1>1, <1>5, <1>6 DEF InspectedFits

\* The others keep what holds of the call, at whatever stage it is.
LEMMA OthersStep ==
    ASSUME UpdatesIInv, [UpdatesNext]_updatesVars, Others, UpdatesTypeOK', WasIsCurrent',
           UntoldIsNow'
    PROVE  AskFits'
  <1>1. ask' = ask
    BY DEF Others, Pull, DiunScans, Publish, Prune, Replace
  <1>2. CASE ask.pc \in {"idle", "scan"}
    BY <1>1, <1>2 DEF AskFits
  <1>3. CASE ask.pc \notin {"idle", "scan"}
    <2>1. \A c \in Containers : was[c] \subseteq was'[c]
      BY <1>1, <1>3, WasStep DEF UpdatesIInv
    <2>2. ASSUME NEW c \in Containers, ScannedFits(c)
          PROVE  ScannedFits(c)' /\ (Recreated(c) => Recreated(c)') /\ (Differed(c) => Differed(c)')
      BY <1>3, <2>1, <2>2, OthersKeepScanned
    <2>3. ASSUME NEW c \in Containers, ScannedFits(c), InspectedFits(c), ask.local[c] # None
          PROVE  InspectedFits(c)'
      BY <1>3, <2>1, <2>3, OthersKeepInspected
    <2>4. ASSUME NEW c \in Containers, ScannedFits(c), ComparedFits(c)
          PROVE  ComparedFits(c)'
      <3>1. (Recreated(c) => Recreated(c)') /\ (Differed(c) => Differed(c)')
        BY <2>2, <2>4
      <3>2. <<ask.ids[c], "same">> \in was[c] => <<ask.ids[c], "same">> \in was'[c]
        BY <2>1
      <3> QED
        BY <1>1, <2>4, <3>1, <3>2 DEF ComparedFits
    <2> QED
      BY <1>1, <2>2, <2>3, <2>4 DEF UpdatesIInv, AskFits
  <1> QED
    BY <1>2, <1>3

----------------------------------------------------------------------------
(* image_updates: the readings *)

\* Reading changes nothing else, and the history can only gain the present once more.
LEMMA ReadingKeepsHistory ==
    ASSUME UpdatesTypeOK, WasIsCurrent, UpdatesNext, Call, ask'.pc \notin {"idle", "scan"}
    PROVE  was' = was
  <1>1. ASSUME NEW c \in Containers PROVE Standing(c)' = Standing(c)
    BY CallsOnlyRead DEF Standing
  <1>2. was' = [c \in Containers |-> was[c] \cup {Standing(c)'}]
    BY DEF UpdatesNext
  <1>3. was = [c \in Containers |-> was[c]]
    BY DEF UpdatesTypeOK
  <1>4. \A c \in Containers : was[c] \cup {Standing(c)'} = was[c]
    BY <1>1 DEF WasIsCurrent
  <1> QED
    BY <1>2, <1>3, <1>4

\* The scan finds what runs.
LEMMA ScanStep ==
    ASSUME UpdatesIInv, UpdatesNext, NEW ok \in BOOLEAN, Scan(ok)
    PROVE  AskFits'
  <1>1. \/ ask' = [ask EXCEPT !.pc = "inspect", !.ids = running]
        \/ ask' = [ask EXCEPT !.pc = "ended"]
    BY DEF Scan
  <1>2. CASE ask' = [ask EXCEPT !.pc = "ended"]
    BY <1>2 DEF AskFits, UpdatesIInv, UpdatesTypeOK, Asking
  <1>3. CASE ask' = [ask EXCEPT !.pc = "inspect", !.ids = running]
    <2>1. ask'.pc = "inspect" /\ ask'.ids = running
      BY <1>3 DEF UpdatesIInv, UpdatesTypeOK, Asking
    <2>2. running' = running
      BY CallsOnlyRead DEF Call
    <2>3. \A c \in Containers : running[c] \in Contents
      BY DEF UpdatesIInv, UpdatesTypeOK
    <2>4. \A c \in Containers : ScannedFits(c)'
      BY <2>1, <2>2, <2>3 DEF ScannedFits
    <2> QED
      BY <2>1, <2>4 DEF AskFits
  <1> QED
    BY <1>1, <1>2, <1>3

\* The inspection finds a digest of each image that is there and not local.
LEMMA InspectStep ==
    ASSUME UpdatesIInv, UpdatesNext, NEW ok \in BOOLEAN, InspectImages(ok)
    PROVE  AskFits'
  <1> USE UpdatesAssumption
  <1> DEFINE images(c) == held[RefOf[c]][ask.ids[c]]
             missing == {c \in Containers : ~ok \/ images(c) = {}}
             given == Containers \ (missing \cup Local)
  <1>1. PICK first \in [given -> Digests] :
          /\ \A c \in given : first[c] \in images(c)
          /\ ask' = [ask EXCEPT
                    !.pc = "registry", !.missing = missing,
                    !.local = [c \in Containers |-> IF c \in given THEN first[c] ELSE None],
                    !.alone = {c \in given : Cardinality(images(c)) = 1}]
    BY DEF InspectImages, Inspected
  <1>2. /\ ask.pc = "inspect" /\ ask \in Asking
        /\ \A c \in Containers : ScannedFits(c)
    BY DEF InspectImages, UpdatesIInv, UpdatesTypeOK, AskFits
  <1>3. /\ ask'.pc = "registry" /\ ask'.missing = missing /\ ask'.ids = ask.ids
        /\ ask'.alone = {c \in given : Cardinality(images(c)) = 1}
        /\ ask'.local = [c \in Containers |-> IF c \in given THEN first[c] ELSE None]
    BY <1>1, <1>2 DEF Asking
  <1>4. \A c \in Containers : /\ c \in given => ask'.local[c] = first[c]
                              /\ c \notin given => ask'.local[c] = None
    BY <1>3
  <1>5. UNCHANGED <<running, held, registry>> /\ was' = was
    BY <1>3, CallsOnlyRead, ReadingKeepsHistory DEF Call, UpdatesIInv
  <1>6. \A c \in Containers : ScannedFits(c)' /\ (Differed(c)' <=> Differed(c))
    BY <1>2, <1>3, <1>5 DEF ScannedFits, Recreated, Differed
  <1>7. \A c \in Containers : ask'.local[c] # None <=> c \notin ask'.missing \cup Local
    <2>1. \A c \in given : first[c] # None
      BY <1>1
    <2> QED
      BY <1>3, <1>4, <2>1
  <1>8. ASSUME NEW c \in Containers, ask'.local[c] # None
        PROVE  InspectedFits(c)'
    <2>1. c \in given /\ ask'.local[c] = first[c] /\ first[c] \in images(c)
      BY <1>1, <1>4, <1>8
    <2>2. ASSUME c \in ask'.alone, ~Differed(c)
          PROVE  images(c) = {first[c]} /\ registry[RefOf[c]] = first[c]
      <3>1. Cardinality(images(c)) = 1
        BY <1>3, <2>2
      <3>2. images(c) \subseteq Digests
        BY <1>2 DEF UpdatesIInv, UpdatesTypeOK, ScannedFits
      <3>3. IsFiniteSet(images(c))
        BY <3>2, FS_Subset
      <3>4. \E x : images(c) = {x}
        BY <3>1, <3>3, FS_Singleton
      <3>5. registry[RefOf[c]] \in images(c)
        <4>1. running[c] = ask.ids[c]
          BY <1>2, <2>2 DEF ScannedFits
        <4> QED
          BY <2>2, <4>1, HistoryTells DEF UpdatesIInv, UntoldIsNow
      <3> QED
        BY <2>1, <3>4, <3>5
    <2> HIDE DEF given, missing
    <2> QED
      BY <1>3, <1>5, <1>6, <2>1, <2>2 DEF InspectedFits
  <1> QED
    BY <1>3, <1>6, <1>7, <1>8 DEF AskFits

\* The registry's answer is compared with what was inspected.
LEMMA RegistryStep ==
    ASSUME UpdatesIInv, UpdatesNext, NEW failed \in SUBSET Refs, NEW cut \in SUBSET Refs,
           CheckRegistry(failed, cut)
    PROVE  AskFits'
  <1> USE UpdatesAssumption
  <1> DEFINE remote == [r \in Refs |->
                IF ask.source = "diun" \/ r \notin Checkable \ cut THEN None
                ELSE IF r \in failed THEN Failed ELSE registry[r]]
  <1>1. ask' = [ask EXCEPT !.pc = "diun", !.remote = remote]
    BY DEF CheckRegistry
  <1>2. /\ \A r \in Refs : remote[r] \in Digests => remote[r] = registry[r]
        /\ ask.source = "diun" => \A r \in Refs : remote[r] = None
    OBVIOUS
  <1> HIDE DEF remote
  <1>3. /\ ask.pc = "registry" /\ ask \in Asking
        /\ \A c \in Containers : ScannedFits(c)
        /\ \A c \in Containers : ask.local[c] # None <=> c \notin ask.missing \cup Local
        /\ \A c \in Containers : ask.local[c] # None => InspectedFits(c)
    BY DEF CheckRegistry, UpdatesIInv, UpdatesTypeOK, AskFits
  <1>4. /\ ask'.pc = "diun" /\ ask'.missing = ask.missing /\ ask'.ids = ask.ids
        /\ ask'.alone = ask.alone /\ ask'.local = ask.local /\ ask'.remote = remote
        /\ ask'.source = ask.source
    BY <1>1, <1>3 DEF Asking
  <1>5. UNCHANGED <<running, held, registry>> /\ was' = was
    BY <1>4, CallsOnlyRead, ReadingKeepsHistory DEF Call, UpdatesIInv
  <1>6. \A c \in Containers : /\ ScannedFits(c)'
                              /\ Differed(c)' <=> Differed(c)
                              /\ Recreated(c)' <=> Recreated(c)
    BY <1>3, <1>4, <1>5 DEF ScannedFits, Recreated, Differed
  <1>7. ASSUME NEW c \in Containers, ask.local[c] # None, remote[RefOf[c]] \in Digests
        PROVE  /\ remote[RefOf[c]] = ask.local[c] => <<ask.ids[c], "same">> \in was[c] \/ Recreated(c)
               /\ remote[RefOf[c]] # ask.local[c] /\ c \in ask.alone => Differed(c)
    <2>1. RefOf[c] \in Refs /\ remote[RefOf[c]] = registry[RefOf[c]] /\ InspectedFits(c)
      BY <1>2, <1>3, <1>7
    <2>2. ASSUME remote[RefOf[c]] = ask.local[c], ~Recreated(c)
          PROVE  <<ask.ids[c], "same">> \in was[c]
      <3>1. running[c] = ask.ids[c]
        BY <2>2, HistoryTells DEF UpdatesIInv, UntoldIsNow
      <3>2. registry[RefOf[c]] \in held[RefOf[c]][running[c]]
        BY <2>1, <2>2, <3>1 DEF InspectedFits
      <3>3. Standing(c) = <<ask.ids[c], "same">>
        BY <3>1, <3>2 DEF Standing
      <3>4. Standing(c) \in was[c]
        BY DEF UpdatesIInv, WasIsCurrent
      <3> QED
        BY <3>3, <3>4
    <2> QED
      BY <2>1, <2>2 DEF InspectedFits
  <1>8. \A c \in Containers : ask.local[c] # None => ComparedFits(c)'
    BY <1>4, <1>5, <1>6, <1>7 DEF ComparedFits
  <1> QED
    BY <1>2, <1>3, <1>4, <1>6, <1>8 DEF AskFits

\* Diun's answer changes nothing of what has been found.
LEMMA DiunStep ==
    ASSUME UpdatesIInv, UpdatesNext, NEW ok \in BOOLEAN, ReadDiun(ok)
    PROVE  AskFits'
  <1>1. PICK seen : ask' = [ask EXCEPT !.pc = "answer", !.seen = seen]
    BY DEF ReadDiun
  <1>2. /\ ask.pc = "diun" /\ ask \in Asking
        /\ \A c \in Containers : ScannedFits(c)
        /\ \A c \in Containers : ask.local[c] # None <=> c \notin ask.missing \cup Local
        /\ \A c \in Containers : ask.local[c] # None => ComparedFits(c)
        /\ ask.source = "diun" => \A r \in Refs : ask.remote[r] = None
    BY DEF ReadDiun, UpdatesIInv, UpdatesTypeOK, AskFits
  <1>3. /\ ask'.pc = "answer" /\ ask'.missing = ask.missing /\ ask'.ids = ask.ids
        /\ ask'.alone = ask.alone /\ ask'.local = ask.local /\ ask'.remote = ask.remote
        /\ ask'.source = ask.source
    BY <1>1, <1>2 DEF Asking
  <1>4. UNCHANGED <<running, held, registry>> /\ was' = was
    BY <1>3, CallsOnlyRead, ReadingKeepsHistory DEF Call, UpdatesIInv
  <1>5. \A c \in Containers : /\ ScannedFits(c)'
                              /\ Differed(c)' <=> Differed(c)
                              /\ Recreated(c)' <=> Recreated(c)
    BY <1>2, <1>3, <1>4 DEF ScannedFits, Recreated, Differed
  <1>6. \A c \in Containers : ask.local[c] # None => ComparedFits(c)'
    BY <1>2, <1>3, <1>4, <1>5 DEF ComparedFits
  <1> QED
    BY <1>2, <1>3, <1>5, <1>6 DEF AskFits

----------------------------------------------------------------------------
(* image_updates: the invariant and what follows from it *)

LEMMA UpdatesInitIInv == UpdatesInit => UpdatesIInv
  <1> SUFFICES ASSUME UpdatesInit PROVE UpdatesIInv
    OBVIOUS
  <1> USE UpdatesAssumption
  <1>1. First \in Digests /\ ContentOf[First] \in Contents
    OBVIOUS
  <1>2. held \in [Refs -> [Contents -> SUBSET Digests]] /\ HeldByContent
    BY <1>1 DEF UpdatesInit, HeldByContent
  <1>3. ask = Unasked /\ ask.pc = "idle" /\ ask \in Asking
    BY DEF UpdatesInit, Unasked, Asking, Sources
  <1>4. \A c \in Containers : Standing(c) = <<ContentOf[First], "same">>
    BY <1>1 DEF UpdatesInit, Standing
  <1>5. WasIsCurrent
    BY <1>4 DEF UpdatesInit, WasIsCurrent
  <1>6. UpdatesTypeOK
    BY <1>1, <1>2, <1>3 DEF UpdatesInit, UpdatesTypeOK
  <1> QED
    BY <1>2, <1>3, <1>5, <1>6 DEF UpdatesIInv, AskFits

\* Every step of the call and of the others keeps UpdatesIInv.
LEMMA UpdatesNextIInv == UpdatesIInv /\ [UpdatesNext]_updatesVars => UpdatesIInv'
  <1> SUFFICES ASSUME UpdatesIInv, [UpdatesNext]_updatesVars PROVE UpdatesIInv'
    OBVIOUS
  <1>1. UpdatesTypeOK' /\ HeldByContent' /\ WasIsCurrent'
    BY UpdatesTypeStep, HeldStep, WasStep DEF UpdatesIInv
  <1>2. UntoldIsNow'
    <2>1. ASSUME NEW c \in Containers
          PROVE  /\ ~Recreated(c)' => running'[c] = ask'.ids[c]
                 /\ ~Differed(c)' => registry'[RefOf[c]] \in held'[RefOf[c]][running'[c]]
      <3>1. Standing(c)' \in was'[c] /\ was'[c] \subseteq Contents \X {"same", "differs"}
        BY <1>1 DEF WasIsCurrent, UpdatesTypeOK
      <3>2. Standing(c)'[1] = running'[c]
        BY DEF Standing
      <3>3. ~Differed(c)' => Standing(c)'[2] = "same"
        BY <3>1 DEF Differed
      <3>4. ~Recreated(c)' => running'[c] = ask'.ids[c]
        BY <3>1, <3>2 DEF Recreated
      <3> QED
        BY <3>3, <3>4 DEF Standing
    <2> QED
      BY <2>1 DEF UntoldIsNow
  <1>3. CASE UNCHANGED updatesVars
    <2>1. UNCHANGED <<running, held, registry, ask, was>>
      BY <1>3 DEF updatesVars
    <2>2. ASSUME NEW c \in Containers
          PROVE  /\ ScannedFits(c)' <=> ScannedFits(c)
                 /\ InspectedFits(c)' <=> InspectedFits(c)
                 /\ ComparedFits(c)' <=> ComparedFits(c)
      BY <2>1 DEF ScannedFits, InspectedFits, ComparedFits, Recreated, Differed
    <2>3. AskFits'
      BY <2>1, <2>2 DEF UpdatesIInv, AskFits
    <2> QED
      BY <1>1, <2>3 DEF UpdatesIInv
  <1>4. CASE UpdatesNext /\ Others
    BY <1>1, <1>2, <1>4, OthersStep DEF UpdatesIInv
  <1>5. CASE UpdatesNext /\ Call
    <2>1. CASE \E s \in Sources : Ask(s)
      <3>1. ask'.pc = "scan"
        BY <2>1 DEF Ask, UpdatesIInv, UpdatesTypeOK, Asking
      <3> QED
        BY <1>1, <3>1 DEF UpdatesIInv, AskFits
    <2> QED
      BY <1>1, <1>5, <2>1, ScanStep, InspectStep, RegistryStep, DiunStep DEF Call, UpdatesIInv
  <1> QED
    BY <1>3, <1>4, <1>5 DEF UpdatesNext

\* UpdatesIInv holds in every reachable state of image_updates and its surroundings.
THEOREM UpdatesInvariance == UpdatesSpec => []UpdatesIInv
  BY UpdatesInitIInv, UpdatesNextIInv, PTL DEF UpdatesSpec

\* What the registry's verdict says of a container was so at some moment of the call, for any
\* number of containers, images and changes meanwhile.
THEOREM VerdictsWereTrue == UpdatesSpec => []VerdictWasTrue
  <1>1. UpdatesIInv => VerdictWasTrue
    <2> SUFFICES ASSUME UpdatesIInv, ask.pc = "answer", NEW c \in Containers,
                        Verdict(c).by = "registry"
                 PROVE  /\ Verdict(c).status = "up-to-date" =>
                             <<ask.ids[c], "same">> \in was[c] \/ Recreated(c)
                        /\ Verdict(c).status = "update-available" /\ c \in ask.alone => Differed(c)
      BY DEF VerdictWasTrue
    <2>1. Verdict(c).status = RegistryVerdict(c)
      BY DEF Verdict, Said
    <2>2. CASE RegistryVerdict(c) \in {"pinned", "unknown"}
      BY <2>1, <2>2
    <2>3. CASE RegistryVerdict(c) \notin {"pinned", "unknown"}
      <3>1. /\ ask.local[c] # None /\ ask.remote[RefOf[c]] \notin {None, Failed}
            /\ RegistryVerdict(c) = Compare(ask.remote[RefOf[c]], ask.local[c])
        BY <2>3 DEF RegistryVerdict
      <3>2. ask.remote[RefOf[c]] \in Digests
        BY <3>1, UpdatesAssumption DEF UpdatesIInv, UpdatesTypeOK, Asking
      <3>3. ComparedFits(c)
        BY <3>1 DEF UpdatesIInv, AskFits
      <3> QED
        BY <2>1, <3>1, <3>2, <3>3 DEF ComparedFits, Compare
    <2> QED
      BY <2>2, <2>3
  <1> QED
    BY <1>1, UpdatesInvariance, PTL

\* A container is judged by its own image and ref alone, and the registry's answer about it
\* always counts, for any set of containers and any failures.
THEOREM FailuresStayLocal == UpdatesSpec => []FailuresAreContained
  <1>1. UpdatesIInv => FailuresAreContained
    <2> SUFFICES ASSUME UpdatesIInv, ask.pc = "answer", NEW c \in Containers \ Pinned
                 PROVE  LET r == RefOf[c]
                            told == ask.remote[r] \in Digests
                            known == Verdict(c).status # "unknown"
                        IN /\ known => /\ c \notin ask.missing \cup Local
                                       /\ ~told => ask.seen[r] # None /\ c \notin OptedOut
                           /\ told /\ c \notin ask.missing \cup Local =>
                                known /\ Verdict(c).by = "registry"
      BY DEF FailuresAreContained
    <2> USE UpdatesAssumption
    <2>1. ask.local[c] # None <=> c \notin ask.missing \cup Local
      BY DEF UpdatesIInv, AskFits
    <2>2. ask.remote[RefOf[c]] \in Digests \cup {None, Failed}
      BY DEF UpdatesIInv, UpdatesTypeOK, Asking
    <2>3. \A d, e : Compare(d, e) \in {"up-to-date", "update-available"}
      BY DEF Compare
    <2>4. CASE c \in ask.missing \cup Local
      <3>1. RegistryVerdict(c) = "unknown" /\ DiunVerdict(c) = None
        BY <2>1, <2>4 DEF RegistryVerdict, DiunVerdict
      <3> QED
        BY <2>4, <3>1 DEF Verdict, Said
    <2>5. CASE c \notin ask.missing \cup Local /\ ask.remote[RefOf[c]] \in Digests
      <3>1. /\ RegistryVerdict(c) \in {"up-to-date", "update-available"}
            /\ ask.source # "diun"
        BY <2>1, <2>3, <2>5 DEF RegistryVerdict, UpdatesIInv, AskFits
      <3> QED
        BY <2>5, <3>1 DEF Verdict, Said
    <2>6. CASE c \notin ask.missing \cup Local /\ ask.remote[RefOf[c]] \notin Digests
      <3>1. RegistryVerdict(c) = "unknown"
        BY <2>2, <2>6 DEF RegistryVerdict
      <3>2. DiunVerdict(c) # None => ask.seen[RefOf[c]] # None /\ c \notin OptedOut
        BY DEF DiunVerdict
      <3> QED
        BY <2>6, <3>1, <3>2 DEF Verdict, Said
    <2> QED
      BY <2>4, <2>5, <2>6
  <1> QED
    BY <1>1, UpdatesInvariance, PTL

----------------------------------------------------------------------------
(* compose_preflight: the call *)

\* A proposal is a compose file, and so is what the call compares it with.
LEMMA ProposalsAreFiles == PreflightTypeOK => Proposals \subseteq Files
  BY DEF Proposals, PreflightTypeOK, Files

\* A service of a file joins a service, the guest or a container outside, and only one with a
\* network of its own joins itself without a provider.
LEMMA JoinsAreNamed ==
    ASSUME NEW f \in Files, NEW s \in Present(f)
    PROVE  /\ s \in Services /\ f[s].net \in {"own", "host", Outside} \cup Services \cup ContainerNames
           /\ Joins(f, s) \in Services \cup {Outside, Lxc}
           /\ f[s].net = "own" => Joins(f, s) = s
           /\ f[s].net = "host" => Joins(f, s) = Lxc
           /\ f[s].net \in ContainerNames => Joins(f, s) = ServiceOf[f[s].net]
           /\ f[s].net \in Services \cup {Outside} => Joins(f, s) = f[s].net
  <1>1. s \in Services /\ f[s] \in Definition
    BY DEF Files, Present
  <1>2. f[s].net \in {"own", "host", Outside} \cup Services \cup ContainerNames
    BY <1>1 DEF Definition
  <1> QED
    BY <1>1, <1>2, PreflightAssumption DEF Joins

\* A provider in a file that keeps the networks of the stack's own is a service of the stack
\* with a network of its own.
LEMMA ProvidersAreOwn ==
    ASSUME Runnable(disk), NEW f, KeepsNets(f), NEW p \in Providers(f)
    PROVE  p \in Present(disk) /\ disk[p].net = "own"
  <1>1. p \in Present(f) /\ Present(f) = Present(disk) /\ p \in Services
    BY DEF Providers, KeepsNets, Present
  <1>2. PICK s \in Present(f) : f[s].net = p
    BY DEF Providers, Dependents
  <1>3. s \in Present(disk) /\ disk[s].net = p
    BY <1>1, <1>2 DEF KeepsNets
  <1>4. Joins(disk, s) = p
    BY <1>1, <1>3, PreflightAssumption DEF Joins
  <1> QED
    BY <1>1, <1>3, <1>4 DEF Runnable

\* The files are read: the ports are checked only of a proposal that keeps the networks.
LEMMA ReadFilesStep ==
    ASSUME PreflightIInv, check.pc = "idle", NEW f \in Proposals \cup {NoFile},
           NEW malformed \in BOOLEAN, NEW ports \in BOOLEAN, ports /\ f # NoFile => KeepsNets(f),
           ReadFiles(f, malformed, ports)
    PROVE  PreflightIInv'
  <1>1. PICK next \in Files, prev \in Files \cup {NoFile}, pc \in {"scan", "report"} :
          /\ check' = [check EXCEPT !.pc = pc, !.next = next, !.prev = prev]
          /\ pc = "scan" => KeepsNets(next)
    <2> DEFINE next == IF f = NoFile THEN disk ELSE f
               prev == IF f = NoFile \/ malformed THEN NoFile ELSE disk
               pc == IF ports THEN "scan" ELSE "report"
    <2>1. check' = [check EXCEPT !.pc = pc, !.next = next, !.prev = prev]
      BY DEF ReadFiles
    <2>2. next \in Files /\ prev \in Files \cup {NoFile}
      BY ProposalsAreFiles DEF PreflightIInv, PreflightTypeOK
    <2>3. pc \in {"scan", "report"}
      OBVIOUS
    <2>4. pc = "scan" => KeepsNets(next)
      BY DEF KeepsNets
    <2> HIDE DEF next, prev, pc
    <2> QED
      BY <2>1, <2>2, <2>3, <2>4
  <1>2. check \in Checking /\ ~check.found
    BY DEF PreflightIInv, PreflightTypeOK, ScanFits
  <1>3. check' \in Checking /\ ~check'.found /\ check'.pc = pc /\ check'.next = next
    BY <1>1, <1>2 DEF Checking
  <1>4. UNCHANGED <<disk, stack, stranger, turns>>
    BY DEF ReadFiles
  <1>5. PreflightTypeOK' /\ StackFits' /\ StrangerIsPast'
    BY <1>3, <1>4 DEF PreflightIInv, PreflightTypeOK, StackFits, StrangerIsPast, Id
  <1>6. ScanFits' /\ ProbeFits'
    BY <1>1, <1>3, <1>4 DEF ScanFits, ProbeFits, KeepsNets, Present
  <1> QED
    BY <1>5, <1>6 DEF PreflightIInv

\* The scan.
LEMMA ScanContainersStep ==
    ASSUME PreflightIInv, NEW ok \in BOOLEAN, NEW p \in Services \cup {Absent}, ScanContainers(ok, p)
    PROVE  PreflightIInv'
  <1> USE PreflightAssumption
  <1> DEFINE ours == {Id(s) : s \in {s \in Present(disk) : Running(s)}}
             known == IF ok THEN ours \cup (IF stranger.contained THEN {Stranger} ELSE {}) ELSE {}
             seen == IF ok THEN stranger ELSE NoStranger
  <1>1. PICK found \in BOOLEAN, allOwn \in BOOLEAN :
          /\ found <=> ok /\ p # Absent /\ Running(p)
          /\ allOwn <=> found /\ NetnsAllOwn(p)
          /\ check' = [check EXCEPT !.pc = "probe", !.provider = p, !.found = found, !.ids = known,
                                    !.allOwn = allOwn, !.seen = seen]
    <2> DEFINE found == ok /\ p # Absent /\ Running(p)
               allOwn == found /\ NetnsAllOwn(p)
    <2>1. found \in BOOLEAN /\ allOwn \in BOOLEAN
      OBVIOUS
    <2>2. check' = [check EXCEPT !.pc = "probe", !.provider = p, !.found = found, !.ids = known,
                                 !.allOwn = allOwn, !.seen = seen]
      BY DEF ScanContainers
    <2> HIDE DEF found, allOwn, known, seen
    <2> QED
      BY <2>1, <2>2 DEF found, allOwn
  <1>2. ours \subseteq Services \X Nat
    BY DEF PreflightIInv, StackFits, Present, Running, Id, Container
  <1>3. known \in SUBSET ((Services \X Nat) \cup {Stranger})
    BY <1>2
  <1>4. NoStranger \in StrangerType
    BY DEF NoStranger, StrangerType
  <1>5. seen \in StrangerType /\ (ok => seen = stranger)
    BY <1>4 DEF PreflightIInv, PreflightTypeOK
  <1> HIDE DEF known, seen
  <1>6. check \in Checking /\ check.pc = "scan" /\ KeepsNets(check.next)
    BY DEF PreflightIInv, PreflightTypeOK, ScanContainers, ScanFits
  <1>7. /\ check' \in Checking /\ check'.pc = "probe" /\ check'.provider = p
        /\ check'.found = found /\ check'.allOwn = allOwn /\ check'.seen = seen
    BY <1>1, <1>3, <1>5, <1>6 DEF Checking
  <1>8. UNCHANGED <<disk, stack, stranger, turns>>
    BY DEF ScanContainers
  <1>9. ASSUME found
        PROVE  /\ p \in Present(disk) /\ disk[p].net = "own"
               /\ seen = NoStranger => allOwn
               /\ allOwn => \A g \in Nat : g >= stack[p].gen => seen.netns # <<p, g>>
    <2>1. ok /\ p # Absent /\ seen = stranger /\ p \in Services
      BY <1>1, <1>5, <1>9
    <2>2. p \in Present(disk) /\ disk[p].net = "own"
      <3>1. p \in Providers(check.next)
        BY <2>1 DEF ScanContainers, Dominant
      <3> QED
        BY <1>6, <3>1, ProvidersAreOwn DEF PreflightIInv, StackFits
    <2>3. stack[p] # Absent /\ stack[p].gen \in Nat /\ Id(p) \in Services \X Nat
      BY <2>1, <2>2 DEF PreflightIInv, StackFits, Present, Container, Id
    <2>4. seen = NoStranger => allOwn
      BY <1>1, <1>9, <2>1, <2>3 DEF NetnsAllOwn, NoStranger
    <2>5. ASSUME allOwn, NEW g \in Nat, g >= stack[p].gen, stranger.netns = <<p, g>>
          PROVE  FALSE
      <3>1. g <= stack[p].gen
        BY <2>1, <2>3, <2>5 DEF PreflightIInv, StrangerIsPast
      <3>2. g = stack[p].gen
        BY <2>3, <2>5, <3>1
      <3> QED
        BY <1>1, <2>5, <3>2 DEF NetnsAllOwn, Id
    <2> QED
      BY <2>1, <2>2, <2>4, <2>5
  <1>10. PreflightTypeOK' /\ StackFits' /\ StrangerIsPast'
    BY <1>7, <1>8 DEF PreflightIInv, PreflightTypeOK, StackFits, StrangerIsPast, Id
  <1>11. ScanFits' /\ ProbeFits'
    BY <1>7, <1>8, <1>9 DEF ScanFits, ProbeFits, Present
  <1> QED
    BY <1>10, <1>11 DEF PreflightIInv

\* A probe ends the call's readings: what it found is put beside what the scan found.
LEMMA BindStep ==
    ASSUME PreflightIInv, check.pc = "probe", NEW bound \in SUBSET Holder, NEW checked \in BOOLEAN,
           Bind(bound, checked),
           checked /\ check.found =>
              /\ stranger = NoStranger => \A b \in bound : b.container # "stranger"
              /\ stranger.listens /\ stranger.netns = Probed /\ ~stranger.namesake =>
                   \E b \in bound : b.container # "own" /\ b.named # "namesake"
    PROVE  PreflightIInv'
  <1>1. check' = [check EXCEPT !.pc = "report", !.bound = bound, !.checked = checked]
    BY DEF Bind
  <1>2. check \in Checking
    BY DEF PreflightIInv, PreflightTypeOK
  <1>3. /\ check' \in Checking /\ check'.pc = "report" /\ check'.bound = bound
        /\ check'.checked = checked /\ check'.found = check.found
        /\ check'.provider = check.provider /\ check'.allOwn = check.allOwn
        /\ check'.seen = check.seen
    BY <1>1, <1>2 DEF Checking
  <1>4. UNCHANGED <<disk, stack, stranger, turns>>
    BY DEF Bind
  <1>5. PreflightTypeOK' /\ StackFits' /\ StrangerIsPast'
    BY <1>3, <1>4 DEF PreflightIInv, PreflightTypeOK, StackFits, StrangerIsPast, Id
  <1>6. ScanFits'
    BY <1>3, <1>4 DEF PreflightIInv, ScanFits, Present
  <1>7. Probed' = Probed
    BY <1>3, <1>4 DEF Probed
  <1>8. ProbeFits'
    BY <1>3, <1>4, <1>7 DEF ProbeFits
  <1> QED
    BY <1>5, <1>6, <1>8 DEF PreflightIInv

\* What the probe of a provider finds when the provider's container was found.
LEMMA ListenersOfProvider ==
    ASSUME PreflightIInv, check.found
    PROVE  /\ Probed = Id(check.provider) /\ Probed \in Services \X Nat
           /\ stranger = NoStranger => Listeners(Probed) \subseteq Services \X Nat
           /\ stranger.listens /\ stranger.netns = Probed => Stranger \in Listeners(Probed)
  <1> USE PreflightAssumption
  <1>1. check.provider \in Present(disk) /\ disk[check.provider].net = "own"
    BY DEF PreflightIInv, ScanFits
  <1>2. check.provider \in Services /\ stack[check.provider] # Absent
    BY <1>1 DEF Present, PreflightIInv, StackFits
  <1>3. Probed = Id(check.provider)
    BY <1>1, <1>2 DEF Probed, PreflightIInv, StackFits
  <1>4. \A s \in Present(disk) : Id(s) \in Services \X Nat
    BY DEF PreflightIInv, StackFits, Present, Container, Id
  <1>5. Probed \in Services \X Nat
    BY <1>1, <1>3, <1>4
  <1>6. stranger = NoStranger => Listeners(Probed) \subseteq Services \X Nat
    <2>1. Probed # Lxc
      BY <1>5
    <2>2. NoStranger.listens = FALSE
      BY DEF NoStranger
    <2>3. Claimants(disk) \subseteq Present(disk)
      BY DEF Claimants
    <2> QED
      BY <1>4, <2>1, <2>2, <2>3 DEF Listeners
  <1>7. stranger.listens /\ stranger.netns = Probed => Stranger \in Listeners(Probed)
    BY DEF Listeners
  <1> QED
    BY <1>3, <1>5, <1>6, <1>7

LEMMA AttributedType ==
    ASSUME NEW w, NEW known
    PROVE  /\ Attributed(w, known) \in Holder
           /\ w # Stranger => Attributed(w, known).container # "stranger"
           /\ w = Stranger => Attributed(w, known).container # "own"
           /\ ~stranger.namesake => Attributed(w, known).named # "namesake"
  <1>1. Attributed(w, known).container \in {"own", "stranger", "unknown"}
    BY DEF Attributed
  <1>2. Attributed(w, known).named \in {"other", "namesake"}
    BY DEF Attributed
  <1> QED
    BY <1>1, <1>2 DEF Attributed, Holder

LEMMA AttributedProbeStep ==
    ASSUME PreflightIInv, AttributedProbe
    PROVE  PreflightIInv'
  <1> USE PreflightAssumption
  <1> DEFINE bound == {Attributed(w, check.ids) : w \in Listeners(Probed)}
  <1>1. check.pc = "probe" /\ Bind(bound, TRUE)
    BY DEF AttributedProbe
  <1>2. bound \in SUBSET Holder
    BY AttributedType
  <1>3. ASSUME check.found
        PROVE  /\ stranger = NoStranger => \A b \in bound : b.container # "stranger"
               /\ stranger.listens /\ stranger.netns = Probed /\ ~stranger.namesake =>
                    \E b \in bound : b.container # "own" /\ b.named # "namesake"
    <2>1. ASSUME stranger = NoStranger, NEW w \in Listeners(Probed)
          PROVE  Attributed(w, check.ids).container # "stranger"
      BY <1>3, <2>1, AttributedType, ListenersOfProvider
    <2>2. ASSUME stranger.listens, stranger.netns = Probed, ~stranger.namesake
          PROVE  \E b \in bound : b.container # "own" /\ b.named # "namesake"
      <3>1. Attributed(Stranger, check.ids) \in bound
        BY <1>3, <2>2, ListenersOfProvider
      <3> HIDE DEF bound
      <3> QED
        BY <2>2, <3>1, AttributedType
    <2> QED
      BY <2>1, <2>2
  <1> DEFINE yes == TRUE
  <1> HIDE DEF bound, yes
  <1>4. Bind(bound, yes) /\ yes \in BOOLEAN
    BY <1>1 DEF yes
  <1> QED
    BY <1>1, <1>2, <1>3, <1>4, BindStep

LEMMA FallbackProbeStep ==
    ASSUME PreflightIInv, NEW named \in BOOLEAN, FallbackProbe(named)
    PROVE  PreflightIInv'
  <1> USE PreflightAssumption
  <1> DEFINE Told(w) == IF named /\ (check.provider # Absent => w = Id(check.provider))
                        THEN Attributed(w, {}) ELSE Unnamed
             bound == {Told(w) : w \in Listeners(Probed)}
  <1>1. check.pc = "probe" /\ Bind(bound, TRUE)
    BY DEF FallbackProbe
  <1>2. Unnamed \in Holder /\ Unnamed.container = "unknown" /\ Unnamed.named = "unknown"
    BY DEF Unnamed, Holder
  <1>3. \A w : Told(w) \in Holder /\ (w # Stranger => Told(w).container # "stranger")
    BY <1>2, AttributedType
  <1>4. \A w : w = Stranger /\ ~stranger.namesake =>
                 Told(w).container # "own" /\ Told(w).named # "namesake"
    BY <1>2, AttributedType
  <1> HIDE DEF Told
  <1>5. bound \in SUBSET Holder
    BY <1>3
  <1>6. ASSUME check.found
        PROVE  /\ stranger = NoStranger => \A b \in bound : b.container # "stranger"
               /\ stranger.listens /\ stranger.netns = Probed /\ ~stranger.namesake =>
                    \E b \in bound : b.container # "own" /\ b.named # "namesake"
    <2>1. ASSUME stranger = NoStranger, NEW w \in Listeners(Probed)
          PROVE  Told(w).container # "stranger"
      BY <1>3, <1>6, <2>1, ListenersOfProvider
    <2>2. ASSUME stranger.listens, stranger.netns = Probed, ~stranger.namesake
          PROVE  \E b \in bound : b.container # "own" /\ b.named # "namesake"
      <3>1. Told(Stranger) \in bound
        BY <1>6, <2>2, ListenersOfProvider
      <3> HIDE DEF bound
      <3> QED
        BY <1>4, <2>2, <3>1
    <2> QED
      BY <2>1, <2>2
  <1> DEFINE yes == TRUE
  <1> HIDE DEF bound, yes
  <1>7. Bind(bound, yes) /\ yes \in BOOLEAN
    BY <1>1 DEF yes
  <1> QED
    BY <1>1, <1>5, <1>6, <1>7, BindStep

LEMMA ProbeFailedStep ==
    ASSUME PreflightIInv, ProbeFailed
    PROVE  PreflightIInv'
  <1> DEFINE none == {}
             no == FALSE
  <1>1. check.pc = "probe" /\ Bind(none, no) /\ none \in SUBSET Holder /\ no \in BOOLEAN /\ ~no
    BY DEF ProbeFailed
  <1> HIDE DEF none, no
  <1> QED
    BY <1>1, BindStep

----------------------------------------------------------------------------
(* compose_preflight: the others *)

LEMMA AbsentIsNoContainer == \A x \in Container : x # Absent
  BY PreflightAssumption

\* A change of the containers during the call, in which no container gets an older id, leaves
\* what the scan found as true as it was.
LEMMA TurnKeepsCheck ==
    ASSUME PreflightIInv, Turn, check' = check, disk' = disk, StackFits',
           \A s \in Services : stack[s] # Absent => stack'[s].gen >= stack[s].gen
    PROVE  ScanFits' /\ ProbeFits'
  <1>1. check.pc \in {"scan", "probe"}
    BY DEF Turn
  <1>2. ASSUME check.found, check.allOwn, NEW g \in Nat, g >= stack'[check.provider].gen
        PROVE  check.seen.netns # <<check.provider, g>>
    <2> DEFINE s == check.provider
    <2>1. s \in Services /\ stack[s] # Absent
      BY <1>2 DEF PreflightIInv, ScanFits, StackFits, Present
    <2>2. stack[s].gen \in Nat /\ stack'[s].gen \in Nat
      BY <2>1 DEF PreflightIInv, StackFits, Container
    <2>3. g >= stack[s].gen
      BY <1>2, <2>1, <2>2
    <2> QED
      BY <1>2, <2>3 DEF PreflightIInv, ScanFits
  <1>3. ScanFits'
    BY <1>2 DEF PreflightIInv, ScanFits, KeepsNets, Present
  <1> QED
    BY <1>1, <1>3 DEF ProbeFits

\* A container is recreated with an id of its own.
LEMMA RecreateStep ==
    ASSUME PreflightIInv, NEW s \in Services, Recreate(s)
    PROVE  PreflightIInv'
  <1> USE PreflightAssumption
  <1> DEFINE net == CASE Joins(disk, s) = s -> <<s, stack[s].gen + 1>>
                      [] Joins(disk, s) \in Services \ {s} -> Id(Joins(disk, s))
                      [] OTHER -> Joins(disk, s)
             made == [gen |-> stack[s].gen + 1, up |-> TRUE, netns |-> net]
  <1>1. /\ Turn /\ s \in Present(disk)
        /\ ~Owns(disk, s) /\ Joins(disk, s) # Outside => Running(Joins(disk, s))
        /\ stack' = [stack EXCEPT ![s] = made]
        /\ UNCHANGED <<disk, stranger, check>>
    BY DEF Recreate
  <1>2. /\ stack \in [Services -> Container \cup {Absent}]
        /\ disk[s] # Absent /\ stack[s] \in Container /\ stack[s] # Absent
    BY <1>1 DEF PreflightIInv, PreflightTypeOK, StackFits, Present
  <1>3. stack[s].gen \in Nat
    BY <1>2 DEF Container
  <1>4. /\ Joins(disk, s) \in Services \cup {Outside, Lxc}
        /\ disk[s].net = "own" <=> Joins(disk, s) = s
        /\ Joins(disk, s) \in Services \ {s} => Id(Joins(disk, s)) \in Services \X Nat
    <2>1. disk \in Files
      BY DEF PreflightIInv, PreflightTypeOK
    <2>2. Joins(disk, s) \in Services \cup {Outside, Lxc} /\ (disk[s].net = "own" => Joins(disk, s) = s)
      BY <1>1, <2>1, JoinsAreNamed
    <2>3. Joins(disk, s) \in Services => Joins(disk, s) \in Present(disk) /\ disk[Joins(disk, s)].net = "own"
      BY <1>1 DEF PreflightIInv, StackFits, Runnable
    <2>4. Joins(disk, s) \in Services => stack[Joins(disk, s)] \in Container
      BY <2>3 DEF PreflightIInv, StackFits, Present
    <2> QED
      BY <2>2, <2>3, <2>4 DEF Container, Id
  <1>5. /\ disk[s].net = "own" => net = <<s, stack[s].gen + 1>>
        /\ net \in {Outside, Lxc} \cup (Services \X Nat)
    <2>1. Joins(disk, s) = s => net = <<s, stack[s].gen + 1>>
      OBVIOUS
    <2>2. Joins(disk, s) # s /\ Joins(disk, s) \in Services => net = Id(Joins(disk, s))
      OBVIOUS
    <2>3. Joins(disk, s) \notin Services => net = Joins(disk, s)
      OBVIOUS
    <2>4. <<s, stack[s].gen + 1>> \in Services \X Nat
      BY <1>3
    <2> HIDE DEF net
    <2> QED
      BY <1>4, <2>1, <2>2, <2>3, <2>4
  <1> HIDE DEF net
  <1>6. /\ made \in Container
        /\ made.gen = stack[s].gen + 1
        /\ disk[s].net = "own" => made.netns = <<s, made.gen>>
    BY <1>3, <1>5 DEF Container
  <1> HIDE DEF made
  <1>7. /\ stack' \in [Services -> Container \cup {Absent}]
        /\ stack'[s] = made /\ \A t \in Services : t # s => stack'[t] = stack[t]
    BY <1>1, <1>2, <1>6
  <1>8. made # Absent
    BY <1>6, AbsentIsNoContainer
  <1>9. StackFits'
    <2>1. ASSUME NEW t \in Services
          PROVE  /\ stack'[t] # Absent <=> disk[t] # Absent
                 /\ stack'[t] # Absent => stack'[t] \in Container
                 /\ stack'[t] # Absent /\ disk[t].net = "own" => stack'[t].netns = <<t, stack'[t].gen>>
      <3>1. CASE t = s
        BY <1>2, <1>6, <1>7, <1>8, <3>1
      <3>2. CASE t # s
        BY <1>7, <3>2 DEF PreflightIInv, StackFits, Id
      <3> QED
        BY <3>1, <3>2
    <2> QED
      BY <1>1, <2>1 DEF PreflightIInv, StackFits, Id
  <1>10. \A t \in Services : stack[t] # Absent => stack'[t].gen >= stack[t].gen
    <2>1. ASSUME NEW t \in Services, stack[t] # Absent PROVE stack'[t].gen >= stack[t].gen
      <3>1. stack[t].gen \in Nat
        BY <2>1 DEF PreflightIInv, StackFits, Container
      <3>2. CASE t = s
        BY <1>3, <1>6, <1>7, <3>2
      <3>3. CASE t # s
        BY <1>7, <3>1, <3>3
      <3> QED
        BY <3>2, <3>3
    <2> QED
      BY <2>1
  <1>11. StrangerIsPast'
    <2>1. ASSUME NEW t \in Services, NEW g \in Nat, stack'[t] # Absent, stranger.netns = <<t, g>>
          PROVE  g <= stack'[t].gen
      <3>1. stack[t] # Absent /\ stack[t].gen \in Nat /\ stack'[t].gen \in Nat
        BY <1>1, <1>9, <2>1 DEF PreflightIInv, StackFits, Container
      <3>2. g <= stack[t].gen /\ stack'[t].gen >= stack[t].gen
        BY <1>10, <2>1, <3>1 DEF PreflightIInv, StrangerIsPast
      <3> QED
        BY <3>1, <3>2
    <2> QED
      BY <1>1, <2>1 DEF StrangerIsPast
  <1>12. PreflightTypeOK'
    BY <1>1, <1>7 DEF PreflightIInv, PreflightTypeOK
  <1>13. ScanFits' /\ ProbeFits'
    BY <1>1, <1>9, <1>10, TurnKeepsCheck
  <1> QED
    BY <1>9, <1>11, <1>12, <1>13 DEF PreflightIInv

\* A container stops.
LEMMA HaltStep ==
    ASSUME PreflightIInv, NEW s \in Services, Halt(s)
    PROVE  PreflightIInv'
  <1>1. /\ Turn /\ stack[s] # Absent
        /\ stack' = [stack EXCEPT ![s].up = FALSE]
        /\ UNCHANGED <<disk, stranger, check>>
    BY DEF Halt, Running
  <1>2. stack \in [Services -> Container \cup {Absent}] /\ stack[s] \in Container
    BY <1>1 DEF PreflightIInv, PreflightTypeOK, StackFits
  <1>3. PICK halted \in Container :
          halted = [stack[s] EXCEPT !.up = FALSE] /\ halted.gen = stack[s].gen
          /\ halted.netns = stack[s].netns
    <2>1. ASSUME NEW c \in Container
          PROVE  /\ [c EXCEPT !.up = FALSE] \in Container
                 /\ [c EXCEPT !.up = FALSE].gen = c.gen /\ [c EXCEPT !.up = FALSE].netns = c.netns
      BY DEF Container
    <2> QED
      BY <1>2, <2>1
  <1>4. stack' = [stack EXCEPT ![s] = halted]
    BY <1>1, <1>3
  <1>5. /\ stack' \in [Services -> Container \cup {Absent}]
        /\ stack'[s] = halted /\ \A t \in Services : t # s => stack'[t] = stack[t]
    BY <1>2, <1>4
  <1>6. halted # Absent
    BY AbsentIsNoContainer
  <1>7. StackFits'
    <2>1. ASSUME NEW t \in Services
          PROVE  /\ stack'[t] # Absent <=> disk[t] # Absent
                 /\ stack'[t] # Absent => stack'[t] \in Container
                 /\ stack'[t] # Absent /\ disk[t].net = "own" => stack'[t].netns = <<t, stack'[t].gen>>
      <3>1. CASE t = s
        BY <1>1, <1>3, <1>5, <1>6, <3>1 DEF PreflightIInv, StackFits, Id
      <3>2. CASE t # s
        BY <1>5, <3>2 DEF PreflightIInv, StackFits, Id
      <3> QED
        BY <3>1, <3>2
    <2> QED
      BY <1>1, <2>1 DEF PreflightIInv, StackFits, Id
  <1>8. \A t \in Services : stack[t] # Absent <=> stack'[t] # Absent
    BY <1>1, <1>7 DEF PreflightIInv, StackFits
  <1>9. \A t \in Services : stack[t] # Absent => stack'[t].gen = stack[t].gen /\ stack[t].gen \in Nat
    BY <1>3, <1>5 DEF PreflightIInv, StackFits, Container
  <1>10. StrangerIsPast'
    BY <1>1, <1>8, <1>9 DEF PreflightIInv, StrangerIsPast
  <1>11. PreflightTypeOK'
    BY <1>1, <1>5 DEF PreflightIInv, PreflightTypeOK
  <1>12. ScanFits' /\ ProbeFits'
    BY <1>1, <1>7, <1>9, TurnKeepsCheck
  <1> QED
    BY <1>7, <1>10, <1>11, <1>12 DEF PreflightIInv

\* A stranger comes, into a namespace that there is, or goes.
LEMMA StrangerStep ==
    ASSUME PreflightIInv, Turn, UNCHANGED <<disk, stack, check>>, stranger' \in StrangerType,
           \A s \in Services, g \in Nat :
               stack[s] # Absent /\ stranger'.netns = <<s, g>> => g <= stack[s].gen
    PROVE  PreflightIInv'
  <1>1. PreflightTypeOK' /\ StackFits' /\ StrangerIsPast'
    BY DEF PreflightIInv, PreflightTypeOK, StackFits, StrangerIsPast, Id
  <1>2. \A s \in Services : stack[s] # Absent => stack'[s].gen >= stack[s].gen
    BY DEF PreflightIInv, StackFits, Container
  <1>3. ScanFits' /\ ProbeFits'
    BY <1>1, <1>2, TurnKeepsCheck
  <1> QED
    BY <1>1, <1>3 DEF PreflightIInv

LEMMA IntrudeStep ==
    ASSUME PreflightIInv, NEW contained \in BOOLEAN, NEW namesake \in BOOLEAN, NEW n,
           n = Lxc \/ \E s \in Services : stack[s] # Absent /\ n = Id(s),
           Intrude(n, contained, namesake)
    PROVE  PreflightIInv'
  <1> USE PreflightAssumption
  <1>1. PICK listens \in BOOLEAN :
          stranger' = [netns |-> n, listens |-> listens, contained |-> contained, namesake |-> namesake]
    BY DEF Intrude
  <1>2. \A s \in Services : stack[s] # Absent => Id(s) = <<s, stack[s].gen>> /\ stack[s].gen \in Nat
    BY DEF PreflightIInv, StackFits, Container, Id
  <1>3. n \in {Absent, Lxc} \cup (Services \X Nat)
    BY <1>2
  <1>4. stranger' \in StrangerType
    BY <1>1, <1>3 DEF StrangerType
  <1>5. ASSUME NEW s \in Services, NEW g \in Nat, stack[s] # Absent, stranger'.netns = <<s, g>>
        PROVE  g <= stack[s].gen
    <2>1. n = <<s, g>>
      BY <1>1, <1>5
    <2>2. n # Lxc
      BY <2>1
    <2>3. PICK t \in Services : stack[t] # Absent /\ n = Id(t)
      BY <2>2
    <2>4. s = t /\ g = stack[s].gen
      BY <1>2, <2>1, <2>3
    <2> QED
      BY <2>4
  <1>6. Turn /\ UNCHANGED <<disk, stack, check>>
    BY DEF Intrude
  <1> QED
    BY <1>4, <1>5, <1>6, StrangerStep

LEMMA LeaveStep ==
    ASSUME PreflightIInv, Leave
    PROVE  PreflightIInv'
  <1> USE PreflightAssumption
  <1>1. stranger' \in StrangerType /\ stranger'.netns = Absent
    BY DEF Leave, NoStranger, StrangerType
  <1>2. \A s \in Services, g \in Nat : stranger'.netns # <<s, g>>
    BY <1>1
  <1>3. Turn /\ UNCHANGED <<disk, stack, check>>
    BY DEF Leave
  <1> QED
    BY <1>1, <1>2, <1>3, StrangerStep

----------------------------------------------------------------------------
(* compose_preflight: the invariant and what follows from it *)

LEMMA PreflightInitIInv == PreflightInit => PreflightIInv
  <1> SUFFICES ASSUME PreflightInit PROVE PreflightIInv
    OBVIOUS
  <1> USE PreflightAssumption
  <1>1. disk \in Files /\ Runnable(disk) /\ stranger = NoStranger /\ check = Idle
    BY DEF PreflightInit
  <1>2. NoStranger \in StrangerType /\ NoStranger.netns = Absent
    BY DEF NoStranger, StrangerType
  <1>3. Idle \in Checking /\ Idle.pc = "idle" /\ Idle.found = FALSE
    BY <1>2 DEF Idle, Checking
  <1>4. ASSUME NEW s \in Services, disk[s] # Absent
        PROVE  /\ stack[s] \in Container /\ stack[s] # Absent
               /\ disk[s].net = "own" => stack[s].netns = <<s, stack[s].gen>>
    <2>1. disk[s] \in Definition
      BY <1>1, <1>4 DEF Files
    <2> DEFINE n == IF Joins(disk, s) \in Services THEN <<Joins(disk, s), 0>> ELSE Joins(disk, s)
    <2>2. stack[s] = [gen |-> 0, up |-> TRUE, netns |-> n]
      BY <1>4 DEF PreflightInit
    <2>3. Joins(disk, s) \in Services \cup {Outside, Lxc} /\ (disk[s].net = "own" => Joins(disk, s) = s)
      BY <1>1, <1>4, JoinsAreNamed DEF Present
    <2>4. n \in {Outside, Lxc} \cup (Services \X Nat) /\ (disk[s].net = "own" => n = <<s, 0>>)
      BY <2>3
    <2> HIDE DEF n
    <2>5. stack[s] \in Container /\ stack[s].gen = 0 /\ stack[s].netns = n
      BY <2>2, <2>4 DEF Container
    <2> QED
      BY <2>4, <2>5, AbsentIsNoContainer
  <1>5. ASSUME NEW s \in Services, disk[s] = Absent
        PROVE  stack[s] = Absent
    BY <1>5 DEF PreflightInit
  <1>6. stack \in [Services -> Container \cup {Absent}]
    <2>1. stack = [s \in Services |-> stack[s]]
      BY DEF PreflightInit
    <2>2. \A s \in Services : stack[s] \in Container \cup {Absent}
      BY <1>4, <1>5
    <2> QED
      BY <2>1, <2>2
  <1>7. PreflightTypeOK
    BY <1>1, <1>2, <1>3, <1>6 DEF PreflightTypeOK
  <1>8. StackFits
    BY <1>1, <1>4, <1>5 DEF StackFits, Id
  <1>9. StrangerIsPast
    BY <1>1, <1>2 DEF StrangerIsPast
  <1>10. ScanFits /\ ProbeFits
    BY <1>1, <1>3 DEF ScanFits, ProbeFits
  <1> QED
    BY <1>7, <1>8, <1>9, <1>10 DEF PreflightIInv

LEMMA PreflightNextIInv == PreflightIInv /\ [PreflightNext]_preflightVars => PreflightIInv'
  <1> SUFFICES ASSUME PreflightIInv, [PreflightNext]_preflightVars PROVE PreflightIInv'
    OBVIOUS
  <1>1. CASE UNCHANGED preflightVars
    BY <1>1 DEF preflightVars, PreflightIInv, PreflightTypeOK, StackFits, StrangerIsPast, ScanFits,
                ProbeFits, Id, Present, KeepsNets, Probed
  <1>2. CASE /\ check.pc = "idle"
             /\ \E f \in Proposals \cup {NoFile}, malformed, ports \in BOOLEAN :
                  /\ ports /\ f # NoFile => KeepsNets(f)
                  /\ ReadFiles(f, malformed, ports)
    BY <1>2, ReadFilesStep
  <1>3. CASE \E contained, namesake \in BOOLEAN :
               \/ Intrude(Lxc, contained, namesake)
               \/ \E s \in Services : stack[s] # Absent /\ Intrude(Id(s), contained, namesake)
    BY <1>3, IntrudeStep
  <1> QED
    BY <1>1, <1>2, <1>3, ScanContainersStep, AttributedProbeStep, FallbackProbeStep,
       ProbeFailedStep, RecreateStep, HaltStep, LeaveStep DEF PreflightNext

\* PreflightIInv holds in every reachable state of compose_preflight and its surroundings.
THEOREM PreflightInvariance == PreflightSpec => []PreflightIInv
  BY PreflightInitIInv, PreflightNextIInv, PTL DEF PreflightSpec

\* A hazard of a bound port comes from a listener that the probe found.
LEMMA BoundHazards ==
    ASSUME NEW h \in Hazards, h.kind = "port-bound-elsewhere"
    PROVE  check.checked /\ \E b \in check.bound : h.severity = Severity(b)
  <1>1. \A g \in DependentPublishes(check.next) : g.kind = "dependent-publishes"
    BY DEF DependentPublishes
  <1>2. ASSUME NEW g \in PortCollisions(check.next) PROVE g.kind = "port-collision"
    <2>1. PICK severity, services :
            g = [kind |-> "port-collision", severity |-> severity, services |-> services]
      BY Zenon DEF PortCollisions
    <2> QED
      BY <2>1
  <1>3. \A g \in NetnsRecreates(check.next, check.prev) : g.kind = "netns-recreate"
    BY DEF NetnsRecreates
  <1>4. check.checked /\ h \in BoundElsewhere
    BY <1>1, <1>2, <1>3 DEF Hazards
  <1> QED
    BY <1>4 DEF BoundElsewhere

\* A redeploy of a stack of any number of services, behind a provider that the scan found, is
\* never told that its own instance is in the way, whatever is recreated or stopped between the
\* scan and the probe.
THEOREM OwnInstanceNoConflict == PreflightSpec => []OwnInstanceIsNoConflict
  <1>1. PreflightIInv => OwnInstanceIsNoConflict
    <2> SUFFICES ASSUME PreflightIInv, check.pc = "report", check.found, check.seen = NoStranger,
                        stranger = NoStranger, NEW h \in Hazards, h.kind = "port-bound-elsewhere"
                 PROVE  h.severity = "info"
      BY DEF OwnInstanceIsNoConflict
    <2>1. PICK b \in check.bound : check.checked /\ h.severity = Severity(b)
      BY BoundHazards
    <2>2. b \in Holder
      BY DEF PreflightIInv, PreflightTypeOK, Checking
    <2>3. b.container \in {"own", "unknown"} /\ check.allOwn
      BY <2>1, <2>2 DEF PreflightIInv, ProbeFits, ScanFits, Holder
    <2> QED
      BY <2>1, <2>3 DEF Severity
  <1> QED
    BY <1>1, PreflightInvariance, PTL

\* A stranger that the scan saw beside the provider and that still holds the port at the probe
\* is reported, by either probe, for any number of services and recreations in between.
THEOREM StrangersAreReported == PreflightSpec => []StrangerIsReported
  <1>1. PreflightIInv => StrangerIsReported
    <2> SUFFICES ASSUME PreflightIInv, check.pc = "report", check.checked, check.found,
                        check.seen.listens, stranger = check.seen, ~stranger.namesake,
                        stranger.netns = Probed, Claimants(check.next) # {}
                 PROVE  \E h \in Hazards : h.kind = "port-bound-elsewhere" /\ h.severity # "info"
      BY DEF StrangerIsReported
    <2>1. PICK b \in check.bound : b.container # "own" /\ b.named # "namesake"
      BY DEF PreflightIInv, ProbeFits
    <2>2. ~check.allOwn
      <3>1. Probed = <<check.provider, stack[check.provider].gen>>
        BY ListenersOfProvider DEF Id
      <3>2. stack[check.provider].gen \in Nat
        BY DEF PreflightIInv, ScanFits, StackFits, Present, Container
      <3>3. stack[check.provider].gen >= stack[check.provider].gen
        BY <3>2
      <3> QED
        BY <3>1, <3>2, <3>3 DEF PreflightIInv, ScanFits
    <2>3. Severity(b) # "info"
      BY <2>1, <2>2 DEF Severity
    <2>4. PICK s \in Claimants(check.next) : TRUE
      OBVIOUS
    <2> DEFINE h == [kind |-> "port-bound-elsewhere", severity |-> Severity(b), services |-> {s}]
    <2>5. h \in BoundElsewhere
      <3> DEFINE others == {x \in check.bound : x.named # "namesake"}
                 claimed == Claimants(check.next)
      <3>1. b \in others /\ s \in claimed
        BY <2>1, <2>4
      <3>2. BoundElsewhere = {[kind |-> "port-bound-elsewhere", severity |-> Severity(y),
                               services |-> {x}] : x \in claimed, y \in others}
        BY DEF BoundElsewhere
      <3> HIDE DEF others, claimed
      <3>3. \E x \in claimed, y \in others :
              h = [kind |-> "port-bound-elsewhere", severity |-> Severity(y), services |-> {x}]
        BY <3>1
      <3> HIDE DEF h
      <3>4. h \in {[kind |-> "port-bound-elsewhere", severity |-> Severity(y),
                    services |-> {x}] : x \in claimed, y \in others}
        BY <3>3
      <3> QED
        BY <3>2, <3>4
    <2>6. h \in Hazards
      BY <2>5 DEF Hazards
    <2>7. h.kind = "port-bound-elsewhere" /\ h.severity = Severity(b)
      OBVIOUS
    <2> HIDE DEF h
    <2> QED
      BY <2>3, <2>6, <2>7
  <1> QED
    BY <1>1, PreflightInvariance, PTL

----------------------------------------------------------------------------
(* compose_preflight: collisions in one namespace *)

\* From the first step of a call on there is a file to report about.
ProposalIsFile == check.pc # "idle" => check.next \in Files

LEMMA FileIsProposed == PreflightSpec => []ProposalIsFile
  <1>1. PreflightInit => ProposalIsFile
    BY DEF PreflightInit, ProposalIsFile, Idle
  <1>2. PreflightIInv /\ ProposalIsFile /\ [PreflightNext]_preflightVars => ProposalIsFile'
    <2> SUFFICES ASSUME PreflightIInv, ProposalIsFile, [PreflightNext]_preflightVars
                 PROVE  ProposalIsFile'
      OBVIOUS
    <2>0. check \in Checking /\ disk \in Files
      BY DEF PreflightIInv, PreflightTypeOK
    <2>1. CASE check' = check
      BY <2>1 DEF ProposalIsFile
    <2>2. ASSUME NEW f \in Proposals \cup {NoFile}, NEW malformed, NEW ports, ReadFiles(f, malformed, ports)
          PROVE  ProposalIsFile'
      <3> DEFINE next == IF f = NoFile THEN disk ELSE f
                 pc == IF ports THEN "scan" ELSE "report"
                 prev == IF f = NoFile \/ malformed THEN NoFile ELSE disk
      <3>1. next \in Files
        BY <2>0, ProposalsAreFiles DEF PreflightIInv
      <3>2. check' = [check EXCEPT !.pc = pc, !.next = next, !.prev = prev]
        BY <2>2 DEF ReadFiles
      <3> HIDE DEF next, pc, prev
      <3>3. check'.next = next
        BY <2>0, <3>2 DEF Checking
      <3> QED
        BY <3>1, <3>3 DEF ProposalIsFile
    <2>3. ASSUME check.pc # "idle", check'.next = check.next PROVE ProposalIsFile'
      BY <2>3 DEF ProposalIsFile
    <2>4. ASSUME NEW ok, NEW p, ScanContainers(ok, p) PROVE ProposalIsFile'
      BY <2>0, <2>3, <2>4 DEF ScanContainers, Checking
    <2>5. ASSUME NEW bound, NEW checked, check.pc = "probe", Bind(bound, checked) PROVE ProposalIsFile'
      BY <2>0, <2>3, <2>5 DEF Bind, Checking
    <2>6. CASE AttributedProbe
      BY <2>5, <2>6 DEF AttributedProbe
    <2>7. ASSUME NEW named, FallbackProbe(named) PROVE ProposalIsFile'
      BY <2>5, <2>7 DEF FallbackProbe
    <2>8. CASE ProbeFailed
      BY <2>5, <2>8 DEF ProbeFailed
    <2>9. ASSUME \/ \E s \in Services : Recreate(s) \/ Halt(s)
                 \/ \E n, contained, namesake : Intrude(n, contained, namesake)
                 \/ Leave
          PROVE  check' = check
      BY <2>9 DEF Recreate, Halt, Intrude, Leave
    <2> QED
      BY <2>1, <2>2, <2>4, <2>6, <2>7, <2>8, <2>9 DEF PreflightNext, preflightVars
  <1> QED
    BY <1>1, <1>2, PreflightInvariance, PTL DEF PreflightSpec

\* A service that has a network of its own, or that is not in the file, owns its namespace.
LEMMA OwnersEnd ==
    ASSUME NEW f, NEW s \in Holders, s \in Present(f) => f[s].net = "own"
    PROVE  Owners(f, s) = {s}
  <1>1. Led(f, s) = {s}
    <2>1. {s} \in SUBSET Holders
      OBVIOUS
    <2>2. \A x \in {s} \cap Present(f) : Joins(f, x) \in {s}
      <3>1. f[s].net = "own" => Joins(f, s) = s
        BY PreflightAssumption DEF Joins
      <3> QED
        BY <3>1
    <2> QED
      BY <2>1, <2>2 DEF Led
  <1> QED
    BY <1>1 DEF Owners

\* Any other service is in the namespace of the container it joins.
LEMMA OwnersOfProvider ==
    ASSUME NEW f \in Files, NEW s \in Present(f), f[s].net # "own"
    PROVE  Owners(f, s) = Owners(f, Joins(f, s))
  <1> DEFINE net == Joins(f, s)
             Closed(U) == \A x \in U \cap Present(f) : Joins(f, x) \in U
  <1>1. s \in Holders /\ net \in Holders
    BY JoinsAreNamed DEF Holders
  <1>2. \A t : Led(f, t) = {r \in Holders : \A U \in SUBSET Holders : t \in U /\ Closed(U) => r \in U}
    BY DEF Led
  <1>3. ASSUME NEW r \in Led(f, s), r # s PROVE r \in Led(f, net)
    <2> SUFFICES ASSUME NEW U \in SUBSET Holders, net \in U, Closed(U) PROVE r \in U
      BY <1>2, <1>3
    <2>1. s \in U \cup {s} /\ Closed(U \cup {s}) /\ U \cup {s} \in SUBSET Holders
      BY <1>1
    <2> HIDE DEF Closed
    <2>2. r \in U \cup {s}
      BY <1>2, <1>3, <2>1
    <2> QED
      BY <1>3, <2>2
  <1>4. ASSUME NEW r \in Led(f, net) PROVE r \in Led(f, s)
    BY <1>2
  <1> HIDE DEF net
  <1>5. s \notin Owners(f, s)
    BY DEF Owners
  <1>6. \A r \in Owners(f, s) : r \in Owners(f, net)
    BY <1>3, <1>5 DEF Owners
  <1>7. ASSUME NEW r \in Owners(f, net) PROVE r \in Owners(f, s)
    BY <1>4 DEF Owners
  <1> QED
    BY <1>6, <1>7 DEF net

\* The members of a group are all in one namespace.
LEMMA MembersShare ==
    ASSUME NEW f \in Files, NEW k \in Keys(f), NEW s \in Members(f, k), NEW t \in Members(f, k)
    PROVE  Owners(f, s) = Owners(f, t)
  <1> DEFINE head == IF k \in ContainerNames THEN ServiceOf[k] ELSE k
  <1>1. ASSUME NEW x \in Members(f, k) PROVE Owners(f, x) = Owners(f, head)
    <2>1. x \in Present(f) /\ x \in Services
      BY JoinsAreNamed DEF Members
    <2>2. CASE x = k
      BY <2>1, <2>2, PreflightAssumption
    <2>3. CASE x # k
      <3>1. Key(f, x) = k /\ ~Owns(f, x) /\ f[x].net = k
        BY <2>3 DEF Members, Key
      <3>2. Joins(f, x) = head
        BY <2>1, <3>1, JoinsAreNamed, PreflightAssumption DEF Owns
      <3> QED
        BY <2>1, <3>1, <3>2, OwnersOfProvider DEF Owns
    <2> QED
      BY <2>2, <2>3
  <1> HIDE DEF head
  <1> QED
    BY <1>1

\* Without a chain of providers, the container that a service joins owns the namespace.
LEMMA JoinedOwns ==
    ASSUME NEW f \in Files, ~Chained(f), NEW s \in Present(f)
    PROVE  Owners(f, s) = {Joins(f, s)}
  <1>1. Joins(f, s) \in Holders /\ s \in Holders
    BY JoinsAreNamed DEF Holders
  <1>2. Joins(f, s) \in Present(f) => f[Joins(f, s)].net = "own"
    BY DEF Chained
  <1>3. Owners(f, Joins(f, s)) = {Joins(f, s)}
    BY <1>1, <1>2, OwnersEnd
  <1> QED
    BY <1>3, OwnersOfProvider, JoinsAreNamed

\* Of two services that share a namespace in a way that is followed, one group has both.
LEMMA SharersAreMembers ==
    ASSUME NEW f \in Files, NEW s \in Present(f), NEW t \in Present(f), ~Unfollowed(f, s, t),
           Owners(f, s) = Owners(f, t)
    PROVE  Key(f, t) = Key(f, s)
  <1>1. Joins(f, s) = Joins(f, t)
    BY JoinedOwns DEF Unfollowed
  <1>2. f[s].net # "host" /\ f[t].net # "host"
    BY DEF Unfollowed
  <1>3. CASE f[s].net \in ContainerNames \/ f[t].net \in ContainerNames
    <2>1. f[s].net = f[t].net
      BY <1>3 DEF Unfollowed
    <2> QED
      BY <1>3, <2>1, PreflightAssumption DEF Key, Owns
  <1>4. CASE f[s].net \notin ContainerNames /\ f[t].net \notin ContainerNames
    <2>1. ASSUME NEW x \in Present(f), f[x].net # "host", f[x].net \notin ContainerNames
          PROVE  Key(f, x) = Joins(f, x)
      BY <2>1, JoinsAreNamed DEF Key, Owns
    <2> QED
      BY <1>1, <1>2, <1>4, <2>1
  <1> QED
    BY <1>3, <1>4

\* A collision is reported for two services only when both are in one namespace, and whenever
\* they are by service:<x> or one and the same container:<x>, chains of providers left out: for
\* every proposal that edits one service of a running stack (detectPortCollisions over
\* groupByNetns).
THEOREM CollisionsReported == PreflightSpec => []CollisionsAreReported
  <1>1. ASSUME NEW f \in Files, NEW s \in Claimants(f), NEW t \in Claimants(f), s # t,
               NEW h \in PortCollisions(f), {s, t} \subseteq h.services
        PROVE  Owners(f, s) = Owners(f, t)
    <2>1. PICK k \in Keys(f) : h.services = Members(f, k) \cap Claimants(f)
      <3>1. PICK k \in {k \in Keys(f) : Cardinality(Members(f, k) \cap Claimants(f)) > 1} :
              h = [kind |-> "port-collision",
                   severity |-> IF \E u \in Members(f, k) : f[u].claim = "env" THEN "warn" ELSE "error",
                   services |-> Members(f, k) \cap Claimants(f)]
        BY <1>1, Zenon DEF PortCollisions
      <3> QED
        BY <3>1
    <2> QED
      BY <1>1, <2>1, MembersShare
  <1>2. ASSUME NEW f \in Files, NEW s \in Claimants(f), NEW t \in Claimants(f), s # t,
               ~Unfollowed(f, s, t), Owners(f, s) = Owners(f, t)
        PROVE  \E h \in PortCollisions(f) : h.kind = "port-collision" /\ {s, t} \subseteq h.services
    <2> DEFINE k == Key(f, s)
               both == Members(f, k) \cap Claimants(f)
               h == [kind |-> "port-collision",
                     severity |-> IF \E u \in Members(f, k) : f[u].claim = "env" THEN "warn" ELSE "error",
                     services |-> both]
    <2>1. s \in Present(f) /\ t \in Present(f)
      BY DEF Claimants
    <2>2. Key(f, t) = k
      BY <1>2, <2>1, SharersAreMembers
    <2>3. s \in both /\ t \in both
      BY <2>1, <2>2 DEF Members
    <2>4. Cardinality(both) > 1
      <3>1. IsFiniteSet(Services) /\ both \subseteq Services
        BY PreflightAssumption DEF Claimants, Present
      <3>2. {s, t} \subseteq both
        BY <2>3
      <3> HIDE DEF both
      <3>3. IsFiniteSet(both)
        BY <3>1, FS_Subset
      <3>4. IsFiniteSet({s, t}) /\ Cardinality({s, t}) = 2
        <4>1. IsFiniteSet({s}) /\ Cardinality({s}) = 1
          BY FS_Singleton
        <4>2. IsFiniteSet({s} \cup {t}) /\ Cardinality({s} \cup {t}) = Cardinality({s}) + 1
          BY <1>2, <4>1, FS_AddElement
        <4>3. {s} \cup {t} = {s, t}
          OBVIOUS
        <4> QED
          BY <4>1, <4>2, <4>3
      <3>5. Cardinality({s, t}) <= Cardinality(both) /\ Cardinality(both) \in Nat
        BY <3>2, <3>3, FS_Subset, FS_CardinalityType
      <3> QED
        BY <3>4, <3>5
    <2>5. k \in Keys(f)
      BY <2>1 DEF Keys
    <2>6. h \in PortCollisions(f)
      BY <2>4, <2>5, Zenon DEF PortCollisions
    <2>7. h.kind = "port-collision" /\ h.services = both
      OBVIOUS
    <2> HIDE DEF h
    <2> QED
      BY <2>3, <2>6, <2>7
  <1>3. ProposalIsFile => CollisionsAreReported
    BY <1>1, <1>2 DEF ProposalIsFile, CollisionsAreReported
  <1> QED
    BY <1>3, FileIsProposed, PTL

----------------------------------------------------------------------------
(* The integrity forest: the tree of paths *)

LEMMA TreeInduction ==
    ASSUME NEW U \in SUBSET Nodes,
           Root \in U,
           \A n \in Nodes \ {Root} : Parent[n] \in U => n \in U
    PROVE  U = Nodes
BY TreeAssumption

LEMMA Ancestors ==
    /\ Root \in Nodes /\ Root \in Dirs /\ Above[Root] = {}
    /\ \A n \in Nodes : n # Root => /\ Parent[n] \in Dirs
                                    /\ Above[n] = {Parent[n]} \cup Above[Parent[n]]
BY TreeAssumption, Zenon DEF Nodes

LEMMA AboveAreDirs == \A n \in Nodes : Above[n] \subseteq Dirs
<1> DEFINE U == {n \in Nodes : Above[n] \subseteq Dirs}
<1>1. Root \in U BY Ancestors
<1>2. \A n \in Nodes \ {Root} : Parent[n] \in U => n \in U BY Ancestors
<1>3. U \in SUBSET Nodes OBVIOUS
<1>4. U = Nodes
    <2> HIDE DEF U
    <2> QED BY <1>1, <1>2, <1>3, TreeInduction
<1> QED BY <1>4

LEMMA AboveIsTransitive == \A n \in Nodes, d \in Dirs : d \in Above[n] => Above[d] \subseteq Above[n]
<1> DEFINE U == {n \in Nodes : \A d \in Dirs : d \in Above[n] => Above[d] \subseteq Above[n]}
<1>1. Root \in U BY Ancestors
<1>2. \A n \in Nodes \ {Root} : Parent[n] \in U => n \in U BY Ancestors
<1>3. U \in SUBSET Nodes OBVIOUS
<1>4. U = Nodes
    <2> HIDE DEF U
    <2> QED BY <1>1, <1>2, <1>3, TreeInduction
<1> QED BY <1>4

LEMMA AboveIsIrreflexive == \A n \in Nodes : n \notin Above[n]
<1> DEFINE U == {n \in Nodes : n \notin Above[n]}
<1>1. Root \in U BY Ancestors
<1>2. ASSUME NEW n \in Nodes \ {Root}, Parent[n] \in U PROVE n \in U
    <2>1. CASE n = Parent[n] BY <2>1, <1>2
    <2>2. CASE n \in Above[Parent[n]]
        <3>1. Parent[n] \in Dirs /\ Parent[n] \in Nodes /\ Parent[n] \in Above[n] BY Ancestors, AboveAreDirs DEF Nodes
        <3>2. n \in Dirs BY <2>2, <3>1, AboveAreDirs
        <3> QED BY <3>1, <3>2, <2>2, <1>2, AboveIsTransitive
    <2> QED BY <2>1, <2>2, Ancestors
<1>3. U \in SUBSET Nodes OBVIOUS
<1>4. U = Nodes
    <2> HIDE DEF U
    <2> QED BY <1>1, <1>2, <1>3, TreeInduction
<1> QED BY <1>4

LEMMA AboveIsLinear ==
    \A n \in Nodes : \A a, b \in Above[n] \cup {n} : a = b \/ a \in Above[b] \/ b \in Above[a]
<1> DEFINE U == {n \in Nodes : \A a, b \in Above[n] \cup {n} : a = b \/ a \in Above[b] \/ b \in Above[a]}
<1>1. Root \in U BY Ancestors
<1>2. \A n \in Nodes \ {Root} : Parent[n] \in U => n \in U BY Ancestors
<1>3. U \in SUBSET Nodes OBVIOUS
<1>4. U = Nodes
    <2> HIDE DEF U
    <2> QED BY <1>1, <1>2, <1>3, TreeInduction
<1> QED BY <1>4

LEMMA RootIsAbove == \A n \in Nodes : n = Root \/ Root \in Above[n]
<1> DEFINE U == {n \in Nodes : n = Root \/ Root \in Above[n]}
<1>1. Root \in U BY Ancestors
<1>2. \A n \in Nodes \ {Root} : Parent[n] \in U => n \in U BY Ancestors
<1>3. U \in SUBSET Nodes OBVIOUS
<1>4. U = Nodes
    <2> HIDE DEF U
    <2> QED BY <1>1, <1>2, <1>3, TreeInduction
<1> QED BY <1>4

LEMMA UnderFacts ==
    /\ \A d \in Nodes : Under(d) \subseteq Nodes /\ d \in Under(d)
    /\ \A d \in Nodes : \A n \in Under(d) : \A k \in Nodes : n \in Above[k] => k \in Under(d)
    /\ \A d \in Dirs : \A n \in Under(d) : Under(n) \subseteq Under(d)
    /\ \A f \in Leaves : Under(f) = {f}
    /\ Under(Root) = Nodes
<1>1. \A d \in Nodes : Under(d) \subseteq Nodes /\ d \in Under(d) BY DEF Under
<1>2. ASSUME NEW d \in Nodes, NEW n \in Under(d), NEW k \in Nodes, n \in Above[k] PROVE k \in Under(d)
    <2>1. n \in Dirs /\ n \in Nodes BY <1>2, AboveAreDirs DEF Nodes
    <2> QED BY <1>2, <2>1, AboveIsTransitive DEF Under
<1>3. \A d \in Dirs : \A n \in Under(d) : Under(n) \subseteq Under(d) BY <1>2 DEF Under, Nodes
<1>4. ASSUME NEW f \in Leaves PROVE Under(f) = {f}
    <2>1. \A n \in Nodes : f \notin Above[n] BY AboveAreDirs, TreeAssumption
    <2> QED BY <2>1 DEF Under, Nodes
<1>5. Under(Root) = Nodes BY RootIsAbove DEF Under
<1> QED BY <1>1, <1>2, <1>3, <1>4, <1>5


\* Every node has a hash, a leaf commits to itself, and a directory to what is below it.
Hashed(t) ==
    /\ \A f \in Leaves \cap DOMAIN t : \E x \in Payloads : t[f] = {<<f, x>>}
    /\ \A d \in DOMAIN t : t[d] # {} /\ \A n \in Nodes, x \in Payloads : <<n, x>> \in t[d] => n \in Under(d)

\* A tree with the directories of its nodes, each committing to all that is below it.
WellFolded(t, scope) ==
    /\ \A n \in DOMAIN t : Above[n] \cap Under(scope) \subseteq DOMAIN t
    /\ \A d \in DOMAIN t, n \in Nodes, x \in Payloads :
          <<n, x>> \in t[d] <=> n \in DOMAIN t \cap Under(d) /\ <<n, x>> \in t[n]

IsTree(t) == DOMAIN t \subseteq Nodes /\ t \in [DOMAIN t -> SUBSET (Nodes \X Payloads)]

LEMMA TreesAre == \A t : t \in Trees <=> IsTree(t)
BY DEF Trees, IsTree

LEMMA SinglePair == \A a, u, v : {<<a, u>>} = {<<a, v>>} <=> v = u
<1> SUFFICES ASSUME NEW a, NEW u, NEW v, {<<a, u>>} = {<<a, v>>} PROVE v = u OBVIOUS
<1>1. <<a, u>> = <<a, v>> OBVIOUS
<1> QED BY <1>1

\* For a leaf, to hold a pair is to be that pair.
LEMMA LeafPair ==
    ASSUME NEW t, Hashed(t), NEW f \in Leaves \cap DOMAIN t, NEW x
    PROVE  <<f, x>> \in t[f] <=> t[f] = {<<f, x>>}
<1>1. PICK y \in Payloads : t[f] = {<<f, y>>} BY DEF Hashed
<1>2. <<f, x>> \in {<<f, y>>} <=> x = y OBVIOUS
<1>3. {<<f, y>>} = {<<f, x>>} <=> x = y BY SinglePair, Zenon
<1> QED BY <1>1, <1>2, <1>3

LEMMA LeavesAreFolded ==
    ASSUME NEW t, Hashed(t), NEW scope, WellFolded(t, scope)
    PROVE  \A d \in DOMAIN t, f \in Leaves, x \in Payloads :
              <<f, x>> \in t[d] <=> f \in DOMAIN t \cap Under(d) /\ t[f] = {<<f, x>>}
<1> SUFFICES ASSUME NEW d \in DOMAIN t, NEW f \in Leaves, NEW x \in Payloads
             PROVE  <<f, x>> \in t[d] <=> f \in DOMAIN t \cap Under(d) /\ t[f] = {<<f, x>>}
    OBVIOUS
<1>1. f \in Nodes BY DEF Nodes
<1>2. <<f, x>> \in t[d] <=> f \in DOMAIN t \cap Under(d) /\ <<f, x>> \in t[f] BY <1>1 DEF WellFolded
<1> QED BY <1>2, LeafPair

LEMMA PrefixFacts ==
    /\ Prefixes \subseteq Dirs /\ Prefixes \subseteq Nodes /\ Root \notin Prefixes
    /\ \A p, q \in Prefixes : p # q => Under(p) \cap Under(q) = {}
    /\ \A p, q \in Prefixes : p \notin Above[q]
<1>1. Prefixes \subseteq Dirs /\ Prefixes \subseteq Nodes /\ Root \notin Prefixes
    BY ForestAssumption DEF Nodes
<1>2. \A p, q \in Prefixes : p \notin Above[q] BY ForestAssumption
<1>3. ASSUME NEW p \in Prefixes, NEW q \in Prefixes, p # q, NEW n \in Under(p) \cap Under(q) PROVE FALSE
    <2>1. n \in Nodes /\ p \in Above[n] \cup {n} /\ q \in Above[n] \cup {n} BY DEF Under
    <2> QED BY <2>1, <1>2, <1>3, AboveIsLinear
<1> QED BY <1>1, <1>2, <1>3

LEMMA IncludedFacts ==
    ASSUME NEW l, NEW world, NEW p \in Prefixes
    PROVE  /\ p \in Included(l, world, p) /\ Included(l, world, p) \subseteq Under(p)
           /\ \A n \in Included(l, world, p) : Above[n] \cap Under(p) \subseteq Included(l, world, p)
           /\ \A f \in Leaves \cap Included(l, world, p) : world[f] # Gone
<1> DEFINE there == {f \in Leaves \cap Under(p) : world[f] # Gone /\ (l = "l2" => f \in ConfigFiles)}
           dirs == {d \in Dirs \cap Under(p) : l = "l2" => d = p \/ \E f \in there : d \in Above[f]}
<1>1. Included(l, world, p) = there \cup dirs BY DEF Included
<1>2. p \in Dirs /\ p \in Nodes BY PrefixFacts
<1>3. p \in Under(p) BY <1>2, UnderFacts
<1>4. there \cup dirs \subseteq Under(p) /\ p \in dirs BY <1>2, <1>3
<1>5. ASSUME NEW n \in there \cup dirs, NEW d \in Above[n] \cap Under(p) PROVE d \in dirs
    <2>1. n \in Nodes BY <1>2, <1>4, UnderFacts
    <2>2. d \in Dirs BY <2>1, AboveAreDirs
    <2>3. CASE n \in there BY <2>2, <2>3
    <2>4. CASE n \in dirs /\ n # p
        <3>1. l = "l2" => \E f \in there : n \in Above[f] BY <2>4
        <3>2. \A f \in there : n \in Above[f] => d \in Above[f] BY <2>4, AboveIsTransitive DEF Nodes
        <3> QED BY <3>1, <3>2, <2>2
    <2>5. CASE n = p
        <3>1. p \in Above[d] \cup {d} BY DEF Under
        <3>2. d \in Above[p] BY <2>5
        <3> QED BY <3>1, <3>2, <1>2, <2>2, AboveIsIrreflexive, AboveIsTransitive
    <2> QED BY <2>3, <2>4, <2>5
<1>6. \A f \in Leaves \cap (there \cup dirs) : world[f] # Gone BY TreeAssumption
<1> HIDE DEF there, dirs
<1> QED BY <1>1, <1>4, <1>5, <1>6

LEMMA SubtreeFacts ==
    ASSUME NEW l \in Levels, NEW world \in [Leaves -> Stat \cup {Gone}], NEW p \in Prefixes, NEW lost
    PROVE  /\ IsTree(AssembleSubtree(l, world, p, lost))
           /\ Hashed(AssembleSubtree(l, world, p, lost))
           /\ WellFolded(AssembleSubtree(l, world, p, lost), p)
           /\ p \in DOMAIN AssembleSubtree(l, world, p, lost)
           /\ DOMAIN AssembleSubtree(l, world, p, lost) \subseteq Under(p)
<1> DEFINE in == Included(l, world, p)
           Commits(n) ==
              IF n \in Leaves THEN {<<n, Payload(l, world[n], n \in lost)>>}
              ELSE IF \A k \in in : k = Root \/ Parent[k] # n THEN {<<n, "empty-dir">>} ELSE {}
           t == [n \in in |-> UNION {Commits(k) : k \in in \cap Under(n)}]
<1>1. AssembleSubtree(l, world, p, lost) = t BY DEF AssembleSubtree
<1>2. /\ p \in in /\ in \subseteq Under(p) /\ in \subseteq Nodes
      /\ \A n \in in : Above[n] \cap Under(p) \subseteq in
      /\ \A f \in Leaves \cap in : world[f] # Gone
    BY IncludedFacts, PrefixFacts, UnderFacts
<1>3. \A f \in Leaves \cap in : Payload(l, world[f], f \in lost) \in Payloads
    BY <1>2 DEF Payload, Payloads, Stat
<1>4. \A k \in in : Commits(k) \subseteq {k} \X Payloads BY <1>3 DEF Payloads
<1>5. \A f \in Leaves \cap in : Commits(f) = {<<f, Payload(l, world[f], f \in lost)>>} OBVIOUS
<1> HIDE DEF in, Commits
<1>6. IsTree(t) BY <1>2, <1>4 DEF IsTree
<1>7. \A f \in Leaves \cap in : t[f] = Commits(f)
    <2> TAKE f \in Leaves \cap in
    <2>1. in \cap Under(f) = {f} BY UnderFacts
    <2> QED BY <2>1
<1>8. \A d \in in, n \in Nodes, x \in Payloads :
          <<n, x>> \in t[d] <=> n \in in \cap Under(d) /\ <<n, x>> \in Commits(n)
    <2> SUFFICES ASSUME NEW d \in in, NEW n \in Nodes, NEW x \in Payloads
                 PROVE  <<n, x>> \in t[d] <=> n \in in \cap Under(d) /\ <<n, x>> \in Commits(n)
        OBVIOUS
    <2>1. <<n, x>> \in t[d] <=> \E k \in in \cap Under(d) : <<n, x>> \in Commits(k) OBVIOUS
    <2>2. \A k \in in : <<n, x>> \in Commits(k) => k = n BY <1>4
    <2> HIDE DEF t
    <2> QED BY <2>1, <2>2
<1>9. ASSUME NEW d \in in PROVE t[d] # {}
    <2> DEFINE U == in \cap Under(d)
    <2>1. U \in SUBSET Nodes /\ d \in U BY <1>2, UnderFacts
    <2>2. PICK k \in U : \A j \in U : k \notin Above[j]
        <3> HIDE DEF U
        <3> QED BY <2>1, TreeAssumption
    <2>3. ASSUME NEW j \in in, j # Root, Parent[j] = k PROVE FALSE
        <3>1. k \in Above[j] /\ j \in Nodes BY <2>3, <1>2, Ancestors
        <3>2. j \in Under(d) BY <3>1, <1>2, UnderFacts
        <3> QED BY <3>1, <3>2, <2>2, <2>3
    <2>4. Commits(k) # {} BY <2>3 DEF Commits
    <2> QED BY <2>4
<1> HIDE DEF t
<1>10. DOMAIN t = in BY DEF t
<1>11. Hashed(t)
    <2>1. \A f \in Leaves \cap DOMAIN t : \E x \in Payloads : t[f] = {<<f, x>>} BY <1>3, <1>5, <1>7, <1>10
    <2> QED BY <2>1, <1>8, <1>9, <1>10 DEF Hashed
<1>12. WellFolded(t, p)
    <2>1. ASSUME NEW d \in in, NEW n \in Nodes, NEW x \in Payloads
          PROVE  <<n, x>> \in t[d] <=> n \in in \cap Under(d) /\ <<n, x>> \in t[n]
        <3>1. n \in Under(n) BY UnderFacts
        <3> QED BY <3>1, <1>8
    <2> QED BY <2>1, <1>2, <1>10 DEF WellFolded
<1>13. IsTree(t) BY <1>6
<1> QED BY <1>1, <1>2, <1>10, <1>11, <1>12, <1>13


Below(sub) == UNION {DOMAIN sub[p] : p \in DOMAIN sub}

Parts(sub) ==
    /\ DOMAIN sub \subseteq Prefixes
    /\ \A p \in DOMAIN sub : /\ IsTree(sub[p]) /\ Hashed(sub[p])
                             /\ DOMAIN sub[p] \subseteq Under(p)

\* Above whatever is below n there is a topmost.
LEMMA TopsExist ==
    ASSUME NEW below \in SUBSET Nodes, NEW n, NEW k0 \in below \cap Under(n)
    PROVE  Tops(below, n) # {}
<1> DEFINE U == {k \in Nodes : (Above[k] \cup {k}) \cap below \cap Under(n) # {} => Tops(below, n) # {}}
<1>1. Root \in U BY Ancestors DEF Tops
<1>2. ASSUME NEW k \in Nodes \ {Root}, Parent[k] \in U PROVE k \in U
    <2>1. Above[k] = {Parent[k]} \cup Above[Parent[k]] BY Ancestors
    <2>2. CASE Above[k] \cap below \cap Under(n) # {} BY <2>1, <2>2, <1>2
    <2>3. CASE Above[k] \cap below \cap Under(n) = {} BY <2>3 DEF Tops
    <2> QED BY <2>2, <2>3
<1>3. U \in SUBSET Nodes OBVIOUS
<1>4. U = Nodes
    <2> HIDE DEF U
    <2> QED BY <1>1, <1>2, <1>3, TreeInduction
<1>5. k0 \in U BY <1>4
<1> QED BY <1>5

LEMMA RootsFacts ==
    ASSUME NEW sub, Parts(sub)
    PROVE  LET t == FoldForestRoots(sub)
           IN /\ DOMAIN t = Below(sub) \cup UNION {Above[k] : k \in Below(sub)}
              /\ \A n \in DOMAIN t : Above[n] \subseteq DOMAIN t
              /\ \A p \in DOMAIN sub : \A n \in DOMAIN sub[p] : t[n] = sub[p][n]
              /\ \A n \in DOMAIN t \ Below(sub) : t[n] = UNION {t[k] : k \in Tops(Below(sub), n)}
              /\ IsTree(t) /\ Hashed(t)
<1> DEFINE below == Below(sub)
           HashOf(k) == sub[CHOOSE p \in DOMAIN sub : k \in Under(p)][k]
           D == below \cup UNION {Above[k] : k \in below}
           t == [n \in D |-> IF n \in below THEN HashOf(n) ELSE UNION {HashOf(k) : k \in Tops(below, n)}]
<1>1. FoldForestRoots(sub) = t BY DEF FoldForestRoots, Below
<1>2. below \subseteq Nodes BY DEF Below, Parts, IsTree
<1>3. ASSUME NEW p \in DOMAIN sub, NEW n \in DOMAIN sub[p] PROVE n \in below /\ HashOf(n) = sub[p][n]
    <2>1. n \in Under(p) /\ n \in below BY DEF Parts, Below
    <2>2. \A q \in DOMAIN sub : n \in Under(q) => q = p BY <2>1, PrefixFacts DEF Parts
    <2>3. (CHOOSE q \in DOMAIN sub : n \in Under(q)) = p BY <2>1, <2>2
    <2> QED BY <2>1, <2>3
<1>4. \A n \in D : Above[n] \subseteq D
    <2>1. \A k \in below : \A n \in Above[k] : Above[n] \subseteq Above[k] BY <1>2, AboveIsTransitive, AboveAreDirs
    <2> QED BY <2>1
<1>5. \A p \in DOMAIN sub : \A n \in DOMAIN sub[p] : t[n] = sub[p][n] BY <1>3
<1>6. \A k \in below : t[k] = HashOf(k) /\ k \in D OBVIOUS
<1>7. \A n \in D \ below : t[n] = UNION {t[k] : k \in Tops(below, n)}
    <2> TAKE n \in D \ below
    <2>1. t[n] = UNION {HashOf(k) : k \in Tops(below, n)} OBVIOUS
    <2>2. \A k \in Tops(below, n) : t[k] = HashOf(k) BY <1>6 DEF Tops
    <2> HIDE DEF t, HashOf
    <2> QED BY <2>1, <2>2
<1>8. DOMAIN t = D /\ D \subseteq Nodes
    <2>1. \A k \in below : Above[k] \subseteq Nodes BY <1>2, AboveAreDirs DEF Nodes
    <2> QED BY <1>2, <2>1
<1>9. \A k \in below : \E p \in DOMAIN sub : k \in DOMAIN sub[p] BY DEF Below
<1>10. \A k \in below : t[k] \in SUBSET (Nodes \X Payloads)
    <2> TAKE k \in below
    <2>1. PICK p \in DOMAIN sub : k \in DOMAIN sub[p] BY <1>9
    <2>2. t[k] = sub[p][k] BY <1>5, <2>1
    <2>3. sub[p][k] \in SUBSET (Nodes \X Payloads) BY <2>1 DEF Parts, IsTree
    <2> QED BY <2>2, <2>3
<1>11. \A n \in D : t[n] \in SUBSET (Nodes \X Payloads)
    <2> TAKE n \in D
    <2>1. CASE n \in below BY <2>1, <1>10
    <2>2. CASE n \notin below
        <3>1. t[n] = UNION {t[k] : k \in Tops(below, n)} BY <1>7, <2>2
        <3>2. \A k \in Tops(below, n) : t[k] \in SUBSET (Nodes \X Payloads) BY <1>10 DEF Tops
        <3> HIDE DEF t
        <3> QED BY <3>1, <3>2
    <2> QED BY <2>1, <2>2
<1>12. IsTree(t)
    <2>1. t \in [D -> SUBSET (Nodes \X Payloads)] BY <1>11
    <2> QED BY <2>1, <1>8 DEF IsTree
<1>13. Hashed(t)
    <2>1. \A f \in Leaves \cap D : f \in below
        <3>1. \A k \in below : \A f \in Leaves : f \notin Above[k] BY <1>2, AboveAreDirs, TreeAssumption
        <3> QED BY <3>1
    <2>2. ASSUME NEW k \in below
          PROVE  /\ k \in Leaves => \E x \in Payloads : t[k] = {<<k, x>>}
                 /\ t[k] # {} /\ \A n \in Nodes, x \in Payloads : <<n, x>> \in t[k] => n \in Under(k)
        <3>1. PICK p \in DOMAIN sub : k \in DOMAIN sub[p] BY <1>9
        <3>2. t[k] = sub[p][k] BY <1>5, <3>1
        <3> HIDE DEF t
        <3> QED BY <3>1, <3>2 DEF Parts, Hashed
    <2>3. ASSUME NEW d \in D \ below
          PROVE  t[d] # {} /\ \A n \in Nodes, x \in Payloads : <<n, x>> \in t[d] => n \in Under(d)
        <3>1. d \in Dirs /\ t[d] = UNION {t[k] : k \in Tops(below, d)} BY <1>2, <1>7, AboveAreDirs
        <3>2. PICK k0 \in below : d \in Above[k0] OBVIOUS
        <3>3. k0 \in below \cap Under(d) BY <3>2, <1>2 DEF Under
        <3> HIDE DEF t, D
        <3>4. Tops(below, d) # {} BY <3>3, <1>2, TopsExist
        <3>5. PICK k \in Tops(below, d) : TRUE BY <3>4
        <3>6. k \in below /\ t[k] # {} BY <2>2 DEF Tops
        <3>7. t[d] # {} BY <3>1, <3>6
        <3>8. ASSUME NEW n \in Nodes, NEW x \in Payloads, <<n, x>> \in t[d] PROVE n \in Under(d)
            <4>1. PICK j \in Tops(below, d) : <<n, x>> \in t[j] BY <3>1, <3>8
            <4>2. j \in below \cap Under(d) BY DEF Tops
            <4> QED BY <4>1, <4>2, <2>2, <3>1, UnderFacts
        <3> QED BY <3>7, <3>8
    <2> HIDE DEF t
    <2> QED BY <2>1, <2>2, <2>3, <1>8 DEF Hashed
<1> HIDE DEF t
<1> QED BY <1>1, <1>4, <1>5, <1>7, <1>8, <1>12, <1>13

LEMMA RootsAreFolded ==
    ASSUME NEW sub, Parts(sub), \A p \in DOMAIN sub : WellFolded(sub[p], p)
    PROVE  WellFolded(FoldForestRoots(sub), Root)
<1> DEFINE t == FoldForestRoots(sub)
           below == Below(sub)
<1>1. /\ DOMAIN t = below \cup UNION {Above[k] : k \in below}
      /\ \A n \in DOMAIN t : Above[n] \subseteq DOMAIN t
      /\ \A p \in DOMAIN sub : \A n \in DOMAIN sub[p] : t[n] = sub[p][n]
      /\ \A n \in DOMAIN t \ below : t[n] = UNION {t[k] : k \in Tops(below, n)}
      /\ IsTree(t) /\ Hashed(t)
    BY RootsFacts
<1>2. below \subseteq Nodes BY <1>1 DEF IsTree
<1> HIDE DEF t
<1>3. \A k \in below : \E p \in DOMAIN sub : k \in DOMAIN sub[p] BY DEF Below
<1>4. ASSUME NEW p \in DOMAIN sub, NEW n \in DOMAIN t \cap Under(p) PROVE n \in DOMAIN sub[p]
    <2>1. PICK k \in below : n \in Above[k] \cup {k} BY <1>1
    <2>2. PICK q \in DOMAIN sub : k \in DOMAIN sub[q] BY <2>1, <1>3
    <2>3. k \in Nodes /\ k \in Under(q) /\ p \in Nodes /\ p \in Prefixes /\ q \in Prefixes
        BY <2>2, PrefixFacts DEF Parts, IsTree
    <2>4. k \in Under(p) BY <2>1, <2>3, UnderFacts
    <2>5. q = p BY <2>3, <2>4, PrefixFacts
    <2> QED BY <2>1, <2>2, <2>5 DEF WellFolded
<1>5. ASSUME NEW p \in DOMAIN sub, NEW k \in DOMAIN sub[p], NEW n \in Nodes, NEW x \in Payloads
      PROVE  <<n, x>> \in t[k] <=> n \in DOMAIN t \cap Under(k) /\ <<n, x>> \in t[n]
    <2>1. t[k] = sub[p][k] BY <1>1
    <2>2. <<n, x>> \in sub[p][k] <=> n \in DOMAIN sub[p] \cap Under(k) /\ <<n, x>> \in sub[p][n] BY DEF WellFolded
    <2>3. k \in Under(p) /\ p \in Dirs BY PrefixFacts DEF Parts
    <2>4. n \in Under(k) => n \in Under(p) BY <2>3, UnderFacts
    <2>5. n \in DOMAIN sub[p] => t[n] = sub[p][n] /\ n \in DOMAIN t BY <1>1 DEF Below
    <2> QED BY <2>1, <2>2, <2>4, <2>5, <1>4
<1>6. ASSUME NEW d \in DOMAIN t, d \notin below, NEW n \in Nodes, NEW x \in Payloads
      PROVE  <<n, x>> \in t[d] <=> n \in DOMAIN t \cap Under(d) /\ <<n, x>> \in t[n]
    <2>1. <<n, x>> \in t[d] <=> \E k \in Tops(below, d) : <<n, x>> \in t[k] BY <1>1, <1>6
    <2>2. Tops(below, d) \subseteq below \cap Under(d) BY DEF Tops
    <2>3. d \in Dirs /\ d \in Nodes BY <1>1, <1>2, <1>6, AboveAreDirs DEF Nodes
    <2>4. <<n, x>> \in t[d] => n \in DOMAIN t \cap Under(d) /\ <<n, x>> \in t[n]
        <3> HAVE <<n, x>> \in t[d]
        <3>1. PICK k \in Tops(below, d) : <<n, x>> \in t[k] BY <2>1
        <3>2. n \in DOMAIN t \cap Under(k) /\ <<n, x>> \in t[n] BY <3>1, <2>2, <1>3, <1>5
        <3> QED BY <3>2, <2>2, <2>3, UnderFacts
    <2>5. ASSUME n \in DOMAIN t \cap Under(d), <<n, x>> \in t[n], n \in below PROVE <<n, x>> \in t[d]
        <3>1. PICK p \in DOMAIN sub : n \in DOMAIN sub[p] BY <2>5, <1>3
        <3>2. n \in Under(p) /\ p \in Prefixes /\ p \in Dirs /\ p \in Nodes BY <3>1, PrefixFacts DEF Parts
        <3>3. p \in Under(p) BY <3>2, UnderFacts
        <3>4. p \in Above[n] \cup {n} /\ d \in Above[n] BY <3>2, <2>5, <1>6 DEF Under
        <3>5. p \in DOMAIN sub[p] BY <3>1, <3>3, <3>4 DEF WellFolded
        <3>6. d \notin Under(p) BY <3>1, <3>4, <1>6 DEF WellFolded, Below
        <3>7. d \in Above[p] BY <3>4, <3>6, <3>2, <2>3, AboveIsLinear DEF Under
        <3>8. p \in below /\ p \in Under(d) BY <3>5, <3>7, <3>2 DEF Below, Under
        <3>9. ASSUME NEW e \in Above[p] \cap Under(d), e \in below PROVE FALSE
            <4>1. PICK q \in DOMAIN sub : e \in DOMAIN sub[q] BY <3>9, <1>3
            <4>2. e \in Under(q) /\ q \in Prefixes /\ e \in Dirs BY <4>1, <3>2, AboveAreDirs DEF Parts
            <4>3. q \in Above[p] BY <4>2, <3>2, <3>9, AboveIsTransitive DEF Under
            <4> QED BY <4>2, <4>3, <3>2, PrefixFacts
        <3>10. p \in Tops(below, d) BY <3>8, <3>9 DEF Tops
        <3>11. <<n, x>> \in t[p] BY <1>5, <3>1, <3>2, <3>5, <2>5
        <3> QED BY <2>1, <3>10, <3>11
    <2>6. ASSUME n \in DOMAIN t, <<n, x>> \in t[n], n \notin below PROVE FALSE
        <3>1. PICK k \in Tops(below, n) : <<n, x>> \in t[k] BY <2>6, <1>1
        <3>2. k \in below /\ k \in Under(n) /\ k # n BY <2>6 DEF Tops
        <3>3. k \in DOMAIN t BY <3>2, <1>1
        <3>4. n \in Under(k) BY <3>1, <3>3, <1>1 DEF Hashed
        <3>5. n \in Above[k] /\ k \in Above[n] /\ k \in Nodes BY <3>2, <3>4 DEF Under
        <3>6. n \in Dirs BY <3>5, AboveAreDirs
        <3> QED BY <3>5, <3>6, AboveIsTransitive, AboveIsIrreflexive
    <2> QED BY <2>4, <2>5, <2>6
<1>7. \A n \in DOMAIN t : Above[n] \cap Under(Root) \subseteq DOMAIN t BY <1>1
<1>8. WellFolded(t, Root)
    <2>1. ASSUME NEW d \in DOMAIN t, NEW n \in Nodes, NEW x \in Payloads
          PROVE  <<n, x>> \in t[d] <=> n \in DOMAIN t \cap Under(d) /\ <<n, x>> \in t[n]
        <3>1. CASE d \in below BY <3>1, <1>3, <1>5
        <3>2. CASE d \notin below BY <3>2, <1>6
        <3> QED BY <3>1, <3>2
    <2> QED BY <2>1, <1>7 DEF WellFolded
<1> QED BY <1>8 DEF t

LEMMA RootsAreStable ==
    ASSUME NEW sub, Parts(sub), \A p \in DOMAIN sub : DOMAIN sub[p] # {},
           NEW again, Parts(again), DOMAIN again = DOMAIN sub,
           \A p \in DOMAIN sub :
              /\ DOMAIN again[p] = DOMAIN FoldForestRoots(sub) \cap Under(p)
              /\ \A n \in DOMAIN again[p] : again[p][n] = FoldForestRoots(sub)[n]
    PROVE  FoldForestRoots(again) = FoldForestRoots(sub)
<1> DEFINE t == FoldForestRoots(sub)
           s == FoldForestRoots(again)
           B == Below(sub)
           C == Below(again)
<1>1. /\ DOMAIN t = B \cup UNION {Above[k] : k \in B}
      /\ \A n \in DOMAIN t : Above[n] \subseteq DOMAIN t
      /\ \A n \in DOMAIN t \ B : t[n] = UNION {t[k] : k \in Tops(B, n)}
      /\ IsTree(t)
    BY RootsFacts
<1>2. /\ DOMAIN s = C \cup UNION {Above[k] : k \in C}
      /\ \A p \in DOMAIN again : \A n \in DOMAIN again[p] : s[n] = again[p][n]
      /\ \A n \in DOMAIN s \ C : s[n] = UNION {s[k] : k \in Tops(C, n)}
      /\ IsTree(s)
    BY RootsFacts
<1>3. /\ \A p \in DOMAIN sub : /\ p \in Prefixes /\ p \in Dirs /\ p \in Nodes /\ p \in Under(p)
                               /\ \E k \in DOMAIN sub[p] : k \in Under(p)
      /\ \A k \in B : \E p \in DOMAIN sub : k \in DOMAIN sub[p] /\ k \in Under(p)
      /\ \A p \in DOMAIN sub : DOMAIN sub[p] \subseteq B
      /\ B \subseteq DOMAIN t
    BY <1>1, PrefixFacts, UnderFacts DEF Parts, Below
<1>4. \A n : n \in C <=> n \in DOMAIN t /\ \E p \in DOMAIN sub : n \in Under(p) BY DEF Below
<1>5. \A n \in C : s[n] = t[n] BY <1>2 DEF Below
<1> HIDE DEF t, s, B, C
<1>6. DOMAIN t \subseteq Nodes /\ \A n \in DOMAIN t : Above[n] \subseteq Dirs BY <1>1, AboveAreDirs DEF IsTree
<1>7. C \subseteq DOMAIN t /\ B \subseteq C BY <1>3, <1>4
<1>8. DOMAIN s = DOMAIN t BY <1>1, <1>2, <1>7
<1>9. \A p \in DOMAIN sub : p \in C
    <2> TAKE p \in DOMAIN sub
    <2>1. PICK k \in DOMAIN sub[p] : k \in Under(p) BY <1>3
    <2>2. k \in DOMAIN t BY <1>3, <2>1
    <2>3. p \in DOMAIN t BY <2>1, <2>2, <1>1 DEF Under
    <2> QED BY <2>3, <1>3, <1>4
<1>10. \A n \in DOMAIN t : t[n] = UNION {t[k] : k \in Tops(B, n)}
    <2> TAKE n \in DOMAIN t
    <2>1. CASE n \in B
        <3>1. \A k \in Tops(B, n) : k = n BY <2>1, <1>6, UnderFacts DEF Tops, Under
        <3>2. \A d \in Above[n] \cap Under(n) : FALSE
            BY <1>6, AboveIsIrreflexive, AboveIsTransitive DEF Under
        <3>3. n \in Tops(B, n) BY <2>1, <1>6, <3>2, UnderFacts DEF Tops
        <3> QED BY <3>1, <3>3
    <2> QED BY <2>1, <1>1
<1>11. ASSUME NEW n \in DOMAIN t, n \notin C PROVE s[n] = t[n]
    <2> DEFINE Q == {p \in DOMAIN sub : p \in Under(n)}
    <2>1. n \in Nodes /\ n \in Dirs /\ n \notin B /\ \A p \in DOMAIN sub : n \notin Under(p)
        BY <1>1, <1>4, <1>6, <1>7, <1>11, AboveAreDirs
    <2>2. ASSUME NEW p \in DOMAIN sub, NEW k \in Under(p), k \in Under(n) PROVE p \in Q
        <3>1. k \in Nodes /\ p \in Above[k] \cup {k} /\ n \in Above[k] \cup {k} BY <2>2 DEF Under
        <3> QED BY <3>1, <2>1, <1>3, AboveIsLinear DEF Under
    <2>3. Tops(C, n) = Q
        <3>1. ASSUME NEW k \in Tops(C, n) PROVE k \in Q
            <4>1. k \in C /\ k \in Under(n) BY DEF Tops
            <4>2. PICK p \in DOMAIN sub : k \in Under(p) BY <4>1, <1>4
            <4>3. p \in Q /\ p \in C BY <4>1, <4>2, <2>2, <1>9
            <4>4. k = p BY <4>2, <4>3 DEF Tops, Under
            <4> QED BY <4>3, <4>4
        <3>2. ASSUME NEW p \in Q PROVE p \in Tops(C, n)
            <4>1. ASSUME NEW d \in Above[p] \cap Under(n), d \in C PROVE FALSE
                <5>1. PICK q \in DOMAIN sub : d \in Under(q) BY <4>1, <1>4
                <5>2. d \in Dirs BY <1>3, AboveAreDirs
                <5>3. q \in Above[p] BY <5>1, <5>2, <1>3, AboveIsTransitive DEF Under
                <5> QED BY <5>3, <1>3, PrefixFacts
            <4> QED BY <4>1, <1>9 DEF Tops
        <3> QED BY <3>1, <3>2
    <2>4. \A k : k \in Tops(B, n) <=> \E p \in Q : k \in Tops(B, p)
        <3>1. ASSUME NEW k \in Tops(B, n) PROVE \E p \in Q : k \in Tops(B, p)
            <4>1. k \in B /\ k \in Under(n) BY DEF Tops
            <4>2. PICK p \in DOMAIN sub : k \in Under(p) BY <4>1, <1>3
            <4>3. p \in Q BY <4>1, <4>2, <2>2
            <4>4. Under(p) \subseteq Under(n) BY <4>3, <2>1, UnderFacts
            <4> QED BY <4>1, <4>2, <4>3, <4>4 DEF Tops
        <3>2. ASSUME NEW p \in Q, NEW k \in Tops(B, p) PROVE k \in Tops(B, n)
            <4>1. k \in B /\ k \in Under(p) /\ k \in Nodes BY DEF Tops, Under
            <4>2. Under(p) \subseteq Under(n) BY <2>1, UnderFacts
            <4>3. ASSUME NEW d \in Above[k] \cap Under(n), d \in B PROVE FALSE
                <5>1. PICK q \in DOMAIN sub : d \in Under(q) BY <4>3, <1>3
                <5>2. d \in Nodes /\ q \in Nodes BY <5>1, <1>3 DEF Under
                <5>3. k \in Under(q) BY <5>1, <5>2, <4>1, <4>3, UnderFacts
                <5>4. q = p BY <5>3, <4>1, <1>3, PrefixFacts
                <5> QED BY <5>1, <5>4, <4>3 DEF Tops
            <4> QED BY <4>1, <4>2, <4>3 DEF Tops
        <3> QED BY <3>1, <3>2
    <2>5. s[n] = UNION {s[p] : p \in Q} BY <1>2, <1>8, <1>11, <2>3
    <2>6. \A p \in Q : s[p] = t[p] /\ t[p] = UNION {t[k] : k \in Tops(B, p)} BY <1>5, <1>7, <1>9, <1>10
    <2>7. t[n] = UNION {t[k] : k \in Tops(B, n)} BY <1>10
    <2> HIDE DEF Q
    <2>8. \A x : x \in s[n] <=> \E p \in Q : \E k \in Tops(B, p) : x \in t[k]
        <3>1. \A x : x \in s[n] <=> \E p \in Q : x \in s[p] BY <2>5
        <3>2. \A x : \A p \in Q : x \in s[p] <=> \E k \in Tops(B, p) : x \in t[k] BY <2>6
        <3> QED BY <3>1, <3>2
    <2>9. \A x : x \in t[n] <=> \E k \in Tops(B, n) : x \in t[k] BY <2>7
    <2> QED BY <2>4, <2>8, <2>9
<1>12. \A n \in DOMAIN t : s[n] = t[n] BY <1>5, <1>11
<1>13. s = t BY <1>1, <1>2, <1>8, <1>12 DEF IsTree
<1> QED BY <1>13 DEF s, t

LEMMA FrozenFacts ==
    ASSUME NEW b, IsTree(b), Hashed(b), NEW p \in Prefixes
    PROVE  LET t == FreezeSubtree(b, p)
           IN /\ IsTree(t) /\ Hashed(t)
              /\ DOMAIN t \subseteq Under(p) /\ DOMAIN t # {}
              /\ WellFolded(b, Root) => WellFolded(t, p)
              /\ DOMAIN b \cap Under(p) # {} =>
                    DOMAIN t = DOMAIN b \cap Under(p) /\ \A n \in DOMAIN t : t[n] = b[n]
<1> DEFINE kept == DOMAIN b \cap Under(p)
           t == FreezeSubtree(b, p)
<1>1. p \in Dirs /\ p \in Nodes /\ p \in Under(p) /\ p \notin Leaves /\ Under(Root) = Nodes
    BY PrefixFacts, UnderFacts, TreeAssumption
<1>2. CASE kept = {}
    <2>1. t = [n \in {p} |-> {<<p, "unreadable">>}] BY <1>2 DEF FreezeSubtree
    <2>2. DOMAIN t = {p} /\ t[p] = {<<p, "unreadable">>} BY <2>1
    <2>3. IsTree(t) BY <2>1, <1>1 DEF IsTree, Payloads
    <2>4. Hashed(t)
        <3> HIDE DEF t
        <3>1. Leaves \cap DOMAIN t = {} BY <2>2, <1>1
        <3>2. \A n, x : <<n, x>> \in t[p] => n = p BY <2>2
        <3>3. t[p] # {} BY <2>2
        <3> QED BY <2>2, <3>1, <3>2, <3>3, <1>1, Zenon DEF Hashed
    <2>5. Above[p] \cap Under(p) = {} BY <1>1, AboveIsIrreflexive, AboveAreDirs, AboveIsTransitive DEF Under
    <2>6. WellFolded(t, p) BY <2>2, <2>5, <1>1 DEF WellFolded
    <2> HIDE DEF t
    <2> QED BY <2>2, <2>3, <2>4, <2>6, <1>1, <1>2 DEF t
<1>3. CASE kept # {}
    <2>1. t = [n \in kept |-> b[n]] BY <1>3 DEF FreezeSubtree
    <2>2. DOMAIN t = kept /\ \A n \in kept : t[n] = b[n] BY <2>1
    <2>3. IsTree(t) BY <2>1 DEF IsTree
    <2>4. Hashed(t) BY <2>2 DEF Hashed
    <2> HIDE DEF t
    <2>5. ASSUME WellFolded(b, Root) PROVE WellFolded(t, p)
        <3>1. \A n \in DOMAIN b : Above[n] \subseteq DOMAIN b
            BY <2>5, <1>1, AboveAreDirs, Zenon DEF WellFolded, IsTree, Nodes
        <3>2. \A n \in DOMAIN t : Above[n] \cap Under(p) \subseteq DOMAIN t BY <2>2, <3>1
        <3>3. ASSUME NEW d \in DOMAIN t, NEW n \in Nodes, NEW x \in Payloads
              PROVE  <<n, x>> \in t[d] <=> n \in DOMAIN t \cap Under(d) /\ <<n, x>> \in t[n]
            <4>1. <<n, x>> \in b[d] <=> n \in DOMAIN b \cap Under(d) /\ <<n, x>> \in b[n]
                BY <2>2, <2>5 DEF WellFolded
            <4>2. n \in Under(d) => n \in Under(p) BY <2>2, <1>1, UnderFacts
            <4> QED BY <4>1, <4>2, <2>2
        <3> QED BY <3>2, <3>3 DEF WellFolded
    <2> QED BY <2>2, <2>3, <2>4, <2>5, <1>3 DEF t
<1> QED BY <1>2, <1>3

LEMMA SourceFacts ==
    ASSUME NEW l \in Levels, NEW world \in [Leaves -> Stat \cup {Gone}], NEW guests,
           NEW b, IsTree(b), Hashed(b), NEW prefixes \in SUBSET Prefixes, NEW lost
    PROVE  LET sub == [p \in prefixes |-> Subtree(l, world, guests, b, p, lost)]
           IN /\ Parts(sub)
              /\ \A p \in DOMAIN sub : DOMAIN sub[p] # {}
              /\ WellFolded(b, Root) \/ prefixes \subseteq {Host} \cup guests =>
                    \A p \in DOMAIN sub : WellFolded(sub[p], p)
<1> DEFINE sub == [p \in prefixes |-> Subtree(l, world, guests, b, p, lost)]
<1>1. ASSUME NEW p \in prefixes
      PROVE  /\ IsTree(sub[p]) /\ Hashed(sub[p])
             /\ DOMAIN sub[p] \subseteq Under(p) /\ DOMAIN sub[p] # {}
             /\ WellFolded(b, Root) \/ prefixes \subseteq {Host} \cup guests => WellFolded(sub[p], p)
    <2>1. sub[p] = Subtree(l, world, guests, b, p, lost) OBVIOUS
    <2> HIDE DEF sub
    <2>2. CASE p = Host \/ p \in guests
        <3>1. sub[p] = AssembleSubtree(l, world, p, lost) BY <2>1, <2>2 DEF Subtree
        <3> QED BY <3>1, SubtreeFacts
    <2>3. CASE ~(p = Host \/ p \in guests)
        <3>1. sub[p] = FreezeSubtree(b, p) BY <2>1, <2>3 DEF Subtree
        <3>2. ~(prefixes \subseteq {Host} \cup guests) BY <2>3
        <3> DEFINE t == FreezeSubtree(b, p)
        <3>3. /\ IsTree(t) /\ Hashed(t) /\ DOMAIN t \subseteq Under(p) /\ DOMAIN t # {}
              /\ WellFolded(b, Root) => WellFolded(t, p)
            BY FrozenFacts
        <3> HIDE DEF t
        <3>4. sub[p] = t BY <3>1 DEF t
        <3> QED BY <3>2, <3>3, <3>4
    <2> QED BY <2>2, <2>3
<1>2. DOMAIN sub = prefixes OBVIOUS
<1> HIDE DEF sub
<1>3. Parts(sub) BY <1>1, <1>2 DEF Parts
<1> QED BY <1>1, <1>2, <1>3 DEF sub

\* What computeForestNodes returns: a tree whose leaves hold one pair each, and which is
\* folded all through unless it froze a container whose baseline was not.
LEMMA ForestFacts ==
    ASSUME NEW l \in Levels, NEW world \in [Leaves -> Stat \cup {Gone}], NEW guests,
           NEW b, IsTree(b), Hashed(b), NEW prefixes \in SUBSET Prefixes, NEW lost
    PROVE  LET t == AssembleForest(l, world, guests, b, prefixes, lost)
           IN /\ IsTree(t) /\ Hashed(t)
              /\ WellFolded(b, Root) \/ prefixes \subseteq {Host} \cup guests => WellFolded(t, Root)
<1> DEFINE sub == [p \in prefixes |-> Subtree(l, world, guests, b, p, lost)]
<1>1. /\ Parts(sub)
      /\ WellFolded(b, Root) \/ prefixes \subseteq {Host} \cup guests =>
            \A p \in DOMAIN sub : WellFolded(sub[p], p)
    BY SourceFacts
<1>2. AssembleForest(l, world, guests, b, prefixes, lost) = FoldForestRoots(sub) BY DEF AssembleForest
<1> HIDE DEF sub
<1>3. IsTree(FoldForestRoots(sub)) /\ Hashed(FoldForestRoots(sub)) BY <1>1, RootsFacts
<1>4. WellFolded(b, Root) \/ prefixes \subseteq {Host} \cup guests => WellFolded(FoldForestRoots(sub), Root)
    BY <1>1, RootsAreFolded
<1> QED BY <1>2, <1>3, <1>4

\* Computed again over its own result, the forest is the same, whichever containers have
\* stopped since: a frozen subtree is what was read of it.
LEMMA ForestIsStable ==
    ASSUME NEW l \in Levels, NEW world \in [Leaves -> Stat \cup {Gone}], NEW guests,
           NEW b, IsTree(b), Hashed(b), NEW fewer \in SUBSET guests
    PROVE  LET t == AssembleForest(l, world, guests, b, Prefixes, {})
           IN AssembleForest(l, world, fewer, t, Prefixes, {}) = t
<1> DEFINE sub == [p \in Prefixes |-> Subtree(l, world, guests, b, p, {})]
           t == AssembleForest(l, world, guests, b, Prefixes, {})
           again == [p \in Prefixes |-> Subtree(l, world, fewer, t, p, {})]
<1>1. /\ Parts(sub) /\ \A p \in DOMAIN sub : DOMAIN sub[p] # {}
    BY SourceFacts
<1>2. t = FoldForestRoots(sub) BY DEF AssembleForest
<1>3. AssembleForest(l, world, fewer, t, Prefixes, {}) = FoldForestRoots(again) BY DEF AssembleForest
<1>4. DOMAIN sub = Prefixes /\ DOMAIN again = Prefixes OBVIOUS
<1>5. /\ \A p \in Prefixes : sub[p] = Subtree(l, world, guests, b, p, {})
      /\ \A p \in Prefixes : again[p] = Subtree(l, world, fewer, t, p, {})
    OBVIOUS
<1>6. IsTree(t) /\ Hashed(t) BY ForestFacts
<1> HIDE DEF t
<1>7. Parts(again) BY <1>6, SourceFacts
<1> HIDE DEF sub, again
<1>8. /\ DOMAIN t = Below(sub) \cup UNION {Above[k] : k \in Below(sub)}
      /\ \A p \in DOMAIN sub : \A n \in DOMAIN sub[p] : t[n] = sub[p][n]
    <2> DEFINE r == FoldForestRoots(sub)
    <2>1. /\ DOMAIN r = Below(sub) \cup UNION {Above[k] : k \in Below(sub)}
          /\ \A p \in DOMAIN sub : \A n \in DOMAIN sub[p] : r[n] = sub[p][n]
        BY <1>1, RootsFacts
    <2>2. t = r BY <1>2
    <2> HIDE DEF r
    <2> QED BY <2>1, <2>2
<1>9. ASSUME NEW p \in Prefixes
      PROVE  /\ DOMAIN again[p] = DOMAIN t \cap Under(p)
             /\ \A n \in DOMAIN again[p] : again[p][n] = t[n]
    <2>1. DOMAIN sub[p] \subseteq DOMAIN t \cap Under(p) BY <1>1, <1>4, <1>8 DEF Parts, Below
    <2>2. CASE p = Host \/ p \in fewer
        <3>1. sub[p] = again[p] /\ sub[p] = AssembleSubtree(l, world, p, {}) BY <1>5, <2>2 DEF Subtree
        <3>2. WellFolded(sub[p], p) BY <3>1, SubtreeFacts
        <3>3. ASSUME NEW n \in DOMAIN t \cap Under(p) PROVE n \in DOMAIN sub[p]
            <4>1. PICK k \in Below(sub) : n \in Above[k] \cup {k} BY <1>8
            <4>2. PICK q \in Prefixes : k \in DOMAIN sub[q] BY <4>1, <1>4 DEF Below
            <4>3. k \in Nodes /\ k \in Under(q) BY <4>2, <1>1, <1>4 DEF Parts, IsTree
            <4>4. p \in Nodes BY PrefixFacts
            <4>5. k \in Under(p) BY <4>1, <4>3, <4>4, <3>3, UnderFacts
            <4>6. q = p BY <4>3, <4>5, PrefixFacts
            <4> QED BY <4>1, <4>2, <4>6, <3>2, <3>3 DEF WellFolded
        <3> QED BY <3>1, <3>3, <2>1, <1>4, <1>8
    <2>3. CASE ~(p = Host \/ p \in fewer)
        <3>1. again[p] = FreezeSubtree(t, p) BY <1>5, <2>3 DEF Subtree
        <3>2. DOMAIN t \cap Under(p) # {} BY <2>1, <1>1, <1>4
        <3> DEFINE r == FreezeSubtree(t, p)
        <3>3. DOMAIN r = DOMAIN t \cap Under(p) /\ \A n \in DOMAIN r : r[n] = t[n]
            BY <3>2, <1>6, FrozenFacts
        <3>4. again[p] = r BY <3>1
        <3> HIDE DEF r
        <3> QED BY <3>3, <3>4
    <2> QED BY <2>2, <2>3
<1>10. FoldForestRoots(again) = FoldForestRoots(sub)
    BY <1>1, <1>2, <1>4, <1>7, <1>9, RootsAreStable
<1> QED BY <1>2, <1>3, <1>10 DEF t

LEMMA FoldFacts ==
    ASSUME NEW b, IsTree(b), Hashed(b), NEW w, IsTree(w), Hashed(w), NEW n
    PROVE  /\ IsTree(FoldLeaf(b, w, n)) /\ Hashed(FoldLeaf(b, w, n))
           /\ n \notin DOMAIN w => FoldLeaf(b, w, n) = b
<1>1. n \notin DOMAIN w => FoldLeaf(b, w, n) = b BY DEF FoldLeaf
<1>2. CASE n \in DOMAIN w
    <2> DEFINE path == Above[n] \cup {n}
               Off(a) == {k \in DOMAIN b \ path : Parent[k] \in Above[n] \cap Under(a)}
               HashOf(a) == w[n] \cup UNION {b[k] : k \in Off(a)}
               t == [m \in DOMAIN b \cup {n} |->
                        IF m = n THEN w[n] ELSE IF m \in Refolded(b, n) THEN HashOf(m) ELSE b[m]]
    <2>1. FoldLeaf(b, w, n) = t BY <1>2 DEF FoldLeaf
    <2>2. n \in Nodes /\ DOMAIN b \subseteq Nodes BY <1>2 DEF IsTree
    <2>3. \A k \in DOMAIN b : b[k] \in SUBSET (Nodes \X Payloads) BY DEF IsTree
    <2>4. w[n] \in SUBSET (Nodes \X Payloads) BY <1>2 DEF IsTree
    <2>5. \A a : HashOf(a) \in SUBSET (Nodes \X Payloads)
        <3> TAKE a
        <3>1. \A k \in Off(a) : b[k] \in SUBSET (Nodes \X Payloads) BY <2>3
        <3> HIDE DEF Off
        <3> QED BY <3>1, <2>4
    <2> HIDE DEF HashOf
    <2>6. IsTree(t)
        <3>1. t \in [DOMAIN b \cup {n} -> SUBSET (Nodes \X Payloads)] BY <2>3, <2>4, <2>5
        <3> QED BY <3>1, <2>2 DEF IsTree
    <2>7. \A f \in Leaves : f \notin Refolded(b, n)
        BY <2>2, AboveAreDirs, TreeAssumption DEF Refolded
    <2>8. \A f \in Leaves \cap DOMAIN t : \E x \in Payloads : t[f] = {<<f, x>>}
        <3>1. \A f \in Leaves \cap (DOMAIN b \cup {n}) : t[f] = IF f = n THEN w[n] ELSE b[f] BY <2>7
        <3>2. DOMAIN t = DOMAIN b \cup {n} OBVIOUS
        <3> HIDE DEF t
        <3> QED BY <3>1, <3>2, <1>2 DEF Hashed
    <2>9. ASSUME NEW a \in Refolded(b, n)
          PROVE  HashOf(a) # {} /\ \A k \in Nodes, x \in Payloads : <<k, x>> \in HashOf(a) => k \in Under(a)
        <3>1. a \in Above[n] /\ a \in Dirs /\ a \in Nodes BY <2>2, AboveAreDirs DEF Refolded, Nodes
        <3>2. n \in Under(a) BY <3>1, <2>2 DEF Under
        <3>3. HashOf(a) # {} BY <1>2 DEF HashOf, Hashed
        <3>4. ASSUME NEW k \in Off(a) PROVE k \in DOMAIN b /\ k \in Under(a)
            <4>1. k \in DOMAIN b /\ k \in Nodes /\ k # Root /\ Parent[k] \in Under(a) BY <2>2, RootIsAbove
            <4>2. Parent[k] \in Above[k] BY <4>1, Ancestors
            <4> QED BY <4>1, <4>2, <3>1, UnderFacts
        <3>5. ASSUME NEW k \in Nodes, NEW x \in Payloads, <<k, x>> \in HashOf(a) PROVE k \in Under(a)
            <4>1. CASE <<k, x>> \in w[n] BY <4>1, <3>1, <3>2, <1>2, UnderFacts DEF Hashed
            <4>2. CASE \E j \in Off(a) : <<k, x>> \in b[j] BY <4>2, <3>1, <3>4, UnderFacts DEF Hashed
            <4> QED BY <3>5, <4>1, <4>2 DEF HashOf
        <3> QED BY <3>3, <3>5
    <2>10. Hashed(t)
        <3>1. ASSUME NEW d \in DOMAIN t
              PROVE  t[d] # {} /\ \A k \in Nodes, x \in Payloads : <<k, x>> \in t[d] => k \in Under(d)
            <4>1. CASE d = n BY <4>1, <1>2 DEF Hashed
            <4>2. CASE d # n /\ d \in Refolded(b, n) BY <4>2, <2>9
            <4>3. CASE d # n /\ d \notin Refolded(b, n) BY <4>3 DEF Hashed
            <4> QED BY <4>1, <4>2, <4>3
        <3> HIDE DEF t
        <3> QED BY <2>8, <3>1 DEF Hashed
    <2> QED BY <2>1, <2>6, <2>10, <1>2
<1> QED BY <1>1, <1>2

\* Between a directory above n and another node below it there is a node off the path to n,
\* whose parent is on that path.
LEMMA OffThePath ==
    ASSUME NEW n \in Nodes, NEW a \in Above[n]
    PROVE  \A f \in Nodes : a \in Above[f] /\ f \notin Above[n] \cup {n} /\ n \notin Above[f] =>
              \E k \in Above[f] \cup {f} : /\ k \notin Above[n] \cup {n} /\ k # Root
                                           /\ Parent[k] \in Above[n] \cap Under(a)
<1> DEFINE Goal(f) == \E k \in Above[f] \cup {f} : /\ k \notin Above[n] \cup {n} /\ k # Root
                                                   /\ Parent[k] \in Above[n] \cap Under(a)
           U == {f \in Nodes : a \in Above[f] /\ f \notin Above[n] \cup {n} /\ n \notin Above[f] => Goal(f)}
<1>1. Root \in U BY Ancestors
<1>2. ASSUME NEW f \in Nodes \ {Root}, Parent[f] \in U PROVE f \in U
    <2> SUFFICES ASSUME a \in Above[f], f \notin Above[n] \cup {n}, n \notin Above[f] PROVE Goal(f) OBVIOUS
    <2>1. Parent[f] \in Dirs /\ Above[f] = {Parent[f]} \cup Above[Parent[f]] /\ a \in Dirs
        BY Ancestors, AboveAreDirs
    <2>2. CASE Parent[f] \in Above[n]
        <3>1. Parent[f] \in Under(a) BY <2>1 DEF Under, Nodes
        <3> QED BY <3>1, <2>2
    <2>3. CASE Parent[f] \notin Above[n]
        <3>1. a \in Above[Parent[f]] /\ Parent[f] # n /\ n \notin Above[Parent[f]] BY <2>1, <2>3
        <3>2. Goal(Parent[f]) BY <3>1, <2>1, <2>3, <1>2
        <3> QED BY <3>2, <2>1
    <2> QED BY <2>2, <2>3
<1>3. U \in SUBSET Nodes OBVIOUS
<1>4. U = Nodes
    <2> HIDE DEF U
    <2> QED BY <1>1, <1>2, <1>3, TreeInduction
<1> QED BY <1>4

LEMMA FoldKeepsFolded ==
    ASSUME NEW b, IsTree(b), Hashed(b), NEW w, IsTree(w), Hashed(w),
           NEW n \in DOMAIN w, n \in Leaves, Above[n] \subseteq DOMAIN b, WellFolded(b, Root)
    PROVE  WellFolded(FoldLeaf(b, w, n), Root)
<1> DEFINE path == Above[n] \cup {n}
           Off(a) == {k \in DOMAIN b \ path : Parent[k] \in Above[n] \cap Under(a)}
           HashOf(a) == w[n] \cup UNION {b[k] : k \in Off(a)}
           t == [m \in DOMAIN b \cup {n} |->
                    IF m = n THEN w[n] ELSE IF m \in Refolded(b, n) THEN HashOf(m) ELSE b[m]]
<1>1. FoldLeaf(b, w, n) = t BY DEF FoldLeaf
<1>2. n \in Nodes /\ n \notin Dirs /\ DOMAIN b \subseteq Nodes /\ Above[n] \subseteq Dirs /\ Root \in Above[n]
    <2>1. n \in Nodes /\ n \notin Dirs /\ DOMAIN b \subseteq Nodes BY TreeAssumption DEF IsTree, Nodes
    <2> QED BY <2>1, AboveAreDirs, RootIsAbove, Ancestors
<1>3. Refolded(b, n) = Above[n] BY DEF Refolded
<1>4. PICK y \in Payloads : w[n] = {<<n, y>>} BY DEF Hashed
<1>5. /\ DOMAIN t = DOMAIN b \cup {n} /\ t[n] = w[n]
      /\ \A m \in Above[n] : t[m] = HashOf(m)
      /\ \A m \in DOMAIN b \ path : t[m] = b[m]
    BY <1>2, <1>3
<1>6. /\ \A d \in DOMAIN b : Above[d] \subseteq DOMAIN b
      /\ \A d \in DOMAIN b, j \in Nodes, x \in Payloads :
            <<j, x>> \in b[d] <=> j \in DOMAIN b \cap Under(d) /\ <<j, x>> \in b[j]
    <2>1. Under(Root) = Nodes BY UnderFacts
    <2>2. \A d \in DOMAIN b : Above[d] \subseteq Nodes BY <1>2, AboveAreDirs DEF Nodes
    <2> QED BY <2>1, <2>2 DEF WellFolded
<1>7. \A a : \A x : x \in HashOf(a) <=> x = <<n, y>> \/ \E k \in Off(a) : x \in b[k] BY <1>4
<1> HIDE DEF t, HashOf
\* What is off the path commits to nothing on it, and a directory on it not to itself.
<1>8. \A k \in DOMAIN b \ path : \A j \in path : j \notin Under(k)
    BY <1>2, AboveAreDirs, AboveIsTransitive DEF Under
<1>9. \A k \in DOMAIN b \ path, j \in path, x \in Payloads : <<j, x>> \notin b[k]
    <2>1. path \subseteq Nodes BY <1>2 DEF Nodes
    <2> QED BY <2>1, <1>6, <1>8
<1>10. ASSUME NEW d \in DOMAIN t, NEW j \in Nodes, NEW x \in Payloads
       PROVE  <<j, x>> \in t[d] <=> j \in DOMAIN t \cap Under(d) /\ <<j, x>> \in t[j]
    <2>1. CASE d = n
        <3>1. Under(n) = {n} BY UnderFacts
        <3>2. \A i : <<i, x>> \in {<<n, y>>} => i = n OBVIOUS
        <3> QED BY <2>1, <3>1, <3>2, <1>4, <1>5
    <2>2. CASE d \in Above[n]
        <3>1. d \in Nodes /\ d \in Dirs /\ n \in Under(d) BY <2>2, <1>2 DEF Under, Nodes
        <3>2. <<j, x>> \in t[d] <=> <<j, x>> = <<n, y>> \/ \E k \in Off(d) : <<j, x>> \in b[k]
            BY <2>2, <1>5, <1>7
        <3>3. CASE j = n
            <4>1. <<j, x>> \in t[d] <=> <<j, x>> = <<n, y>> BY <3>2, <3>3, <1>9
            <4>2. <<j, x>> \in t[j] <=> <<j, x>> = <<n, y>> BY <3>3, <1>4, <1>5
            <4> QED BY <4>1, <4>2, <3>1, <3>3, <1>5
        <3>4. CASE j \in Above[n]
            <4>1. <<j, x>> # <<n, y>> BY <3>4, <1>2
            <4>2. <<j, x>> \notin t[d] BY <4>1, <3>2, <3>4, <1>9
            <4>3. <<j, x>> \notin t[j] BY <4>1, <3>4, <1>5, <1>7, <1>9
            <4> QED BY <4>2, <4>3
        <3>5. CASE j \notin path
            <4>1. <<j, x>> \in t[d] <=> \E k \in Off(d) : <<j, x>> \in b[k] BY <3>2, <3>5
            <4>2. j \in DOMAIN t <=> j \in DOMAIN b BY <3>5, <1>5
            <4>3. j \in DOMAIN b => t[j] = b[j] BY <3>5, <1>5
            <4>4. ASSUME NEW k \in Off(d), <<j, x>> \in b[k] PROVE j \in DOMAIN t \cap Under(d) /\ <<j, x>> \in t[j]
                <5>1. k \in DOMAIN b /\ k \notin path /\ Parent[k] \in Under(d) /\ k \in Nodes /\ k # Root
                    BY <1>2
                <5>2. j \in DOMAIN b \cap Under(k) /\ <<j, x>> \in b[j] BY <5>1, <4>4, <1>6
                <5>3. Parent[k] \in Above[k] BY <5>1, Ancestors
                <5>4. k \in Under(d) BY <5>1, <5>3, <3>1, UnderFacts
                <5>5. j \in Under(d) BY <5>2, <5>4, <3>1, UnderFacts
                <5> QED BY <5>2, <5>5, <4>2, <4>3
            <4>5. ASSUME j \in DOMAIN t \cap Under(d), <<j, x>> \in t[j] PROVE \E k \in Off(d) : <<j, x>> \in b[k]
                <5>1. j \in DOMAIN b /\ <<j, x>> \in b[j] BY <4>2, <4>3, <4>5
                <5>2. d \in Above[j] /\ n \notin Above[j] BY <4>5, <3>5, <2>2, <1>2, AboveAreDirs DEF Under
                <5>3. PICK k \in Above[j] \cup {j} : /\ k \notin path /\ k # Root
                                                    /\ Parent[k] \in Above[n] \cap Under(d)
                    BY <5>2, <3>5, <2>2, <1>2, OffThePath
                <5>4. k \in DOMAIN b BY <5>1, <5>3, <1>6
                <5>5. j \in Under(k) BY <5>3 DEF Under
                <5>6. k \in Off(d) BY <5>3, <5>4
                <5> QED BY <5>1, <5>4, <5>5, <5>6, <1>6
            <4> QED BY <4>1, <4>4, <4>5
        <3> QED BY <3>3, <3>4, <3>5
    <2>3. CASE d \notin path
        <3>1. d \in DOMAIN b \ path /\ t[d] = b[d] BY <2>3, <1>5
        <3>2. CASE j \in path BY <3>1, <3>2, <1>8, <1>9
        <3>3. CASE j \notin path
            <4>1. j \in DOMAIN t <=> j \in DOMAIN b BY <3>3, <1>5
            <4>2. j \in DOMAIN b => t[j] = b[j] BY <3>3, <1>5
            <4> QED BY <4>1, <4>2, <3>1, <1>6
        <3> QED BY <3>2, <3>3
    <2> QED BY <2>1, <2>2, <2>3
<1>11. \A d \in DOMAIN t : Above[d] \subseteq DOMAIN t BY <1>5, <1>6
<1>12. WellFolded(t, Root) BY <1>10, <1>11 DEF WellFolded
<1> QED BY <1>1, <1>12 DEF t

----------------------------------------------------------------------------
(* The integrity forest: what a fold leaves of the other drift *)

\* What two trees commit to at or below c tells whether they have c, and what they hold of it.
LEMMA SamePart ==
    ASSUME NEW b, IsTree(b), Hashed(b), NEW w, IsTree(w), Hashed(w), NEW c,
           \A j \in Under(c), x \in Payloads :
              c \in DOMAIN b /\ <<j, x>> \in b[c] <=> c \in DOMAIN w /\ <<j, x>> \in w[c]
    PROVE  /\ c \in DOMAIN b <=> c \in DOMAIN w
           /\ c \in DOMAIN b => b[c] = w[c]
<1>1. ASSUME NEW t, IsTree(t), Hashed(t), c \in DOMAIN t
      PROVE  /\ t[c] # {}
             /\ \A z \in t[c] : \E j \in Under(c), x \in Payloads : z = <<j, x>>
    <2>1. t[c] \in SUBSET (Nodes \X Payloads) /\ t[c] # {} BY <1>1 DEF IsTree, Hashed
    <2>2. ASSUME NEW z \in t[c] PROVE \E j \in Under(c), x \in Payloads : z = <<j, x>>
        <3>1. PICK j \in Nodes, x \in Payloads : z = <<j, x>> BY <2>1
        <3>2. j \in Under(c) BY <3>1, <1>1 DEF Hashed
        <3> QED BY <3>1, <3>2
    <2> QED BY <2>1, <2>2
<1>2. c \in DOMAIN b => c \in DOMAIN w /\ b[c] \subseteq w[c]
    <2> HAVE c \in DOMAIN b
    <2>1. \A z \in b[c] : c \in DOMAIN w /\ z \in w[c] BY <1>1
    <2>2. b[c] # {} BY <1>1
    <2> QED BY <2>1, <2>2
<1>3. c \in DOMAIN w => c \in DOMAIN b /\ w[c] \subseteq b[c]
    <2> HAVE c \in DOMAIN w
    <2>1. \A z \in w[c] : c \in DOMAIN b /\ z \in b[c] BY <1>1
    <2>2. w[c] # {} BY <1>1
    <2> QED BY <2>1, <2>2
<1> QED BY <1>2, <1>3

\* Off the path to m, next to a node of it, nothing but the node itself is above or below.
LEMMA NextToThePath ==
    ASSUME NEW m \in Nodes, NEW c \in Nodes \ {Root}, c \notin Above[m] \cup {m}, Parent[c] \in Above[m]
    PROVE  /\ Under(c) \cap Under(m) = {}
           /\ \A k \in Nodes \ {Root} : k \notin Above[m] \cup {m} /\ Parent[k] \in Above[m] /\ k # c =>
                 Under(c) \cap Under(k) = {}
<1>1. ASSUME NEW k \in Nodes \ {Root}, Parent[k] \in Above[m] PROVE Above[k] \subseteq Above[m]
    BY <1>1, Ancestors, AboveIsTransitive
<1>2. Above[c] \subseteq Above[m] /\ m \notin Above[m] BY <1>1, AboveIsIrreflexive
<1>3. ASSUME NEW k \in Nodes, NEW j \in Under(c) \cap Under(k), k # c PROVE k \in Above[c] \/ c \in Above[k]
    <2>1. j \in Nodes /\ c \in Above[j] \cup {j} /\ k \in Above[j] \cup {j} BY DEF Under
    <2> QED BY <2>1, <1>3, AboveIsLinear
<1>4. Under(c) \cap Under(m) = {} BY <1>2, <1>3
<1>5. ASSUME NEW k \in Nodes \ {Root}, k \notin Above[m] \cup {m}, Parent[k] \in Above[m], k # c
      PROVE  Under(c) \cap Under(k) = {}
    BY <1>1, <1>2, <1>3, <1>5
<1> QED BY <1>4, <1>5

\* What a refolded directory commits to below a node next to the path is that node's hash.
LEMMA PartOfRefold ==
    ASSUME NEW b, IsTree(b), Hashed(b), NEW w, IsTree(w), Hashed(w), NEW m \in DOMAIN w,
           NEW d \in Refolded(b, m),
           NEW c \in Nodes \ {Root}, c \notin Above[m] \cup {m}, Parent[c] \in Above[m] \cap Under(d),
           NEW j \in Under(c), NEW x \in Payloads
    PROVE  <<j, x>> \in FoldLeaf(b, w, m)[d] <=> c \in DOMAIN b /\ <<j, x>> \in b[c]
<1> DEFINE path == Above[m] \cup {m}
           Off(a) == {k \in DOMAIN b \ path : Parent[k] \in Above[m] \cap Under(a)}
           HashOf(a) == w[m] \cup UNION {b[k] : k \in Off(a)}
<1>1. m \in Nodes /\ DOMAIN b \subseteq Nodes /\ j \in Nodes BY DEF IsTree, Under
<1>2. d # m /\ d \in DOMAIN b /\ d \in Above[m] BY <1>1, AboveIsIrreflexive DEF Refolded
<1>3. FoldLeaf(b, w, m)[d] = HashOf(d) BY <1>2 DEF FoldLeaf
<1>4. <<j, x>> \in HashOf(d) <=> <<j, x>> \in w[m] \/ \E k \in Off(d) : <<j, x>> \in b[k] OBVIOUS
<1>5. Root \in path BY <1>1, RootIsAbove
<1>6. <<j, x>> \notin w[m]
    <2>1. j \notin Under(m) BY <1>1, NextToThePath
    <2> QED BY <2>1, <1>1 DEF Hashed
<1>7. ASSUME NEW k \in Off(d), <<j, x>> \in b[k] PROVE k = c
    <2>1. k \in DOMAIN b /\ k \in Nodes \ {Root} /\ k \notin path /\ Parent[k] \in Above[m] BY <1>1, <1>5
    <2>2. j \in Under(k) BY <2>1, <1>1, <1>7 DEF Hashed
    <2> QED BY <2>1, <2>2, <1>1, NextToThePath
<1>8. c \in Off(d) <=> c \in DOMAIN b OBVIOUS
<1> HIDE DEF Off, HashOf
<1> QED BY <1>3, <1>4, <1>6, <1>7, <1>8

\* And so is what a directory of a folded tree commits to.
LEMMA PartOfFolded ==
    ASSUME NEW w, IsTree(w), WellFolded(w, Root), NEW d \in Dirs \cap DOMAIN w,
           NEW c \in Under(d), NEW j \in Under(c), NEW x \in Payloads
    PROVE  <<j, x>> \in w[d] <=> c \in DOMAIN w /\ <<j, x>> \in w[c]
<1>1. j \in Nodes /\ c \in Nodes /\ j \in Under(d) BY UnderFacts DEF Under
<1>2. <<j, x>> \in w[d] <=> j \in DOMAIN w /\ <<j, x>> \in w[j] BY <1>1 DEF WellFolded
<1>3. c \in DOMAIN w => (<<j, x>> \in w[c] <=> j \in DOMAIN w /\ <<j, x>> \in w[j]) BY <1>1 DEF WellFolded
<1>4. j \in DOMAIN w => c \in DOMAIN w
    <2>1. Above[j] \subseteq Nodes /\ Under(Root) = Nodes BY <1>1, AboveAreDirs, UnderFacts DEF Nodes
    <2>2. c \in Above[j] \cup {j} BY DEF Under
    <2> QED BY <2>1, <2>2 DEF WellFolded
<1> QED BY <1>2, <1>3, <1>4

\* A fold hides no other drift: what the diff against a folded tree names, and is not at or
\* below the folded node, it names after the fold.
LEMMA FoldKeepsEntries ==
    ASSUME NEW b, IsTree(b), Hashed(b), NEW w, IsTree(w), Hashed(w), WellFolded(w, Root),
           NEW m, NEW scope \in Nodes, NEW n \in DOMAIN TreeDiff(b, w, scope), n \notin Under(m)
    PROVE  n \in DOMAIN TreeDiff(FoldLeaf(b, w, m), w, scope)
<1> DEFINE t == FoldLeaf(b, w, m)
           Entry(r) == \/ (n \in DOMAIN r) # (n \in DOMAIN w)
                       \/ n \in Leaves /\ r[n] # w[n]
<1>1. \A r : n \in DOMAIN TreeDiff(r, w, scope) <=> n \in Visited(r, w, scope) /\ Entry(r) BY DEF TreeDiff
<1>2. CASE m \notin DOMAIN w BY <1>2, FoldFacts
<1>3. CASE m \in DOMAIN w
    <2>1. /\ m \in Nodes /\ n \in Nodes /\ n \in Under(scope) /\ n \in DOMAIN b \cup DOMAIN w
          /\ \A d \in Above[n] \cap Under(scope) : d \in DOMAIN b \cap DOMAIN w /\ b[d] # w[d]
          /\ Entry(b)
        BY <1>1, <1>3 DEF IsTree, Visited, Under
    <2>2. n # m /\ m \notin Above[n] BY <2>1 DEF Under
    <2>3. DOMAIN t = DOMAIN b \cup {m} BY <1>3 DEF FoldLeaf
    <2>4. \A d \in DOMAIN b : d # m /\ d \notin Refolded(b, m) => t[d] = b[d] BY <1>3 DEF FoldLeaf
    <2>5. \A f \in Leaves : f \notin Refolded(b, m) BY <2>1, AboveAreDirs, TreeAssumption DEF Refolded
    <2>6. Entry(t)
        <3> HIDE DEF t
        <3>1. n \in DOMAIN t <=> n \in DOMAIN b BY <2>2, <2>3
        <3>2. n \in Leaves /\ n \in DOMAIN b => t[n] = b[n] BY <2>2, <2>4, <2>5
        <3> QED BY <3>1, <3>2, <2>1
    <2>7. ASSUME NEW d \in Above[n] \cap Under(scope), d \in Refolded(b, m), t[d] = w[d] PROVE FALSE
        <3>1. /\ d \in Above[m] /\ d \in DOMAIN b /\ d \in DOMAIN w /\ d \in Dirs /\ d \in Nodes
              /\ \A e \in Above[m] \cap Under(d) : e \in DOMAIN b
            BY <2>1, <2>7, AboveAreDirs DEF Refolded, Nodes
        <3>2. Above[m] \subseteq DOMAIN w BY <1>3, <2>1, AboveAreDirs, UnderFacts DEF WellFolded, Nodes
        <3>3. n \notin Above[m]
            <4> SUFFICES ASSUME n \in Above[m] PROVE FALSE OBVIOUS
            <4>1. n \in DOMAIN w /\ n \notin Leaves BY <3>2, <2>1, AboveAreDirs, TreeAssumption
            <4>2. n \in DOMAIN b BY <3>1, <2>1 DEF Under
            <4> QED BY <4>1, <4>2, <2>1
        <3>4. PICK c \in Above[n] \cup {n} : /\ c \notin Above[m] \cup {m} /\ c # Root
                                             /\ Parent[c] \in Above[m] \cap Under(d)
            BY <2>1, <2>2, <3>1, <3>3, OffThePath
        <3>5. c \in Nodes BY <2>1, AboveAreDirs DEF Nodes
        <3>6. c \in Under(d)
            <4>1. Parent[c] \in Above[c] BY <3>4, <3>5, Ancestors
            <4> QED BY <4>1, <3>1, <3>4, <3>5, UnderFacts
        <3>7. \A j \in Under(c), x \in Payloads :
                  c \in DOMAIN b /\ <<j, x>> \in b[c] <=> c \in DOMAIN w /\ <<j, x>> \in w[c]
            <4> SUFFICES ASSUME NEW j \in Under(c), NEW x \in Payloads
                         PROVE  c \in DOMAIN b /\ <<j, x>> \in b[c] <=> c \in DOMAIN w /\ <<j, x>> \in w[c]
                OBVIOUS
            <4>1. <<j, x>> \in t[d] <=> c \in DOMAIN b /\ <<j, x>> \in b[c]
                BY <1>3, <2>7, <3>4, <3>5, PartOfRefold
            <4>2. <<j, x>> \in w[d] <=> c \in DOMAIN w /\ <<j, x>> \in w[c]
                BY <3>1, <3>6, PartOfFolded
            <4> QED BY <4>1, <4>2, <2>7
        <3>8. (c \in DOMAIN b <=> c \in DOMAIN w) /\ (c \in DOMAIN b => b[c] = w[c])
            BY <3>7, SamePart
        <3>9. CASE c = n BY <3>8, <3>9, <2>1
        <3>10. CASE c \in Above[n]
            <4>1. c \in Under(scope)
                <5>1. scope \in Dirs \/ Under(scope) = {scope} BY UnderFacts DEF Nodes
                <5>2. scope \in Dirs BY <5>1, <2>1, <2>7, <3>1, AboveIsIrreflexive
                <5> QED BY <5>2, <2>7, <3>6, UnderFacts
            <4> QED BY <4>1, <3>8, <3>10, <2>1
        <3> QED BY <3>4, <3>9, <3>10
    <2>8. \A d \in Above[n] \cap Under(scope) : d \in DOMAIN t \cap DOMAIN w /\ t[d] # w[d]
        <3> TAKE d \in Above[n] \cap Under(scope)
        <3>1. d \in DOMAIN b \cap DOMAIN w /\ b[d] # w[d] /\ d # m BY <2>1, <2>2
        <3> HIDE DEF t
        <3> QED BY <3>1, <2>3, <2>4, <2>7
    <2>9. n \in Visited(t, w, scope)
        <3> HIDE DEF t
        <3> QED BY <2>1, <2>3, <2>8 DEF Visited
    <2> QED BY <1>1, <2>6, <2>9
<1> QED BY <1>2, <1>3

\* A subtree that the fold did not touch is frozen as it was.
LEMMA FrozenStays ==
    ASSUME NEW b, IsTree(b), NEW w, IsTree(w), NEW m, NEW p \in Prefixes, m \notin DOMAIN w \cap Under(p)
    PROVE  FreezeSubtree(FoldLeaf(b, w, m), p) = FreezeSubtree(b, p)
<1> DEFINE t == FoldLeaf(b, w, m)
<1>1. CASE m \notin DOMAIN w BY <1>1 DEF FoldLeaf
<1>2. CASE m \in DOMAIN w
    <2>1. m \in Nodes /\ m \notin Under(p) BY <1>2 DEF IsTree
    <2>2. DOMAIN t = DOMAIN b \cup {m} BY <1>2 DEF FoldLeaf
    <2>3. \A d \in DOMAIN b : d # m /\ d \notin Refolded(b, m) => t[d] = b[d] BY <1>2 DEF FoldLeaf
    <2>4. \A d \in Under(p) : d # m /\ d \notin Refolded(b, m)
        <3>1. p \in Nodes BY PrefixFacts
        <3>2. \A d \in Under(p) : d \notin Above[m] BY <2>1, <3>1, UnderFacts
        <3> QED BY <2>1, <3>2 DEF Refolded
    <2> HIDE DEF t
    <2> DEFINE kept == DOMAIN b \cap Under(p)
    <2>5. DOMAIN t \cap Under(p) = kept BY <2>1, <2>2
    <2>6. \A n \in kept : t[n] = b[n] BY <2>3, <2>4
    <2>7. FreezeSubtree(t, p) = FreezeSubtree(b, p)
        <3>1. CASE kept = {} BY <3>1, <2>5 DEF FreezeSubtree
        <3>2. CASE kept # {}
            <4>1. FreezeSubtree(t, p) = [n \in kept |-> t[n]] BY <3>2, <2>5 DEF FreezeSubtree
            <4>2. FreezeSubtree(b, p) = [n \in kept |-> b[n]] BY <3>2 DEF FreezeSubtree
            <4> HIDE DEF kept
            <4> QED BY <4>1, <4>2, <2>6
        <3> QED BY <3>1, <3>2
    <2> QED BY <2>7 DEF t
<1> QED BY <1>1, <1>2

\* Then what the node holds of a level reads as it did before the fold.
LEMMA FoldedReadsTheSame ==
    ASSUME NEW l, NEW world, NEW guests, NEW b, IsTree(b), NEW w, IsTree(w), NEW m,
           \A p \in Prefixes : p = Host \/ p \in guests \/ m \notin DOMAIN w \cap Under(p)
    PROVE  AssembleForest(l, world, guests, FoldLeaf(b, w, m), Prefixes, {}) =
              AssembleForest(l, world, guests, b, Prefixes, {})
<1> DEFINE t == FoldLeaf(b, w, m)
<1>1. ASSUME NEW p \in Prefixes
      PROVE  Subtree(l, world, guests, t, p, {}) = Subtree(l, world, guests, b, p, {})
    <2>1. CASE p = Host \/ p \in guests BY <2>1 DEF Subtree
    <2>2. CASE ~(p = Host \/ p \in guests)
        <3>1. FreezeSubtree(t, p) = FreezeSubtree(b, p) BY <2>2, FrozenStays
        <3> QED BY <2>2, <3>1 DEF Subtree
    <2> QED BY <2>1, <2>2
<1> HIDE DEF t
<1>2. [p \in Prefixes |-> Subtree(l, world, guests, t, p, {})] =
          [p \in Prefixes |-> Subtree(l, world, guests, b, p, {})]
    BY <1>1
<1>3. AssembleForest(l, world, guests, t, Prefixes, {}) = AssembleForest(l, world, guests, b, Prefixes, {})
    BY <1>2 DEF AssembleForest
<1> QED BY <1>3 DEF t

\* A file of a stopped container is never drift: the forest has of it what the baseline has.
LEMMA StoppedIsQuiet ==
    ASSUME NEW l \in Levels, NEW world \in [Leaves -> Stat \cup {Gone}], NEW guests,
           NEW b, IsTree(b), Hashed(b), NEW p \in Guests, p \notin guests, NEW f \in Leaves \cap Under(p),
           NEW scope
    PROVE  f \notin DOMAIN TreeDiff(b, AssembleForest(l, world, guests, b, Prefixes, {}), scope)
<1> DEFINE sub == [q \in Prefixes |-> Subtree(l, world, guests, b, q, {})]
           t == FoldForestRoots(sub)
           frozen == FreezeSubtree(b, p)
<1>1. AssembleForest(l, world, guests, b, Prefixes, {}) = t BY DEF AssembleForest
<1>2. Parts(sub) BY SourceFacts
<1>3. p \in Prefixes /\ p # Host BY ForestAssumption DEF Prefixes
<1>4. sub[p] = frozen /\ DOMAIN sub = Prefixes BY <1>3 DEF Subtree
<1> HIDE DEF sub
<1>5. /\ DOMAIN t = Below(sub) \cup UNION {Above[k] : k \in Below(sub)}
      /\ \A q \in DOMAIN sub : \A n \in DOMAIN sub[q] : t[n] = sub[q][n]
    BY <1>2, RootsFacts
<1> HIDE DEF t
<1>6. f \in Nodes /\ f \notin Dirs BY TreeAssumption DEF Nodes
<1>7. f \in DOMAIN t <=> f \in DOMAIN frozen
    <2>1. f \in DOMAIN frozen => f \in DOMAIN t BY <1>3, <1>4, <1>5 DEF Below
    <2>2. ASSUME f \in DOMAIN t PROVE f \in DOMAIN frozen
        <3>1. \A k \in Below(sub) : k \in Nodes BY <1>2 DEF Below, Parts, IsTree
        <3>2. f \in Below(sub) BY <2>2, <3>1, <1>5, <1>6, AboveAreDirs
        <3>3. PICK q \in DOMAIN sub : f \in DOMAIN sub[q] BY <3>2 DEF Below
        <3>4. q \in Prefixes /\ f \in Under(q) BY <3>3, <1>2 DEF Parts
        <3>5. q = p BY <3>4, <1>3, PrefixFacts
        <3> QED BY <3>3, <3>5, <1>4
    <2> QED BY <2>1, <2>2
<1>8. /\ f \in DOMAIN frozen <=> f \in DOMAIN b
      /\ f \in DOMAIN b => frozen[f] = b[f]
    <2>1. CASE DOMAIN b \cap Under(p) = {}
        <3>1. frozen = [n \in {p} |-> {<<p, "unreadable">>}] BY <2>1 DEF FreezeSubtree
        <3>2. DOMAIN frozen = {p} BY <3>1
        <3>3. p \in Dirs BY <1>3, PrefixFacts
        <3> QED BY <2>1, <3>2, <3>3, <1>6
    <2>2. CASE DOMAIN b \cap Under(p) # {}
        <3>1. DOMAIN frozen = DOMAIN b \cap Under(p) /\ \A n \in DOMAIN frozen : frozen[n] = b[n]
            BY <2>2, <1>3, FrozenFacts
        <3> HIDE DEF frozen
        <3> QED BY <3>1
    <2> QED BY <2>1, <2>2
<1>9. (f \in DOMAIN t <=> f \in DOMAIN b) /\ (f \in DOMAIN b => t[f] = b[f])
    BY <1>3, <1>4, <1>5, <1>7, <1>8
<1>10. f \notin DOMAIN TreeDiff(b, t, scope)
    <2>1. f \in DOMAIN TreeDiff(b, t, scope) =>
             /\ f \in DOMAIN b \cup DOMAIN t
             /\ (f \in DOMAIN b) # (f \in DOMAIN t) \/ b[f] # t[f]
        BY DEF TreeDiff, Visited
    <2> QED BY <2>1, <1>9
<1> QED BY <1>1, <1>10

----------------------------------------------------------------------------
(* The integrity forest: the plan of an auto-accept *)

\* A set of numbers that is not empty has a least one.
LEMMA LeastNumber ==
    ASSUME NEW S \in SUBSET Nat, S # {}
    PROVE  \E m \in S : \A k \in S : m <= k
<1> DEFINE R == OpToRel(<, Nat)
<1>1. IsWellFoundedOn(R, Nat) BY NatLessThanWellFounded
<1>2. PICK m \in S : \A k \in S : ~(<<k, m>> \in R)
    <2> HIDE DEF R
    <2> QED BY <1>1, WFMin
<1>3. \A k \in S : ~(k < m) BY <1>2 DEF OpToRel
<1> HIDE DEF R
<1>4. \A k \in S : m <= k BY <1>3
<1> QED BY <1>4

\* The nodes that the policy can choose.
Ordered == {PathOrder[i] : i \in DOMAIN PathOrder}

LEMMA PlanIsDrift == \A drift : FoldPlan(drift) \subseteq Drifted(drift) \cap Ordered
BY DEF FoldPlan, Folds, Ordered

LEMMA FirstIsPlanned ==
    ASSUME NEW plan \in SUBSET Ordered, plan # {}
    PROVE  FirstInOrder(plan) \in plan
<1> DEFINE S == {i \in DOMAIN PathOrder : PathOrder[i] \in plan}
<1>1. DOMAIN PathOrder \subseteq Nat BY ForestAssumption
<1>2. S \in SUBSET Nat BY <1>1
<1>3. S # {}
    <2>1. PICK n \in plan : TRUE OBVIOUS
    <2>2. PICK i \in DOMAIN PathOrder : n = PathOrder[i] BY DEF Ordered
    <2> QED BY <2>2
<1>4. PICK i \in S : \A j \in S : i <= j BY <1>2, <1>3, LeastNumber
<1>5. \E k \in DOMAIN PathOrder :
         /\ PathOrder[k] \in plan
         /\ \A j \in DOMAIN PathOrder : PathOrder[j] \in plan => k <= j
    BY <1>4
<1> QED BY <1>5 DEF FirstInOrder

LEMMA PromoteFacts ==
    ASSUME NEW b, IsTree(b), Hashed(b), NEW w, IsTree(w), Hashed(w), NEW scope
    PROVE  /\ IsTree(Promote(b, w, scope)) /\ Hashed(Promote(b, w, scope))
           /\ Promote(b, w, Root) = w
<1> DEFINE taken(s) == DOMAIN w \cap Under(s)
           t(s) == [n \in (DOMAIN b \ Under(s)) \cup taken(s) |-> IF n \in taken(s) THEN w[n] ELSE b[n]]
<1>1. Promote(b, w, scope) = t(scope) /\ Promote(b, w, Root) = t(Root) BY DEF Promote
<1>2. IsTree(t(scope)) BY DEF IsTree
<1>3. Hashed(t(scope)) BY DEF Hashed
<1>4. t(Root) = w
    <2>1. taken(Root) = DOMAIN w /\ DOMAIN b \ Under(Root) = {} BY UnderFacts DEF IsTree
    <2> QED BY <2>1 DEF IsTree
<1> QED BY <1>1, <1>2, <1>3, <1>4

----------------------------------------------------------------------------
(* Types *)

\* What the trees in the stores and in flight hold of a leaf is one pair, its own.
LeavesHold ==
    /\ \A l \in Levels : Hashed(baseline[l]) /\ Hashed(working[l])
    /\ \A c \in CallIds : call[c].read # <<>> => Hashed(TreeRead(c))

LEMMA EmptyIsFolded == EmptyTree \in Trees /\ IsTree(EmptyTree) /\ Hashed(EmptyTree) /\ WellFolded(EmptyTree, Root)
<1>1. DOMAIN EmptyTree = {} /\ EmptyTree \in [{} -> SUBSET (Nodes \X Payloads)] BY DEF EmptyTree
<1>2. IsTree(EmptyTree) BY <1>1 DEF IsTree
<1>3. Hashed(EmptyTree) BY <1>1 DEF Hashed
<1>4. WellFolded(EmptyTree, Root) BY <1>1 DEF WellFolded
<1> QED BY <1>2, <1>3, <1>4, TreesAre

LEMMA NoCallTyped == NoCall \in CallRecords /\ NoCall.read = <<>> /\ NoCall.stage = "idle" /\ NoCall.alone = FALSE
<1>1. NoDrift \in [Levels -> Trees] BY EmptyIsFolded DEF NoDrift
<1>2. Root \in Nodes BY Ancestors
<1> QED BY <1>1, <1>2 DEF NoCall, CallRecords, Stages, Levels

LEMMA LevelLists ==
    ASSUME NEW level \in Levels \cup {"smart"}
    PROVE  /\ LevelsOf(level) \in Seq(Levels) /\ LevelsOf(level) # <<>>
           /\ FirstLevels(level) \in Seq(Levels) /\ FirstLevels(level) # <<>>
           /\ FirstStage(level) \in {"seed", "diff"}
<1>1. LEVELS \in Seq(Levels) /\ LEVELS # <<>> BY DEF LEVELS, Levels
<1>2. \A l \in Levels : <<l>> \in Seq(Levels) /\ <<l>> # <<>> /\ <<"l1", l>> \in Seq(Levels) /\ <<"l1", l>> # <<>>
    BY DEF Levels
<1>3. "l1" \in Levels BY DEF Levels
<1>4. LevelsOf(level) \in Seq(Levels) /\ LevelsOf(level) # <<>> BY <1>1, <1>2 DEF LevelsOf
<1>5. FirstLevels(level) \in Seq(Levels) /\ FirstLevels(level) # <<>> BY <1>2, <1>3, <1>4 DEF FirstLevels
<1>6. FirstStage(level) \in {"seed", "diff"} BY DEF FirstStage
<1> QED BY <1>4, <1>5, <1>6

LEMMA ListFacts ==
    ASSUME NEW S, NEW s \in Seq(S), s # <<>>
    PROVE  /\ Head(s) \in S /\ Tail(s) \in Seq(S) /\ s[1] \in S
           /\ Len(s) # 1 => Tail(s) # <<>>
<1>1. Len(s) \in Nat /\ Len(s) # 0 OBVIOUS
<1>2. Head(s) \in S /\ Tail(s) \in Seq(S) /\ s[1] \in S /\ Len(Tail(s)) = Len(s) - 1 BY <1>1
<1>3. Len(<<>>) = 0 OBVIOUS
<1> QED BY <1>1, <1>2, <1>3

LEMMA ReadIsTree ==
    ASSUME ForestTypeOK, NEW c \in CallIds, call[c].read # <<>>
    PROVE  TreeRead(c) \in Trees /\ IsTree(TreeRead(c))
<1>1. call[c].read \in Seq(Trees) BY DEF ForestTypeOK, CallRecords
<1>2. call[c].read[1] \in Trees BY <1>1
<1> QED BY <1>2, TreesAre DEF TreeRead

LEMMA LevelOfCall ==
    ASSUME ForestTypeOK, NEW c \in CallIds, call[c].stage \notin {"idle", "fold"}
    PROVE  /\ LevelRead(c) \in Levels
           /\ call[c].todo \in Seq(Levels) /\ call[c].todo # <<>>
           /\ Tail(call[c].todo) \in Seq(Levels)
           /\ Len(call[c].todo) # 1 => Tail(call[c].todo) # <<>>
<1>1. call[c].todo \in Seq(Levels) /\ call[c].todo # <<>> BY DEF ForestTypeOK, CallRecords
<1> QED BY <1>1, ListFacts DEF LevelRead

LEMMA NextLevelTyped ==
    ASSUME ForestTypeOK, NEW c \in CallIds, call[c].stage \notin {"idle", "fold"}
    PROVE  /\ NextLevel(c) \in CallRecords /\ NextLevel(c).read = <<>>
           /\ NextLevel(c).stage \notin {"idle", "fold"} => NextLevel(c).todo # <<>>
           /\ Len(call[c].todo) = 1 => NextLevel(c) = NoCall
           /\ Len(call[c].todo) # 1 => /\ NextLevel(c).todo = Tail(call[c].todo)
                                       /\ NextLevel(c).stage = call[c].stage
                                       /\ NextLevel(c).scope = call[c].scope
                                       /\ NextLevel(c).alone = call[c].alone
                                       /\ NextLevel(c).drift = call[c].drift
                                       /\ NextLevel(c).plan = call[c].plan
                                       /\ NextLevel(c).chosen = call[c].chosen
                                       /\ NextLevel(c).level = call[c].level
<1>1. call[c] \in CallRecords BY DEF ForestTypeOK
<1>2. CASE Len(call[c].todo) = 1 BY <1>2, NoCallTyped DEF NextLevel
<1>3. CASE Len(call[c].todo) # 1
    <2>1. NextLevel(c) = [call[c] EXCEPT !.todo = Tail(@), !.read = <<>>] BY <1>3 DEF NextLevel
    <2>2. Tail(call[c].todo) \in Seq(Levels) /\ Tail(call[c].todo) # <<>> BY <1>3, LevelOfCall
    <2>3. <<>> \in Seq(Trees) OBVIOUS
    <2> DEFINE r == [call[c] EXCEPT !.todo = Tail(@), !.read = <<>>]
    <2>4. /\ r \in CallRecords /\ r.read = <<>> /\ r.todo = Tail(call[c].todo)
          /\ r.stage = call[c].stage /\ r.scope = call[c].scope /\ r.alone = call[c].alone
          /\ r.drift = call[c].drift /\ r.plan = call[c].plan /\ r.chosen = call[c].chosen
          /\ r.level = call[c].level
        BY <1>1, <2>2, <2>3 DEF CallRecords
    <2> HIDE DEF r
    <2> QED BY <2>1, <2>2, <2>4, <1>3 DEF r
<1> QED BY <1>2, <1>3

LEMMA DiffTyped ==
    ASSUME NEW b, NEW w, IsTree(w), NEW scope
    PROVE  TreeDiff(b, w, scope) \in Trees
<1> DEFINE entries == {n \in Visited(b, w, scope) : \/ (n \in DOMAIN b) # (n \in DOMAIN w)
                                                    \/ n \in Leaves /\ b[n] # w[n]}
<1>1. TreeDiff(b, w, scope) = [n \in entries |-> IF n \in DOMAIN w THEN w[n] ELSE {}] BY DEF TreeDiff
<1>2. entries \subseteq Nodes BY DEF Visited, Under
<1> HIDE DEF entries
<1>3. [n \in entries |-> IF n \in DOMAIN w THEN w[n] ELSE {}] \in [entries -> SUBSET (Nodes \X Payloads)]
    BY DEF IsTree
<1> QED BY <1>1, <1>2, <1>3 DEF Trees

LEMMA PlanTyped == \A drift : FoldPlan(drift) \subseteq Nodes
BY ForestAssumption DEF FoldPlan

LEMMA BeginFacts ==
    ASSUME ForestTypeOK, NEW c \in CallIds, NEW rec \in CallRecords, Begin(c, rec)
    PROVE  /\ call' \in [CallIds -> CallRecords]
           /\ call'[c].read = rec.read /\ call'[c].stage = rec.stage /\ call'[c].todo = rec.todo
           /\ call'[c].scope = rec.scope /\ call'[c].drift = rec.drift
           /\ call'[c].alone = \A d \in CallIds : ~InFlight(d)
           /\ \A d \in CallIds \ {c} :
                 /\ call'[d].read = call[d].read /\ call'[d].stage = call[d].stage
                 /\ call'[d].todo = call[d].todo /\ call'[d].scope = call[d].scope
                 /\ call'[d].stale = call[d].stale
                 /\ call'[d].alone = FALSE
<1> DEFINE r == [rec EXCEPT !.alone = \A d \in CallIds : ~InFlight(d)]
           q(d) == [call[d] EXCEPT !.alone = FALSE]
<1>1. call \in [CallIds -> CallRecords] BY DEF ForestTypeOK
<1>2. r \in CallRecords /\ r.read = rec.read /\ r.stage = rec.stage /\ r.todo = rec.todo /\ r.scope = rec.scope
      /\ r.drift = rec.drift
      /\ r.alone = \A d \in CallIds : ~InFlight(d)
    BY DEF CallRecords
<1>3. \A d \in CallIds : /\ q(d) \in CallRecords /\ q(d).read = call[d].read /\ q(d).stage = call[d].stage
                         /\ q(d).todo = call[d].todo /\ q(d).scope = call[d].scope
                         /\ q(d).stale = call[d].stale /\ q(d).alone = FALSE
    BY <1>1 DEF CallRecords
<1>4. call' = [[d \in CallIds |-> q(d)] EXCEPT ![c] = r] BY DEF Begin, Disturbed
<1> HIDE DEF r, q
<1>5. call'[c] = r /\ \A d \in CallIds \ {c} : call'[d] = q(d) BY <1>4
<1>6. call' \in [CallIds -> CallRecords] BY <1>2, <1>3, <1>4
<1> QED BY <1>2, <1>3, <1>5, <1>6

LEMMA SingletonSeq == ASSUME NEW S, NEW x \in S PROVE <<x>> \in Seq(S)
OBVIOUS

\* Every call of the tools starts with a record of its own.
LEMMA BeginsTyped ==
    ASSUME NEW c \in CallIds, IntegrityTools(c)
    PROVE  \E rec \in CallRecords :
              /\ Begin(c, rec) /\ rec.read = <<>> /\ rec.drift = NoDrift /\ rec.todo # <<>>
              /\ rec.stage \in {"compute", "seed", "diff", "promote"}
              /\ rec.stage = "promote" => rec.todo = LEVELS
<1>1. Root \in Nodes /\ NoCall \in CallRecords /\ NoCall.read = <<>> /\ NoCall.drift = NoDrift
    BY Ancestors, NoCallTyped DEF NoCall
<1>2. ASSUME NEW level \in ComputeLevels, ComputeTree(c, level)
      PROVE  \E rec \in CallRecords : /\ Begin(c, rec) /\ rec.read = <<>> /\ rec.drift = NoDrift /\ rec.todo # <<>> /\ rec.stage = "compute"
    <2> DEFINE rec == [NoCall EXCEPT !.stage = "compute", !.level = level, !.todo = <<level>>]
    <2>1. level \in Levels BY ForestAssumption
    <2>2. <<level>> \in Seq(Levels) /\ <<level>> # <<>> BY <2>1
    <2>3. rec \in CallRecords /\ rec.read = <<>> /\ rec.drift = NoDrift /\ rec.todo = <<level>> /\ rec.stage = "compute"
        BY <1>1, <2>1, <2>2 DEF CallRecords, Stages
    <2>4. Begin(c, rec) BY <1>2 DEF ComputeTree
    <2> HIDE DEF rec
    <2> QED BY <2>2, <2>3, <2>4
<1>3. ASSUME NEW level \in VerifyLevels, NEW scope \in ReportScopes, NEW auto \in BOOLEAN, Verify(c, level, scope, auto)
      PROVE  \E rec \in CallRecords : /\ Begin(c, rec) /\ rec.read = <<>> /\ rec.drift = NoDrift /\ rec.todo # <<>> /\ rec.stage \in {"seed", "diff"}
    <2> DEFINE rec == [NoCall EXCEPT !.stage = FirstStage(level), !.todo = FirstLevels(level),
                                     !.level = level, !.scope = scope, !.auto = auto]
    <2>1. level \in Levels \cup {"smart"} /\ scope \in Nodes BY ForestAssumption
    <2>2. FirstLevels(level) \in Seq(Levels) /\ FirstLevels(level) # <<>> /\ FirstStage(level) \in {"seed", "diff"}
        BY <2>1, LevelLists
    <2>3. rec \in CallRecords /\ rec.read = <<>> /\ rec.drift = NoDrift /\ rec.todo = FirstLevels(level) /\ rec.stage = FirstStage(level)
        BY <1>1, <2>1, <2>2 DEF CallRecords, Stages
    <2>4. Begin(c, rec) BY <1>3 DEF Verify
    <2> HIDE DEF rec
    <2> QED BY <2>2, <2>3, <2>4
<1>4. ASSUME NEW scope \in AcceptScopes, AcceptTruth(c, scope)
      PROVE  \E rec \in CallRecords : /\ Begin(c, rec) /\ rec.read = <<>> /\ rec.drift = NoDrift /\ rec.todo # <<>> /\ rec.stage = "promote"
                                      /\ rec.todo = LEVELS
    <2> DEFINE rec == [NoCall EXCEPT !.stage = "promote", !.todo = LEVELS, !.scope = scope]
    <2>1. scope \in Nodes BY ForestAssumption
    <2>2. LEVELS \in Seq(Levels) /\ LEVELS # <<>> BY DEF LEVELS, Levels
    <2>3. rec \in CallRecords /\ rec.read = <<>> /\ rec.drift = NoDrift /\ rec.todo = LEVELS /\ rec.stage = "promote"
        BY <1>1, <2>1, <2>2 DEF CallRecords, Stages
    <2>4. Begin(c, rec) BY <1>4 DEF AcceptTruth
    <2> HIDE DEF rec
    <2> QED BY <2>2, <2>3, <2>4
<1>5. CASE \E level \in ComputeLevels : ComputeTree(c, level) BY <1>2, <1>5
<1>6. CASE \E level \in VerifyLevels, scope \in ReportScopes, auto \in BOOLEAN : Verify(c, level, scope, auto)
    BY <1>3, <1>6
<1>7. CASE \E scope \in AcceptScopes : AcceptTruth(c, scope) BY <1>4, <1>7
<1> QED BY <1>5, <1>6, <1>7 DEF IntegrityTools

LEMMA FoldNextFacts ==
    ASSUME ForestTypeOK, LeavesHold, NEW c \in CallIds, NEW w \in [Levels -> Trees], \A l \in Levels : Hashed(w[l]),
           FoldNext(c, w)
    PROVE  /\ baseline' \in [Levels -> Trees] /\ \A l \in Levels : Hashed(baseline'[l])
           /\ audited' \subseteq FileContents /\ grafted' \subseteq Levels
           /\ grafted \subseteq grafted'
           /\ \A l \in Levels \ grafted' : WellFolded(baseline[l], Root) => WellFolded(baseline'[l], Root)
           /\ settled' = Gone
<1> DEFINE n == FirstInOrder(call[c].plan)
           ls == IF call[c].level = "smart" THEN Levels ELSE {call[c].level}
           new(l) == IF l \in ls THEN FoldLeaf(baseline[l], w[l], n) ELSE baseline[l]
           bad(l) == n \in DOMAIN w[l] /\ (n \in Leaves => ~(Above[n] \subseteq DOMAIN baseline[l]))
<1>1. /\ baseline' = [l \in Levels |-> new(l)] /\ settled' = Gone
      /\ audited' \subseteq audited \cup FileContents
      /\ grafted' = grafted \cup {l \in ls : bad(l)}
    <2>1. baseline' = [l \in Levels |-> new(l)] BY DEF FoldNext
    <2>2. settled' = Gone BY DEF FoldNext
    <2>3. grafted' = grafted \cup {l \in ls : bad(l)} BY DEF FoldNext
    <2>4. audited' \subseteq audited \cup FileContents BY DEF FoldNext
    <2> QED BY <2>1, <2>2, <2>3, <2>4
<1>2. /\ baseline \in [Levels -> Trees] /\ audited \subseteq FileContents /\ grafted \subseteq Levels
    BY DEF ForestTypeOK
<1> HIDE DEF ls, n
<1>3. ASSUME NEW l \in Levels
      PROVE  /\ IsTree(new(l)) /\ Hashed(new(l))
             /\ l \notin grafted' /\ WellFolded(baseline[l], Root) => WellFolded(new(l), Root)
    <2>1. IsTree(baseline[l]) /\ Hashed(baseline[l]) /\ IsTree(w[l]) /\ Hashed(w[l])
        BY <1>2, TreesAre DEF LeavesHold
    <2>2. CASE l \notin ls BY <2>1, <2>2
    <2>3. CASE l \in ls
        <3>1. new(l) = FoldLeaf(baseline[l], w[l], n) BY <2>3
        <3>2. IsTree(new(l)) /\ Hashed(new(l)) BY <3>1, <2>1, FoldFacts
        <3>3. ASSUME l \notin grafted', WellFolded(baseline[l], Root) PROVE WellFolded(new(l), Root)
            <4>1. ~bad(l) BY <3>3, <1>1, <2>3
            <4>2. CASE n \notin DOMAIN w[l] BY <4>2, <3>1, <3>3, <2>1, FoldFacts
            <4>3. CASE n \in DOMAIN w[l] /\ n \in Leaves /\ Above[n] \subseteq DOMAIN baseline[l]
                BY <4>3, <3>1, <3>3, <2>1, FoldKeepsFolded
            <4> QED BY <4>1, <4>2, <4>3
        <3> QED BY <3>2, <3>3
    <2> QED BY <2>2, <2>3
<1>4. \A l \in Levels : new(l) \in Trees BY <1>3, TreesAre
<1> HIDE DEF new
<1>5. \A l \in Levels : baseline'[l] = new(l) BY <1>1
<1>6. {l \in ls : bad(l)} \subseteq Levels
    <2>1. call[c].level \in Levels \cup {"smart"} BY DEF ForestTypeOK, CallRecords
    <2> QED BY <2>1 DEF ls
<1> HIDE DEF bad
<1> QED BY <1>1, <1>2, <1>3, <1>4, <1>5, <1>6

----------------------------------------------------------------------------
(* What the trees are, and which of them are folded all through *)

\* A level that nobody grafted has a baseline whose hashes are those of its leaves, and so
\* has what a call reads that froze no grafted container.
GraftsAreKnown ==
    /\ \A l \in Levels \ grafted : WellFolded(baseline[l], Root)
    /\ \A c \in CallIds : call[c].read # <<>> /\ ~call[c].stale => WellFolded(TreeRead(c), Root)

TreesFit == ForestTypeOK /\ LeavesHold /\ GraftsAreKnown

\* What a step must give of the calls, for those that did not read in it.
CallsFit(cs) ==
    /\ cs \in [CallIds -> CallRecords]
    /\ \A d \in CallIds : cs[d].stage \notin {"idle", "fold"} => cs[d].todo # <<>>
    /\ \A d \in CallIds : cs[d].read # <<>> =>
          cs[d].read = call[d].read /\ cs[d].stale = call[d].stale

LEMMA CallsKeepTrees ==
    ASSUME TreesFit, CallsFit(call')
    PROVE  \A d \in CallIds : call'[d].read # <<>> =>
              /\ Hashed(TreeRead(d)')
              /\ ~call'[d].stale => WellFolded(TreeRead(d)', Root)
<1> SUFFICES ASSUME NEW d \in CallIds, call'[d].read # <<>>
             PROVE  /\ Hashed(TreeRead(d)')
                    /\ ~call'[d].stale => WellFolded(TreeRead(d)', Root)
    OBVIOUS
<1>1. call'[d].read = call[d].read /\ call'[d].stale = call[d].stale BY DEF CallsFit
<1>2. TreeRead(d)' = TreeRead(d) BY <1>1 DEF TreeRead
<1> QED BY <1>1, <1>2 DEF TreesFit, LeavesHold, GraftsAreKnown

\* A call that ends, or goes on with nothing read, leaves the others as they are.
LEMMA OneCallFits ==
    ASSUME TreesFit, NEW c \in CallIds, NEW r \in CallRecords,
           r.read = <<>> \/ (r.read = call[c].read /\ r.stale = call[c].stale),
           r.stage \notin {"idle", "fold"} => r.todo # <<>>,
           call' = [call EXCEPT ![c] = r]
    PROVE  CallsFit(call')
<1>1. call \in [CallIds -> CallRecords] BY DEF TreesFit, ForestTypeOK
<1>2. call' \in [CallIds -> CallRecords] BY <1>1
<1>3. \A d \in CallIds : call'[d] = IF d = c THEN r ELSE call[d] BY <1>1
<1> QED BY <1>2, <1>3 DEF CallsFit, TreesFit, ForestTypeOK

LEMMA DisturbedFits ==
    ASSUME TreesFit, call' = Disturbed
    PROVE  CallsFit(call')
<1>1. call \in [CallIds -> CallRecords] BY DEF TreesFit, ForestTypeOK
<1> DEFINE q(d) == [call[d] EXCEPT !.alone = FALSE]
<1>2. \A d \in CallIds : /\ q(d) \in CallRecords /\ q(d).read = call[d].read /\ q(d).stage = call[d].stage
                         /\ q(d).todo = call[d].todo /\ q(d).stale = call[d].stale
    BY <1>1 DEF CallRecords
<1>3. call' = [d \in CallIds |-> q(d)] BY DEF Disturbed
<1> HIDE DEF q
<1>4. call' \in [CallIds -> CallRecords] BY <1>2, <1>3
<1>5. \A d \in CallIds : call'[d] = q(d) BY <1>3
<1> QED BY <1>2, <1>4, <1>5 DEF CallsFit, TreesFit, ForestTypeOK

LEMMA BeginFits ==
    ASSUME TreesFit, NEW c \in CallIds, IntegrityTools(c)
    PROVE  CallsFit(call') /\ calls' \in 0..MaxCalls
           /\ UNCHANGED <<files, up, baseline, working, audited, settled, grafted, events>>
<1>1. PICK rec \in CallRecords : /\ Begin(c, rec) /\ rec.read = <<>> /\ rec.todo # <<>>
    BY BeginsTyped
<1>2. ForestTypeOK BY DEF TreesFit
<1>3. CallsFit(call')
    <2>1. /\ call' \in [CallIds -> CallRecords]
          /\ call'[c].read = <<>> /\ call'[c].todo # <<>>
          /\ \A d \in CallIds \ {c} :
                /\ call'[d].read = call[d].read /\ call'[d].stage = call[d].stage
                /\ call'[d].todo = call[d].todo /\ call'[d].stale = call[d].stale
        BY <1>1, <1>2, BeginFacts
    <2>2. \A d \in CallIds : call[d].stage \notin {"idle", "fold"} => call[d].todo # <<>>
        BY <1>2 DEF ForestTypeOK
    <2>3. \A d \in CallIds : call'[d].stage \notin {"idle", "fold"} => call'[d].todo # <<>>
        BY <2>1, <2>2
    <2>4. \A d \in CallIds : call'[d].read # <<>> =>
              call'[d].read = call[d].read /\ call'[d].stale = call[d].stale
        BY <2>1
    <2> QED BY <2>1, <2>3, <2>4 DEF CallsFit
<1>4. calls' = calls + 1 /\ calls < MaxCalls /\ calls \in 0..MaxCalls
      /\ UNCHANGED <<files, up, baseline, working, audited, settled, grafted, events>>
    BY <1>1, <1>2 DEF Begin, ForestTypeOK
<1> QED BY <1>3, <1>4, ForestAssumption

LEMMA ClearedFits == Cleared \in [Levels -> Trees] /\ \A l \in Levels : Hashed(Cleared[l])
BY EmptyIsFolded DEF Cleared

\* The stores keep their shape when the trees put into them have it.
LEMMA StoresFit ==
    ASSUME TreesFit, CallsFit(call'),
           baseline' \in [Levels -> Trees], \A l \in Levels : Hashed(baseline'[l]),
           working' \in [Levels -> Trees], \A l \in Levels : Hashed(working'[l]),
           grafted' \subseteq Levels, \A l \in Levels \ grafted' : WellFolded(baseline'[l], Root),
           files' \in [Leaves -> Stat \cup {Gone}], up' \subseteq Guests, audited' \subseteq FileContents,
           calls' \in 0..MaxCalls, events' \in 0..MaxEvents
    PROVE  TreesFit'
<1>1. ForestTypeOK' BY DEF ForestTypeOK, CallsFit
<1>2. \A d \in CallIds : call'[d].read # <<>> =>
              /\ Hashed(TreeRead(d)')
              /\ ~call'[d].stale => WellFolded(TreeRead(d)', Root)
    BY CallsKeepTrees
<1>3. LeavesHold' BY <1>2 DEF LeavesHold
<1>4. GraftsAreKnown' BY <1>2 DEF GraftsAreKnown
<1> QED BY <1>1, <1>3, <1>4 DEF TreesFit

\* The files that sha256sum did not answer for.
Losses == {{}} \cup {{f} : f \in Leaves}

\* What a call reads now from these sources.
ReadOf(c, prefixes, lost) ==
    AssembleForest(LevelRead(c), files, up, baseline[LevelRead(c)], prefixes, lost)

\* A read, with what it picks: the sources that answered, and the file that did not.
LEMMA ReadParts ==
    ASSUME ForestTypeOK, LeavesHold, NEW c \in CallIds, Read(c)
    PROVE  \E prefixes \in {Prefixes, {Host}}, lost \in Losses :
              /\ events' = events \/ (events < MaxEvents /\ events' = events + 1)
              /\ call' \in [CallIds -> CallRecords]
              /\ \A d \in CallIds \ {c} : call'[d] = call[d]
              /\ call'[c].read = <<ReadOf(c, prefixes, lost)>>
              /\ call'[c].stage = call[c].stage /\ call'[c].todo = call[c].todo
              /\ call'[c].scope = call[c].scope
              /\ call'[c].alone = (call[c].alone /\ prefixes = Prefixes /\ lost = {})
              /\ call'[c].stale = (LevelRead(c) \in grafted /\ ~(prefixes \subseteq {Host} \cup up))
              /\ IsTree(ReadOf(c, prefixes, lost)) /\ Hashed(ReadOf(c, prefixes, lost))
              /\ WellFolded(baseline[LevelRead(c)], Root) \/ prefixes \subseteq {Host} \cup up =>
                    WellFolded(ReadOf(c, prefixes, lost), Root)
<1> DEFINE Bad(prefixes, lost) == prefixes # Prefixes \/ lost # {}
<1>1. PICK prefixes \in {Prefixes, {Host}}, lost \in Losses :
        /\ Bad(prefixes, lost) => events < MaxEvents
        /\ events' = IF Bad(prefixes, lost) THEN events + 1 ELSE events
        /\ call' = [call EXCEPT
              ![c].read = <<ReadOf(c, prefixes, lost)>>,
              ![c].alone = @ /\ ~Bad(prefixes, lost),
              ![c].stale = LevelRead(c) \in grafted /\ ~(prefixes \subseteq {Host} \cup up)]
    BY DEF Read, LevelRead, Losses, ReadOf
<1> DEFINE alone == call[c].alone /\ ~Bad(prefixes, lost)
           stale == LevelRead(c) \in grafted /\ ~(prefixes \subseteq {Host} \cup up)
           t == ReadOf(c, prefixes, lost)
           r == [call[c] EXCEPT !.read = <<t>>, !.alone = alone, !.stale = stale]
<1>2. call[c].alone \in BOOLEAN /\ call[c] \in CallRecords /\ call \in [CallIds -> CallRecords]
    BY DEF ForestTypeOK, CallRecords
<1>3. alone \in BOOLEAN /\ stale \in BOOLEAN BY <1>2
<1>4. alone = (call[c].alone /\ prefixes = Prefixes /\ lost = {}) BY <1>2
<1>5. call' = [call EXCEPT ![c] = r] BY <1>1
<1>6. events' = events \/ (events < MaxEvents /\ events' = events + 1)
    <2> HIDE DEF Bad
    <2>1. (Bad(prefixes, lost) => events < MaxEvents) /\ events' = IF Bad(prefixes, lost) THEN events + 1 ELSE events
        BY <1>1, Zenon
    <2>2. CASE Bad(prefixes, lost) BY <2>1, <2>2
    <2>3. CASE ~Bad(prefixes, lost) BY <2>1, <2>3
    <2> QED BY <2>2, <2>3
<1>7. LevelRead(c) \in Levels BY LevelOfCall DEF Read, InFlight
<1>8. /\ files \in [Leaves -> Stat \cup {Gone}]
      /\ IsTree(baseline[LevelRead(c)]) /\ Hashed(baseline[LevelRead(c)])
    BY <1>7, TreesAre DEF ForestTypeOK, LeavesHold
<1>9. prefixes \in SUBSET Prefixes BY DEF Prefixes
<1>10. /\ IsTree(t) /\ Hashed(t)
       /\ WellFolded(baseline[LevelRead(c)], Root) \/ prefixes \subseteq {Host} \cup up => WellFolded(t, Root)
    BY <1>7, <1>8, <1>9, ForestFacts DEF ReadOf
<1> HIDE DEF t, Bad
<1>11. <<t>> \in Seq(Trees) BY <1>10, TreesAre, SingletonSeq
<1>12. /\ r \in CallRecords /\ r.read = <<t>> /\ r.stage = call[c].stage /\ r.todo = call[c].todo
       /\ r.scope = call[c].scope /\ r.alone = alone /\ r.stale = stale
    <2> HIDE DEF alone, stale
    <2> QED BY <1>2, <1>3, <1>11 DEF CallRecords
<1> HIDE DEF r
<1>13. call'[c] = r /\ (\A d \in CallIds \ {c} : call'[d] = call[d]) /\ call' \in [CallIds -> CallRecords]
    BY <1>2, <1>5, <1>12
<1>14. /\ call'[c].read = <<t>> /\ call'[c].stage = call[c].stage /\ call'[c].todo = call[c].todo
       /\ call'[c].scope = call[c].scope /\ call'[c].alone = alone /\ call'[c].stale = stale
    BY <1>12, <1>13
<1> HIDE DEF alone
<1> QED BY <1>4, <1>6, <1>10, <1>13, <1>14, Zenon DEF t

LEMMA ReadKeepsTrees ==
    ASSUME TreesFit, NEW c \in CallIds, Read(c)
    PROVE  TreesFit'
<1> DEFINE l == LevelRead(c)
<1>1. ForestTypeOK /\ LeavesHold /\ GraftsAreKnown BY DEF TreesFit
<1>2. PICK prefixes \in {Prefixes, {Host}}, lost \in Losses :
              /\ events' = events \/ (events < MaxEvents /\ events' = events + 1)
              /\ call' \in [CallIds -> CallRecords]
              /\ \A d \in CallIds \ {c} : call'[d] = call[d]
              /\ call'[c].read = <<ReadOf(c, prefixes, lost)>>
              /\ call'[c].stage = call[c].stage /\ call'[c].todo = call[c].todo
              /\ call'[c].scope = call[c].scope
              /\ call'[c].alone = (call[c].alone /\ prefixes = Prefixes /\ lost = {})
              /\ call'[c].stale = (l \in grafted /\ ~(prefixes \subseteq {Host} \cup up))
              /\ IsTree(ReadOf(c, prefixes, lost)) /\ Hashed(ReadOf(c, prefixes, lost))
              /\ WellFolded(baseline[l], Root) \/ prefixes \subseteq {Host} \cup up =>
                    WellFolded(ReadOf(c, prefixes, lost), Root)
    BY <1>1, ReadParts, Zenon
<1>3. InFlight(c) /\ call[c].stage # "fold" /\ l \in Levels BY <1>1, LevelOfCall DEF Read, InFlight
<1>4. UNCHANGED <<files, up, baseline, working, audited, settled, grafted, calls>> BY DEF Read
<1> DEFINE t == ReadOf(c, prefixes, lost)
<1>5. /\ call' \in [CallIds -> CallRecords]
      /\ \A d \in CallIds \ {c} : call'[d] = call[d]
      /\ call'[c].read = <<t>> /\ call'[c].stage = call[c].stage /\ call'[c].todo = call[c].todo
      /\ call'[c].stale = (l \in grafted /\ ~(prefixes \subseteq {Host} \cup up))
      /\ IsTree(t) /\ Hashed(t)
      /\ WellFolded(baseline[l], Root) \/ prefixes \subseteq {Host} \cup up => WellFolded(t, Root)
    BY <1>2
<1> HIDE DEF t
<1>6. TreeRead(c)' = t BY <1>5 DEF TreeRead
<1>7. \A d \in CallIds : call'[d].read # <<>> =>
          /\ Hashed(TreeRead(d)')
          /\ ~call'[d].stale => WellFolded(TreeRead(d)', Root)
    <2> SUFFICES ASSUME NEW d \in CallIds, call'[d].read # <<>>
                 PROVE  /\ Hashed(TreeRead(d)')
                        /\ ~call'[d].stale => WellFolded(TreeRead(d)', Root)
        OBVIOUS
    <2>1. CASE d = c
        <3>1. ~call'[c].stale => WellFolded(baseline[l], Root) \/ prefixes \subseteq {Host} \cup up
            BY <1>1, <1>2, <1>3, <1>5 DEF GraftsAreKnown
        <3> QED BY <2>1, <3>1, <1>5, <1>6
    <2>2. CASE d # c
        <3>1. call'[d] = call[d] BY <2>2, <1>5
        <3>2. TreeRead(d)' = TreeRead(d) BY <3>1 DEF TreeRead
        <3> QED BY <3>1, <3>2, <1>1 DEF LeavesHold, GraftsAreKnown
    <2> QED BY <2>1, <2>2
<1>8. events' \in 0..MaxEvents
    <2>1. events \in 0..MaxEvents /\ MaxEvents \in Nat BY <1>1, ForestAssumption DEF ForestTypeOK
    <2>2. events' = events \/ (events < MaxEvents /\ events' = events + 1) BY <1>2
    <2> QED BY <2>1, <2>2
<1>9. \A d \in CallIds : call'[d].stage \notin {"idle", "fold"} => call'[d].todo # <<>>
    BY <1>1, <1>5 DEF ForestTypeOK
<1>10. ForestTypeOK' BY <1>1, <1>4, <1>5, <1>8, <1>9 DEF ForestTypeOK
<1>11. LeavesHold' BY <1>1, <1>4, <1>7 DEF LeavesHold
<1>12. GraftsAreKnown' BY <1>1, <1>4, <1>7 DEF GraftsAreKnown
<1> QED BY <1>10, <1>11, <1>12 DEF TreesFit

LEMMA BaselineKeepsTrees ==
    ASSUME TreesFit, NEW c \in CallIds, LandBaseline(c)
    PROVE  TreesFit'
<1> DEFINE l == LevelRead(c)
<1>1. ForestTypeOK /\ LeavesHold /\ GraftsAreKnown BY DEF TreesFit
<1>2. call[c].stage \notin {"idle", "fold"} /\ call[c].read # <<>> BY DEF LandBaseline, Landing
<1>3. l \in Levels /\ TreeRead(c) \in Trees /\ Hashed(TreeRead(c))
    BY <1>1, <1>2, LevelOfCall, ReadIsTree DEF LeavesHold
<1>4. CallsFit(call')
    <2>1. /\ NextLevel(c) \in CallRecords /\ NextLevel(c).read = <<>>
          /\ NextLevel(c).stage \notin {"idle", "fold"} => NextLevel(c).todo # <<>>
        BY <1>1, <1>2, NextLevelTyped
    <2>2. call' = [call EXCEPT ![c] = NextLevel(c)] BY DEF LandBaseline
    <2> QED BY <2>1, <2>2, OneCallFits
<1>5. /\ baseline' = [baseline EXCEPT ![l] = TreeRead(c)]
      /\ grafted' = GraftedBy(c, TRUE)
      /\ UNCHANGED <<files, up, working, audited, calls, events>>
    BY DEF LandBaseline
<1>6. baseline' \in [Levels -> Trees] /\ \A k \in Levels : baseline'[k] = IF k = l THEN TreeRead(c) ELSE baseline[k]
    BY <1>1, <1>3, <1>5 DEF ForestTypeOK
<1>7. \A k \in Levels : Hashed(baseline'[k]) BY <1>1, <1>3, <1>6 DEF LeavesHold
<1>8. grafted' \subseteq Levels BY <1>1, <1>3, <1>5 DEF GraftedBy, ForestTypeOK
<1>9. \A k \in Levels \ grafted' : WellFolded(baseline'[k], Root)
    <2> TAKE k \in Levels \ grafted'
    <2>1. CASE k = l
        <3>1. ~call[c].stale BY <2>1, <1>5 DEF GraftedBy
        <3> QED BY <2>1, <3>1, <1>1, <1>2, <1>6 DEF GraftsAreKnown
    <2>2. CASE k # l
        <3>1. k \notin grafted BY <2>2, <1>5 DEF GraftedBy
        <3> QED BY <2>2, <3>1, <1>1, <1>6 DEF GraftsAreKnown
    <2> QED BY <2>1, <2>2
<1>10. working' \in [Levels -> Trees] /\ \A k \in Levels : Hashed(working'[k])
    BY <1>1, <1>5 DEF ForestTypeOK, LeavesHold
<1> QED BY <1>1, <1>4, <1>5, <1>6, <1>7, <1>8, <1>9, <1>10, StoresFit DEF ForestTypeOK

LEMMA PromoteKeepsTrees ==
    ASSUME TreesFit, NEW c \in CallIds, LandPromote(c)
    PROVE  TreesFit'
<1> DEFINE l == LevelRead(c)
           scope == call[c].scope
<1>1. ForestTypeOK /\ LeavesHold /\ GraftsAreKnown BY DEF TreesFit
<1>2. call[c].stage \notin {"idle", "fold"} /\ call[c].read # <<>> BY DEF LandPromote, Landing
<1>3. /\ l \in Levels /\ TreeRead(c) \in Trees /\ Hashed(TreeRead(c)) /\ IsTree(TreeRead(c))
      /\ IsTree(baseline[l]) /\ Hashed(baseline[l])
    BY <1>1, <1>2, LevelOfCall, ReadIsTree, TreesAre DEF LeavesHold, ForestTypeOK
<1>4. CallsFit(call')
    <2>1. /\ NextLevel(c) \in CallRecords /\ NextLevel(c).read = <<>>
          /\ NextLevel(c).stage \notin {"idle", "fold"} => NextLevel(c).todo # <<>>
        BY <1>1, <1>2, NextLevelTyped
    <2>2. call' = [call EXCEPT ![c] = NextLevel(c)] BY DEF LandPromote
    <2> QED BY <2>1, <2>2, OneCallFits
<1> DEFINE new == Promote(baseline[l], TreeRead(c), scope)
<1>5. /\ baseline' = [baseline EXCEPT ![l] = new]
      /\ grafted' = GraftedBy(c, scope = Root)
      /\ working' \in {Cleared, [working EXCEPT ![l] = TreeRead(c)]}
      /\ UNCHANGED <<files, up, audited, calls, events>>
    BY DEF LandPromote
<1>6. /\ IsTree(new) /\ Hashed(new) /\ new \in Trees
      /\ scope = Root => new = TreeRead(c)
    BY <1>3, PromoteFacts, TreesAre
<1> HIDE DEF new
<1>7. baseline' \in [Levels -> Trees] /\ \A k \in Levels : baseline'[k] = IF k = l THEN new ELSE baseline[k]
    BY <1>1, <1>3, <1>5, <1>6 DEF ForestTypeOK
<1>8. \A k \in Levels : Hashed(baseline'[k]) BY <1>1, <1>6, <1>7 DEF LeavesHold
<1>9. grafted' \subseteq Levels BY <1>1, <1>3, <1>5 DEF GraftedBy, ForestTypeOK
<1>10. \A k \in Levels \ grafted' : WellFolded(baseline'[k], Root)
    <2> TAKE k \in Levels \ grafted'
    <2>1. CASE k = l
        <3>1. ~call[c].stale /\ scope = Root BY <2>1, <1>5 DEF GraftedBy
        <3>2. new = TreeRead(c) BY <3>1, <1>6
        <3>3. WellFolded(TreeRead(c), Root) BY <3>1, <1>1, <1>2 DEF GraftsAreKnown
        <3>4. baseline'[k] = TreeRead(c) BY <2>1, <3>2, <1>7
        <3> QED BY <3>3, <3>4
    <2>2. CASE k # l
        <3>1. k \notin grafted BY <2>2, <1>5 DEF GraftedBy
        <3> QED BY <2>2, <3>1, <1>1, <1>7 DEF GraftsAreKnown
    <2> QED BY <2>1, <2>2
<1>11. working' \in [Levels -> Trees] /\ \A k \in Levels : Hashed(working'[k])
    <2>1. CASE working' = Cleared BY <2>1, ClearedFits
    <2>2. CASE working' = [working EXCEPT ![l] = TreeRead(c)]
        BY <2>2, <1>1, <1>3 DEF ForestTypeOK, LeavesHold
    <2> QED BY <2>1, <2>2, <1>5
<1> QED BY <1>1, <1>4, <1>5, <1>7, <1>8, <1>9, <1>10, <1>11, StoresFit DEF ForestTypeOK

LEMMA ThrowKeepsTrees ==
    ASSUME TreesFit, NEW c \in CallIds, Throw(c)
    PROVE  TreesFit'
<1>1. ForestTypeOK /\ LeavesHold /\ GraftsAreKnown BY DEF TreesFit
<1>2. CallsFit(call') BY NoCallTyped, OneCallFits DEF Throw
<1>3. /\ UNCHANGED <<files, up, baseline, working, audited, settled, grafted, calls>>
      /\ events < MaxEvents /\ events' = events + 1
    BY DEF Throw
<1>4. events' \in 0..MaxEvents BY <1>1, <1>3, ForestAssumption DEF ForestTypeOK
<1> QED BY <1>1, <1>2, <1>3, <1>4, StoresFit DEF ForestTypeOK, LeavesHold, GraftsAreKnown

LEMMA DoneKeepsTrees ==
    ASSUME TreesFit, NEW c \in CallIds, FoldsDone(c)
    PROVE  TreesFit'
<1>1. ForestTypeOK /\ LeavesHold /\ GraftsAreKnown BY DEF TreesFit
<1>2. CallsFit(call') BY NoCallTyped, OneCallFits DEF FoldsDone
<1>3. working' = Cleared /\ UNCHANGED <<files, up, baseline, audited, settled, grafted, calls, events>>
    BY DEF FoldsDone
<1> QED BY <1>1, <1>2, <1>3, ClearedFits, StoresFit DEF ForestTypeOK, LeavesHold, GraftsAreKnown

LEMMA ReportTyped ==
    ASSUME ForestTypeOK, NEW c \in CallIds, NEW drift \in [Levels -> Trees]
    PROVE  LET r == AfterReport(c, Reported(c, drift))
           IN /\ r \in CallRecords /\ r.read = <<>>
              /\ r.stage \notin {"idle", "fold"} => r.todo # <<>>
              /\ r.stage \in {"idle", "refold"}
              /\ r = NoCall \/ /\ r.drift = Reported(c, drift)
                               /\ r.plan = FoldPlan(r.drift) /\ r.chosen = r.plan
                               /\ r.todo = LevelsOf(call[c].level) /\ r.level = call[c].level
                               /\ r.scope = call[c].scope /\ r.alone = call[c].alone
<1> DEFINE d == Reported(c, drift)
           r == AfterReport(c, d)
<1>1. d \in [Levels -> Trees] BY EmptyIsFolded DEF Reported
<1>2. call[c] \in CallRecords BY DEF ForestTypeOK
<1>3. LevelsOf(call[c].level) \in Seq(Levels) /\ LevelsOf(call[c].level) # <<>>
    BY <1>2, LevelLists DEF CallRecords
<1>4. FoldPlan(d) \in SUBSET Nodes BY PlanTyped
<1> HIDE DEF d
<1>5. CASE r = NoCall BY <1>5, NoCallTyped DEF d
<1>6. CASE r # NoCall
    <2> DEFINE q == [call[c] EXCEPT !.stage = "refold", !.read = <<>>, !.drift = d,
                                   !.todo = LevelsOf(call[c].level), !.plan = FoldPlan(d), !.chosen = FoldPlan(d)]
    <2>1. r = q BY <1>6 DEF AfterReport
    <2>2. <<>> \in Seq(Trees) OBVIOUS
    <2>3. /\ q \in CallRecords /\ q.read = <<>> /\ q.todo = LevelsOf(call[c].level) /\ q.stage = "refold"
          /\ q.drift = d /\ q.plan = FoldPlan(d) /\ q.chosen = FoldPlan(d) /\ q.level = call[c].level
          /\ q.scope = call[c].scope /\ q.alone = call[c].alone
        BY <1>1, <1>2, <1>3, <1>4, <2>2 DEF CallRecords, Stages
    <2> HIDE DEF q, r
    <2>4. /\ r \in CallRecords /\ r.read = <<>> /\ r.todo # <<>> /\ r.stage = "refold"
          /\ r.drift = d /\ r.plan = FoldPlan(r.drift) /\ r.chosen = r.plan
          /\ r.todo = LevelsOf(call[c].level) /\ r.level = call[c].level
          /\ r.scope = call[c].scope /\ r.alone = call[c].alone
        BY <2>1, <2>3, <1>3
    <2> QED BY <2>4 DEF r, d
<1> QED BY <1>5, <1>6

LEMMA DiffKeepsTrees ==
    ASSUME TreesFit, NEW c \in CallIds, LandDiff(c)
    PROVE  TreesFit'
<1> DEFINE l == LevelRead(c)
           drift == [call[c].drift EXCEPT ![l] = TreeDiff(baseline[l], TreeRead(c), call[c].scope)]
           more == IF call[c].level = "smart" /\ l = "l1" /\ drift["l1"] # EmptyTree
                   THEN <<"l2", "l3">> ELSE Tail(call[c].todo)
           q == [call[c] EXCEPT !.todo = more, !.read = <<>>, !.drift = drift]
           r == AfterReport(c, Reported(c, drift))
<1>1. ForestTypeOK /\ LeavesHold /\ GraftsAreKnown BY DEF TreesFit
<1>2. call[c].stage = "diff" /\ call[c].read # <<>> BY DEF LandDiff, Landing
<1>3. l \in Levels /\ TreeRead(c) \in Trees /\ IsTree(TreeRead(c)) /\ Hashed(TreeRead(c))
      /\ Tail(call[c].todo) \in Seq(Levels)
    BY <1>1, <1>2, LevelOfCall, ReadIsTree DEF LeavesHold
<1>4. call[c] \in CallRecords BY <1>1 DEF ForestTypeOK
<1>5. drift \in [Levels -> Trees] BY <1>3, <1>4, DiffTyped DEF CallRecords
<1>6. more \in Seq(Levels)
    <2>1. <<"l2", "l3">> \in Seq(Levels) BY DEF Levels
    <2> QED BY <2>1, <1>3
<1>7. /\ \/ /\ more # <<>> /\ call' = [call EXCEPT ![c] = q]
            /\ working' = [working EXCEPT ![l] = TreeRead(c)]
         \/ call' = [call EXCEPT ![c] = r] /\ working' = Cleared
      /\ UNCHANGED <<files, up, baseline, audited, settled, grafted, calls, events>>
    BY DEF LandDiff
<1> HIDE DEF drift, more
<1>8. q \in CallRecords /\ q.read = <<>> /\ q.todo = more
    <2>1. <<>> \in Seq(Trees) OBVIOUS
    <2> QED BY <2>1, <1>4, <1>5, <1>6 DEF CallRecords
<1>9. r \in CallRecords /\ r.read = <<>> /\ (r.stage \notin {"idle", "fold"} => r.todo # <<>>)
    BY <1>1, <1>5, ReportTyped
<1> HIDE DEF q, r
<1>10. CallsFit(call')
    <2>1. CASE more # <<>> /\ call' = [call EXCEPT ![c] = q] BY <2>1, <1>8, OneCallFits
    <2>2. CASE call' = [call EXCEPT ![c] = r] BY <2>2, <1>9, OneCallFits
    <2> QED BY <2>1, <2>2, <1>7
<1>11. working' \in [Levels -> Trees] /\ \A k \in Levels : Hashed(working'[k])
    <2>1. CASE working' = Cleared BY <2>1, ClearedFits
    <2>2. CASE working' = [working EXCEPT ![l] = TreeRead(c)]
        BY <2>2, <1>1, <1>3 DEF ForestTypeOK, LeavesHold
    <2> QED BY <2>1, <2>2, <1>7
<1> QED BY <1>1, <1>7, <1>10, <1>11, StoresFit DEF ForestTypeOK, LeavesHold, GraftsAreKnown

LEMMA FoldKeepsTrees ==
    ASSUME TreesFit, NEW c \in CallIds, Fold(c)
    PROVE  TreesFit'
<1> DEFINE r == [call[c] EXCEPT !.plan = @ \ {FirstInOrder(@)}]
<1>1. ForestTypeOK /\ LeavesHold /\ GraftsAreKnown BY DEF TreesFit
<1>2. /\ call' = [call EXCEPT ![c] = r] /\ FoldNext(c, working) /\ call[c].stage = "fold"
      /\ UNCHANGED <<files, up, working, calls, events>>
    BY DEF Fold
<1>3. r \in CallRecords /\ r.read = call[c].read /\ r.stale = call[c].stale /\ r.stage = call[c].stage
    BY <1>1 DEF ForestTypeOK, CallRecords
<1> HIDE DEF r
<1>4. CallsFit(call') BY <1>2, <1>3, OneCallFits
<1>5. working \in [Levels -> Trees] /\ \A l \in Levels : Hashed(working[l])
    BY <1>1 DEF ForestTypeOK, LeavesHold
<1>6. /\ baseline' \in [Levels -> Trees] /\ \A l \in Levels : Hashed(baseline'[l])
      /\ audited' \subseteq FileContents /\ grafted' \subseteq Levels /\ grafted \subseteq grafted'
      /\ \A l \in Levels \ grafted' : WellFolded(baseline[l], Root) => WellFolded(baseline'[l], Root)
    BY <1>1, <1>2, <1>5, FoldNextFacts
<1>7. \A l \in Levels \ grafted' : WellFolded(baseline'[l], Root) BY <1>1, <1>6 DEF GraftsAreKnown
<1> QED BY <1>1, <1>2, <1>4, <1>5, <1>6, <1>7, StoresFit DEF ForestTypeOK

LEMMA RefoldKeepsTrees ==
    ASSUME TreesFit, NEW c \in CallIds, LandRefold(c)
    PROVE  TreesFit'
<1> DEFINE l == LevelRead(c)
           w == [working EXCEPT ![l] = TreeRead(c)]
           last == Len(call[c].todo) = 1
           q == [call[c] EXCEPT !.stage = "fold", !.read = <<>>, !.plan = @ \ {FirstInOrder(@)}]
<1>1. ForestTypeOK /\ LeavesHold /\ GraftsAreKnown BY DEF TreesFit
<1>2. call[c].stage = "refold" /\ call[c].read # <<>> BY DEF LandRefold, Landing
<1>3. l \in Levels /\ TreeRead(c) \in Trees /\ Hashed(TreeRead(c))
    BY <1>1, <1>2, LevelOfCall, ReadIsTree DEF LeavesHold
<1>4. w \in [Levels -> Trees] /\ \A k \in Levels : Hashed(w[k])
    BY <1>1, <1>3 DEF ForestTypeOK, LeavesHold
<1>5. /\ \/ call' = [call EXCEPT ![c] = NoCall]
         \/ call' = [call EXCEPT ![c] = q]
         \/ call' = [call EXCEPT ![c] = NextLevel(c)]
      /\ working' \in {w, Cleared}
      /\ FoldNext(c, w) \/ UNCHANGED <<baseline, audited, settled, grafted>>
      /\ UNCHANGED <<files, up, calls, events>>
    BY DEF LandRefold
<1>6. q \in CallRecords /\ q.read = <<>> /\ q.stage = "fold"
    <2>1. <<>> \in Seq(Trees) OBVIOUS
    <2> QED BY <1>1, <2>1 DEF ForestTypeOK, CallRecords, Stages
<1>7. /\ NextLevel(c) \in CallRecords /\ NextLevel(c).read = <<>>
      /\ NextLevel(c).stage \notin {"idle", "fold"} => NextLevel(c).todo # <<>>
    BY <1>1, <1>2, NextLevelTyped
<1> HIDE DEF q, w
<1>8. CallsFit(call')
    <2>1. CASE call' = [call EXCEPT ![c] = NoCall] BY <2>1, NoCallTyped, OneCallFits
    <2>2. CASE call' = [call EXCEPT ![c] = q] BY <2>2, <1>6, OneCallFits
    <2>3. CASE call' = [call EXCEPT ![c] = NextLevel(c)] BY <2>3, <1>7, OneCallFits
    <2> QED BY <2>1, <2>2, <2>3, <1>5
<1>9. working' \in [Levels -> Trees] /\ \A k \in Levels : Hashed(working'[k])
    BY <1>4, <1>5, ClearedFits
<1>10. /\ baseline' \in [Levels -> Trees] /\ \A k \in Levels : Hashed(baseline'[k])
       /\ audited' \subseteq FileContents /\ grafted' \subseteq Levels
       /\ \A k \in Levels \ grafted' : WellFolded(baseline'[k], Root)
    <2>1. CASE FoldNext(c, w)
        <3>1. /\ baseline' \in [Levels -> Trees] /\ \A k \in Levels : Hashed(baseline'[k])
              /\ audited' \subseteq FileContents /\ grafted' \subseteq Levels /\ grafted \subseteq grafted'
              /\ \A k \in Levels \ grafted' : WellFolded(baseline[k], Root) => WellFolded(baseline'[k], Root)
            BY <1>1, <1>4, <2>1, FoldNextFacts
        <3> QED BY <3>1, <1>1 DEF GraftsAreKnown
    <2>2. CASE UNCHANGED <<baseline, audited, settled, grafted>>
        BY <2>2, <1>1 DEF ForestTypeOK, LeavesHold, GraftsAreKnown
    <2> QED BY <2>1, <2>2, <1>5
<1> QED BY <1>1, <1>5, <1>8, <1>9, <1>10, StoresFit DEF ForestTypeOK

\* The steps of the node: files change, containers start and stop.
NodeStep ==
    \/ \E f \in Leaves, v \in Stat \cup {Gone} : OutOfBand(f, v)
    \/ \E f \in Leaves, v \in Stat : ServerWrite(f, v)
    \/ \E g \in Guests : GuestTurns(g)

LEMMA NodeKeepsTrees ==
    ASSUME TreesFit, NodeStep
    PROVE  TreesFit'
<1>1. ForestTypeOK /\ LeavesHold /\ GraftsAreKnown BY DEF TreesFit
<1>2. Change BY DEF NodeStep, OutOfBand, ServerWrite, GuestTurns
<1>3. CallsFit(call') BY <1>2, DisturbedFits DEF Change
<1>4. /\ UNCHANGED <<baseline, working, settled, grafted, calls>>
      /\ events < MaxEvents /\ events' = events + 1
    BY <1>2 DEF Change
<1>5. events' \in 0..MaxEvents BY <1>1, <1>4, ForestAssumption DEF ForestTypeOK
<1>6. files' \in [Leaves -> Stat \cup {Gone}] /\ up' \subseteq Guests /\ audited' \subseteq FileContents
    <2>1. files \in [Leaves -> Stat \cup {Gone}] /\ up \subseteq Guests /\ audited \subseteq FileContents
        BY <1>1 DEF ForestTypeOK
    <2>2. CASE \E f \in Leaves, v \in Stat \cup {Gone} : OutOfBand(f, v) BY <2>1, <2>2 DEF OutOfBand
    <2>3. CASE \E f \in Leaves, v \in Stat : ServerWrite(f, v) BY <2>1, <2>3 DEF ServerWrite, Stat
    <2>4. CASE \E g \in Guests : GuestTurns(g) BY <2>1, <2>4 DEF GuestTurns
    <2> QED BY <2>2, <2>3, <2>4 DEF NodeStep
<1> QED BY <1>1, <1>3, <1>4, <1>5, <1>6, StoresFit DEF ForestTypeOK, LeavesHold, GraftsAreKnown

\* What a call may do, and the actions of the specification by name.
LEMMA ForestSteps ==
    ASSUME ForestNext
    PROVE  \/ NodeStep
           \/ \E c \in CallIds : \/ IntegrityTools(c) \/ Read(c) \/ Throw(c) \/ LandBaseline(c) \/ LandPromote(c)
                                 \/ LandDiff(c) \/ LandRefold(c) \/ Fold(c) \/ FoldsDone(c)
BY DEF ForestNext, NodeStep

LEMMA StepKeepsTrees ==
    ASSUME TreesFit, [ForestNext]_forestVars
    PROVE  TreesFit'
<1>1. ForestTypeOK /\ LeavesHold /\ GraftsAreKnown BY DEF TreesFit
<1>2. CASE UNCHANGED forestVars
    BY <1>1, <1>2 DEF forestVars, TreesFit, ForestTypeOK, LeavesHold, GraftsAreKnown, TreeRead
<1>3. CASE NodeStep BY <1>3, NodeKeepsTrees
<1>4. ASSUME NEW c \in CallIds,
             \/ IntegrityTools(c) \/ Read(c) \/ Throw(c) \/ LandBaseline(c) \/ LandPromote(c)
             \/ LandDiff(c) \/ LandRefold(c) \/ Fold(c) \/ FoldsDone(c)
      PROVE  TreesFit'
    <2>1. CASE IntegrityTools(c)
        BY <1>1, <2>1, BeginFits, StoresFit DEF ForestTypeOK, LeavesHold, GraftsAreKnown
    <2> QED BY <1>4, <2>1, ReadKeepsTrees, ThrowKeepsTrees, BaselineKeepsTrees, PromoteKeepsTrees,
               DiffKeepsTrees, RefoldKeepsTrees, FoldKeepsTrees, DoneKeepsTrees
<1> QED BY <1>2, <1>3, <1>4, ForestSteps

LEMMA InitFitsTrees ==
    ASSUME ForestInit
    PROVE  TreesFit
<1>1. PICK now, old \in [content : FileContents, mtime : Mtimes] :
        /\ files = [f \in Leaves |-> now]
        /\ up = Guests
        /\ \/ baseline = [l \in Levels |-> EmptyTree]
           \/ baseline = [l \in Levels |->
                 AssembleForest(l, [f \in Leaves |-> old], Guests, EmptyTree, Prefixes, {})]
        /\ working = [l \in Levels |-> EmptyTree]
        /\ audited = {}
        /\ call = [c \in CallIds |-> NoCall]
        /\ settled = Gone /\ grafted = {}
        /\ calls = 0 /\ events = 0
    BY DEF ForestInit
<1>2. \A l \in Levels : baseline[l] \in Trees /\ Hashed(baseline[l]) /\ WellFolded(baseline[l], Root)
      /\ baseline \in [Levels -> Trees]
    <2>1. CASE baseline = [l \in Levels |-> EmptyTree] BY <2>1, EmptyIsFolded
    <2>2. CASE baseline = [l \in Levels |->
                 AssembleForest(l, [f \in Leaves |-> old], Guests, EmptyTree, Prefixes, {})]
        <3> DEFINE world == [f \in Leaves |-> old]
                   t(l) == AssembleForest(l, world, Guests, EmptyTree, Prefixes, {})
        <3>1. world \in [Leaves -> Stat \cup {Gone}] BY DEF Stat
        <3> HIDE DEF world
        <3>2. \A l \in Levels : IsTree(t(l)) /\ Hashed(t(l)) /\ WellFolded(t(l), Root)
            BY <3>1, EmptyIsFolded, ForestFacts
        <3>3. baseline = [l \in Levels |-> t(l)] BY <2>2 DEF world
        <3> HIDE DEF t
        <3> QED BY <3>2, <3>3, TreesAre
    <2> QED BY <2>1, <2>2, <1>1
<1>3. \A c \in CallIds : call[c] = NoCall BY <1>1
<1>4. ForestTypeOK
    <2>1. files \in [Leaves -> Stat \cup {Gone}] /\ up \subseteq Guests /\ audited \subseteq FileContents
        BY <1>1 DEF Stat
    <2>2. working \in [Levels -> Trees] BY <1>1, EmptyIsFolded
    <2>3. call \in [CallIds -> CallRecords] BY <1>1, NoCallTyped
    <2>4. calls \in 0..MaxCalls /\ events \in 0..MaxEvents /\ grafted \subseteq Levels BY <1>1, ForestAssumption
    <2>5. baseline \in [Levels -> Trees] BY <1>2 DEF Levels
    <2> QED BY <2>1, <2>2, <2>3, <2>4, <2>5, <1>3, NoCallTyped DEF ForestTypeOK
<1>5. LeavesHold BY <1>1, <1>2, <1>3, NoCallTyped, EmptyIsFolded DEF LeavesHold
<1>6. GraftsAreKnown BY <1>2, <1>3, NoCallTyped DEF GraftsAreKnown
<1> QED BY <1>4, <1>5, <1>6 DEF TreesFit

\* The types of the stores and of the calls; that every leaf a tree holds is the one pair of
\* that leaf; and that the hashes of a level that nobody grafted are those of its leaves.
THEOREM ForestTypes == ForestSpec => []TreesFit
<1>1. ForestInit => TreesFit BY InitFitsTrees
<1>2. TreesFit /\ [ForestNext]_forestVars => TreesFit' BY StepKeepsTrees
<1> QED BY <1>1, <1>2, PTL DEF ForestSpec

----------------------------------------------------------------------------
(* A diff names what differs *)

\* Two trees whose hashes are those of their leaves: the walk from the scope reaches every
\* leaf that differs, or stops at a directory above it that one of the trees lacks.
LEMMA DiffNames ==
    ASSUME NEW b, IsTree(b), Hashed(b), WellFolded(b, Root),
           NEW w, IsTree(w), Hashed(w), WellFolded(w, Root),
           NEW scope \in Nodes, NEW f \in Leaves \cap Under(scope), Differs(b, w, f)
    PROVE  \E n \in DOMAIN TreeDiff(b, w, scope) : f \in Under(n)
<1> SUFFICES ASSUME \A n \in DOMAIN TreeDiff(b, w, scope) : f \notin Under(n)
             PROVE  FALSE
    OBVIOUS
<1>1. /\ f \in Nodes /\ Under(Root) = Nodes /\ f \in Under(f)
      /\ \A n \in Above[f] : n \in Dirs /\ n \in Nodes /\ f \in Under(n)
    BY AboveAreDirs, UnderFacts DEF Nodes, Under
<1>2. \A n \in Visited(b, w, scope) : f \in Under(n) =>
          /\ n \in DOMAIN b <=> n \in DOMAIN w
          /\ n \in Leaves => b[n] = w[n]
    BY DEF TreeDiff
<1>3. ASSUME NEW d \in Above[f] \cap DOMAIN b \cap DOMAIN w PROVE b[d] # w[d]
    <2>0. \A x \in Payloads : /\ <<f, x>> \in b[d] <=> f \in DOMAIN b \cap Under(d) /\ b[f] = {<<f, x>>}
                              /\ <<f, x>> \in w[d] <=> f \in DOMAIN w \cap Under(d) /\ w[f] = {<<f, x>>}
        BY LeavesAreFolded
    <2>1. CASE f \in DOMAIN b
        <3>1. PICK x \in Payloads : b[f] = {<<f, x>>} BY <2>1 DEF Hashed
        <3>2. <<f, x>> \in b[d] BY <1>1, <2>0, <2>1, <3>1
        <3>3. <<f, x>> \in w[d] => f \in DOMAIN w /\ w[f] = {<<f, x>>} BY <2>0
        <3> QED BY <2>1, <3>1, <3>2, <3>3 DEF Differs
    <2>2. CASE f \notin DOMAIN b
        <3>1. f \in DOMAIN w BY <2>2 DEF Differs
        <3>2. PICK x \in Payloads : w[f] = {<<f, x>>} BY <3>1 DEF Hashed
        <3>3. <<f, x>> \in w[d] BY <1>1, <2>0, <3>1, <3>2
        <3>4. <<f, x>> \in b[d] => f \in DOMAIN b BY <2>0
        <3> QED BY <2>2, <3>3, <3>4
    <2> QED BY <2>1, <2>2
<1>4. Above[f] \cup {f} \subseteq DOMAIN b \cup DOMAIN w
    <2>1. f \in DOMAIN b \/ f \in DOMAIN w BY DEF Differs
    <2>2. f \in DOMAIN b => Above[f] \subseteq DOMAIN b BY <1>1 DEF WellFolded
    <2>3. f \in DOMAIN w => Above[f] \subseteq DOMAIN w BY <1>1 DEF WellFolded
    <2> QED BY <2>1, <2>2, <2>3
<1>5. \A n \in (Above[f] \cup {f}) \cap Under(scope) : n \in Visited(b, w, scope)
    <2> DEFINE U == {n \in Nodes : n \in (Above[f] \cup {f}) \cap Under(scope) => n \in Visited(b, w, scope)}
    <2>1. Root \in U BY <1>4, Ancestors DEF Visited
    <2>2. ASSUME NEW n \in Nodes \ {Root}, Parent[n] \in U PROVE n \in U
        <3> DEFINE p == Parent[n]
        <3> SUFFICES ASSUME n \in Above[f] \cup {f}, n \in Under(scope) PROVE n \in Visited(b, w, scope)
            OBVIOUS
        <3>1. Above[n] = {p} \cup Above[p] /\ p \in Dirs /\ p \in Nodes BY Ancestors DEF Nodes
        <3>2. CASE n = scope
            <4>1. \A d \in Above[n] : d \in Dirs /\ d # n /\ n \notin Above[d]
                BY <1>1, AboveAreDirs, AboveIsIrreflexive, AboveIsTransitive
            <4>2. Above[n] \cap Under(scope) = {} BY <3>2, <4>1 DEF Under
            <4> QED BY <1>4, <4>2 DEF Visited
        <3>3. CASE n # scope
            <4>1. p \in Under(scope) BY <3>1, <3>3 DEF Under
            <4>2. p \in Above[f]
                <5>1. CASE n = f BY <3>1, <5>1
                <5>2. CASE n \in Above[f] BY <1>1, <3>1, <5>2, AboveIsTransitive
                <5> QED BY <5>1, <5>2
            <4>3. p \in Visited(b, w, scope) BY <2>2, <4>1, <4>2
            <4>4. p \in DOMAIN b \cap DOMAIN w BY <1>1, <1>2, <1>4, <4>2, <4>3
            <4>5. b[p] # w[p] BY <1>3, <4>2, <4>4
            <4>6. \A d \in Above[p] \cap Under(scope) : d \in DOMAIN b \cap DOMAIN w /\ b[d] # w[d]
                BY <4>3 DEF Visited
            <4>7. \A d \in Above[n] \cap Under(scope) : d \in DOMAIN b \cap DOMAIN w /\ b[d] # w[d]
                BY <3>1, <4>4, <4>5, <4>6
            <4> QED BY <1>4, <4>7 DEF Visited
        <3> QED BY <3>2, <3>3
    <2>3. U \in SUBSET Nodes OBVIOUS
    <2>4. U = Nodes
        <3> HIDE DEF U
        <3> QED BY <2>1, <2>2, <2>3, TreeInduction
    <2> QED BY <2>4, <1>1
<1>6. f \in Visited(b, w, scope) BY <1>5
<1> QED BY <1>1, <1>2, <1>6 DEF Differs

\* Pruning hides nothing: a verify that reads a tree and compares it with a baseline that
\* nobody grafted names every leaf of its scope that differs.
THEOREM DriftReported == ForestSpec => DriftIsReported
<1>1. ASSUME TreesFit, NEW c \in CallIds, Landing(c, "diff"), LevelRead(c) \notin grafted, ~call[c].stale
      PROVE  Names(c)
    <2> DEFINE l == LevelRead(c)
    <2>1. ForestTypeOK /\ LeavesHold /\ GraftsAreKnown BY <1>1 DEF TreesFit
    <2>2. call[c].stage = "diff" /\ call[c].read # <<>> BY <1>1 DEF Landing
    <2>3. l \in Levels BY <2>1, <2>2, LevelOfCall
    <2>4. IsTree(baseline[l]) /\ Hashed(baseline[l]) /\ WellFolded(baseline[l], Root)
        BY <1>1, <2>1, <2>3, TreesAre DEF ForestTypeOK, LeavesHold, GraftsAreKnown
    <2>5. IsTree(TreeRead(c)) /\ Hashed(TreeRead(c)) /\ WellFolded(TreeRead(c), Root)
        BY <1>1, <2>1, <2>2, ReadIsTree DEF LeavesHold, GraftsAreKnown
    <2>6. call[c].scope \in Nodes BY <2>1 DEF ForestTypeOK, CallRecords
    <2>7. \A f \in Leaves \cap Under(call[c].scope) : Differs(baseline[l], TreeRead(c), f) =>
              \E n \in DOMAIN TreeDiff(baseline[l], TreeRead(c), call[c].scope) : f \in Under(n)
        BY <2>4, <2>5, <2>6, DiffNames
    <2> QED BY <2>7 DEF Names
<1>2. TreesFit => \A c \in CallIds : /\ Landing(c, "diff") /\ call'[c] # call[c]
                                     /\ LevelRead(c) \notin grafted /\ ~call[c].stale
                                     => Names(c)
    BY <1>1
<1> QED BY <1>2, ForestTypes, PTL DEF DriftIsReported

----------------------------------------------------------------------------
(* What an undisturbed accept of the whole forest leaves *)

\* The baseline of a level is the forest as it would be computed now, whichever of the
\* containers have stopped.
FixedAt(l, world, guests) ==
    \A g \in SUBSET guests : AssembleForest(l, world, g, baseline[l], Prefixes, {}) = baseline[l]

Rest(c) == {call[c].todo[i] : i \in DOMAIN call[c].todo}

\* How far an accept of the whole forest has come.
PromotedSoFar(c) ==
    /\ \A l \in Levels \ Rest(c) : FixedAt(l, files, up)
    /\ call[c].read # <<>> => TreeRead(c) = ReadOf(c, Prefixes, {})

\* A call that is still alone has the server to itself, and when it accepts the whole
\* forest, the levels it has done are those of the node.
AcceptFits(c) ==
    call[c].alone /\ InFlight(c) =>
       /\ \A d \in CallIds \ {c} : ~InFlight(d)
       /\ call[c].stage = "promote" =>
             /\ call[c].todo \in {LEVELS, <<"l2", "l3">>, <<"l3">>}
             /\ call[c].scope = Root => PromotedSoFar(c)

SettledFits == settled # Gone => \A l \in Levels : FixedAt(l, settled.files, settled.up)

AcceptsFit == SettledFits /\ \A c \in CallIds : AcceptFits(c)

LEMMA SettledStays ==
    ASSUME SettledFits, settled' = Gone \/ UNCHANGED <<baseline, settled>>
    PROVE  SettledFits'
BY DEF SettledFits, FixedAt

\* A step of one call leaves the others, which are not alone, as they are.
LEMMA OthersFit ==
    ASSUME TreesFit, \A d \in CallIds : AcceptFits(d),
           NEW c \in CallIds, InFlight(c), \A d \in CallIds \ {c} : call'[d] = call[d],
           AcceptFits(c)'
    PROVE  \A d \in CallIds : AcceptFits(d)'
<1> SUFFICES ASSUME NEW d \in CallIds, d # c PROVE AcceptFits(d)'
    OBVIOUS
<1>1. call'[d] = call[d] OBVIOUS
<1>2. ~(call[d].alone /\ InFlight(d)) BY DEF AcceptFits
<1>3. ~(call'[d].alone /\ InFlight(d)') BY <1>1, <1>2 DEF InFlight
<1> QED BY <1>3 DEF AcceptFits

LEMMA QuietCallFits ==
    ASSUME TreesFit, AcceptsFit, NEW c \in CallIds, InFlight(c), NEW r \in CallRecords,
           call' = [call EXCEPT ![c] = r],
           r.stage # "idle" => r.stage # "promote" /\ (r.alone => call[c].alone),
           settled' = Gone \/ UNCHANGED <<baseline, settled>>
    PROVE  AcceptsFit'
<1>1. call \in [CallIds -> CallRecords] BY DEF TreesFit, ForestTypeOK
<1>2. call'[c] = r /\ \A d \in CallIds \ {c} : call'[d] = call[d] BY <1>1
<1>3. AcceptFits(c)'
    <2> SUFFICES ASSUME call'[c].alone, InFlight(c)'
                 PROVE  (\A d \in CallIds \ {c} : ~InFlight(d)') /\ call'[c].stage # "promote"
        BY DEF AcceptFits
    <2>1. call[c].alone /\ call'[c].stage # "promote" BY <1>2 DEF InFlight
    <2>2. \A d \in CallIds \ {c} : ~InFlight(d) BY <2>1 DEF AcceptFits, AcceptsFit
    <2> QED BY <1>2, <2>1, <2>2 DEF InFlight
<1>4. \A d \in CallIds : AcceptFits(d)' BY <1>2, <1>3, OthersFit DEF AcceptsFit
<1>5. SettledFits' BY SettledStays DEF AcceptsFit
<1> QED BY <1>4, <1>5 DEF AcceptsFit

LEMMA ReadKeepsAccepts ==
    ASSUME TreesFit, AcceptsFit, NEW c \in CallIds, Read(c)
    PROVE  AcceptsFit'
<1> DEFINE l == LevelRead(c)
<1>1. ForestTypeOK /\ LeavesHold /\ (\A d \in CallIds : AcceptFits(d)) BY DEF TreesFit, AcceptsFit
<1>2. PICK prefixes \in {Prefixes, {Host}}, lost \in Losses :
              /\ events' = events \/ (events < MaxEvents /\ events' = events + 1)
              /\ call' \in [CallIds -> CallRecords]
              /\ \A d \in CallIds \ {c} : call'[d] = call[d]
              /\ call'[c].read = <<ReadOf(c, prefixes, lost)>>
              /\ call'[c].stage = call[c].stage /\ call'[c].todo = call[c].todo
              /\ call'[c].scope = call[c].scope
              /\ call'[c].alone = (call[c].alone /\ prefixes = Prefixes /\ lost = {})
              /\ call'[c].stale = (l \in grafted /\ ~(prefixes \subseteq {Host} \cup up))
              /\ IsTree(ReadOf(c, prefixes, lost)) /\ Hashed(ReadOf(c, prefixes, lost))
              /\ WellFolded(baseline[l], Root) \/ prefixes \subseteq {Host} \cup up =>
                    WellFolded(ReadOf(c, prefixes, lost), Root)
    BY <1>1, ReadParts, Zenon
<1> DEFINE t == ReadOf(c, prefixes, lost)
<1>3. /\ \A d \in CallIds \ {c} : call'[d] = call[d]
      /\ call'[c].read = <<t>> /\ call'[c].stage = call[c].stage /\ call'[c].todo = call[c].todo
      /\ call'[c].scope = call[c].scope
      /\ call'[c].alone => call[c].alone /\ prefixes = Prefixes /\ lost = {}
    BY <1>2
<1>4. InFlight(c) /\ UNCHANGED <<files, up, baseline, settled>> BY DEF Read
<1>5. t = AssembleForest(l, files, up, baseline[l], prefixes, lost) BY DEF ReadOf
<1> HIDE DEF t
<1>6. AcceptFits(c)'
    <2> SUFFICES ASSUME call'[c].alone, InFlight(c)'
                 PROVE  /\ \A d \in CallIds \ {c} : ~InFlight(d)'
                        /\ call'[c].stage = "promote" =>
                              /\ call'[c].todo \in {LEVELS, <<"l2", "l3">>, <<"l3">>}
                              /\ call'[c].scope = Root => PromotedSoFar(c)'
        BY DEF AcceptFits
    <2>1. call[c].alone /\ InFlight(c) /\ prefixes = Prefixes /\ lost = {} BY <1>3, <1>4
    <2>2. /\ \A d \in CallIds \ {c} : ~InFlight(d)
          /\ call[c].stage = "promote" =>
                /\ call[c].todo \in {LEVELS, <<"l2", "l3">>, <<"l3">>}
                /\ call[c].scope = Root => PromotedSoFar(c)
        BY <1>1, <2>1 DEF AcceptFits
    <2>3. \A d \in CallIds \ {c} : ~InFlight(d)' BY <1>3, <2>2 DEF InFlight
    <2>4. ASSUME PromotedSoFar(c) PROVE PromotedSoFar(c)'
        <3>1. Rest(c)' = Rest(c) /\ LevelRead(c)' = l BY <1>3 DEF Rest, LevelRead
        <3>2. \A k \in Levels \ Rest(c)' : FixedAt(k, files, up)' BY <2>4, <3>1, <1>4 DEF PromotedSoFar, FixedAt
        <3>3. TreeRead(c)' = t BY <1>3 DEF TreeRead
        <3>4. ReadOf(c, Prefixes, {})' = t BY <1>4, <1>5, <2>1, <3>1 DEF ReadOf
        <3> QED BY <3>2, <3>3, <3>4 DEF PromotedSoFar
    <2> QED BY <1>3, <2>2, <2>3, <2>4
<1>7. \A d \in CallIds : AcceptFits(d)' BY <1>1, <1>3, <1>4, <1>6, OthersFit
<1>8. SettledFits' BY <1>4, SettledStays DEF AcceptsFit
<1> QED BY <1>7, <1>8 DEF AcceptsFit

LEMMA BeginKeepsAccepts ==
    ASSUME TreesFit, AcceptsFit, NEW c \in CallIds, IntegrityTools(c)
    PROVE  AcceptsFit'
<1>1. PICK rec \in CallRecords : /\ Begin(c, rec) /\ rec.read = <<>> /\ rec.todo # <<>>
                                 /\ rec.stage = "promote" => rec.todo = LEVELS
    BY BeginsTyped
<1>2. ForestTypeOK BY DEF TreesFit
<1>3. /\ call'[c].read = <<>> /\ call'[c].stage = rec.stage /\ call'[c].todo = rec.todo
      /\ call'[c].alone => \A d \in CallIds : ~InFlight(d)
      /\ \A d \in CallIds \ {c} : call'[d].stage = call[d].stage /\ call'[d].alone = FALSE
    BY <1>1, <1>2, BeginFacts
<1>4. UNCHANGED <<baseline, settled>> BY <1>1 DEF Begin
<1>5. SettledFits' BY <1>4, SettledStays DEF AcceptsFit
<1>6. AcceptFits(c)'
    <2> SUFFICES ASSUME call'[c].alone, InFlight(c)'
                 PROVE  /\ \A d \in CallIds \ {c} : ~InFlight(d)'
                        /\ call'[c].stage = "promote" =>
                              call'[c].todo = LEVELS /\ PromotedSoFar(c)'
        BY DEF AcceptFits
    <2>1. \A d \in CallIds \ {c} : ~InFlight(d)' BY <1>3 DEF InFlight
    <2>2. ASSUME call'[c].todo = LEVELS PROVE PromotedSoFar(c)'
        <3>1. Rest(c)' = {LEVELS[i] : i \in DOMAIN LEVELS} BY <2>2 DEF Rest
        <3>2. DOMAIN LEVELS = 1..3 /\ LEVELS[1] = "l1" /\ LEVELS[2] = "l2" /\ LEVELS[3] = "l3" BY DEF LEVELS
        <3>3. Levels \subseteq Rest(c)' BY <3>1, <3>2 DEF Levels
        <3> QED BY <1>3, <3>3 DEF PromotedSoFar
    <2> QED BY <1>1, <1>3, <2>1, <2>2
<1>7. \A d \in CallIds : AcceptFits(d)' BY <1>3, <1>6 DEF AcceptFits
<1> QED BY <1>5, <1>7 DEF AcceptsFit

LEMMA RestFacts ==
    ASSUME NEW todo \in {LEVELS, <<"l2", "l3">>, <<"l3">>}
    PROVE  LET rest(s) == {s[i] : i \in DOMAIN s}
           IN /\ Head(todo) \in Levels
              /\ Len(todo) = 1 => (Levels \ rest(todo)) \cup {Head(todo)} = Levels
              /\ Len(todo) # 1 => /\ Tail(todo) \in {<<"l2", "l3">>, <<"l3">>}
                                  /\ Levels \ rest(Tail(todo)) \subseteq (Levels \ rest(todo)) \cup {Head(todo)}
<1> DEFINE rest(s) == {s[i] : i \in DOMAIN s}
<1>1. /\ rest(<<"l1", "l2", "l3">>) = {"l1", "l2", "l3"}
      /\ rest(<<"l2", "l3">>) = {"l2", "l3"}
      /\ rest(<<"l3">>) = {"l3"}
    <2>1. DOMAIN <<"l1", "l2", "l3">> = {1, 2, 3} /\ DOMAIN <<"l2", "l3">> = {1, 2} /\ DOMAIN <<"l3">> = {1}
        OBVIOUS
    <2> QED BY <2>1
<1>2. CASE todo = <<"l1", "l2", "l3">>
    <2>1. Head(todo) = "l1" /\ Len(todo) = 3 /\ Tail(todo) = <<"l2", "l3">> BY <1>2
    <2> QED BY <1>1, <1>2, <2>1 DEF Levels
<1>3. CASE todo = <<"l2", "l3">>
    <2>1. Head(todo) = "l2" /\ Len(todo) = 2 /\ Tail(todo) = <<"l3">> BY <1>3
    <2> QED BY <1>1, <1>3, <2>1 DEF Levels
<1>4. CASE todo = <<"l3">>
    <2>1. Head(todo) = "l3" /\ Len(todo) = 1 BY <1>4
    <2> QED BY <1>1, <1>4, <2>1 DEF Levels
<1> QED BY <1>2, <1>3, <1>4 DEF LEVELS

LEMMA PromoteKeepsAccepts ==
    ASSUME TreesFit, AcceptsFit, NEW c \in CallIds, LandPromote(c)
    PROVE  AcceptsFit'
<1> DEFINE l == LevelRead(c)
           last == Len(call[c].todo) = 1
           old == baseline[l]
<1>1. ForestTypeOK /\ LeavesHold /\ (\A d \in CallIds : AcceptFits(d)) BY DEF TreesFit, AcceptsFit
<1>2. call[c].stage = "promote" /\ call[c].read # <<>> /\ InFlight(c) BY DEF LandPromote, Landing, InFlight
<1>3. /\ l \in Levels /\ IsTree(TreeRead(c)) /\ Hashed(TreeRead(c))
      /\ IsTree(old) /\ Hashed(old)
    BY <1>1, <1>2, LevelOfCall, ReadIsTree, TreesAre DEF LeavesHold, ForestTypeOK
<1>4. /\ baseline' = [baseline EXCEPT ![l] = Promote(old, TreeRead(c), call[c].scope)]
      /\ call' = [call EXCEPT ![c] = NextLevel(c)]
      /\ settled' = IF last /\ call[c].alone /\ call[c].scope = Root THEN [files |-> files, up |-> up] ELSE Gone
      /\ files' = files /\ up' = up
    BY DEF LandPromote
<1>5. /\ call \in [CallIds -> CallRecords] /\ baseline \in [Levels -> Trees]
      /\ files \in [Leaves -> Stat \cup {Gone}]
    BY <1>1 DEF ForestTypeOK
<1>6. call'[c] = NextLevel(c) /\ \A d \in CallIds \ {c} : call'[d] = call[d] BY <1>4, <1>5
\* An undisturbed accept of the whole forest: the level it lands is the node's from now on.
<1>7. ASSUME call[c].alone, call[c].scope = Root
      PROVE  /\ call[c].todo \in {LEVELS, <<"l2", "l3">>, <<"l3">>}
             /\ \A k \in (Levels \ Rest(c)) \cup {l} : FixedAt(k, files, up)'
    <2>1. call[c].todo \in {LEVELS, <<"l2", "l3">>, <<"l3">>} /\ PromotedSoFar(c)
        BY <1>1, <1>2, <1>7 DEF AcceptFits
    <2> DEFINE t == AssembleForest(l, files, up, old, Prefixes, {})
    <2>2. TreeRead(c) = t BY <1>2, <2>1 DEF PromotedSoFar, ReadOf
    <2>3. \A g \in SUBSET up : AssembleForest(l, files, g, t, Prefixes, {}) = t
        BY <1>3, <1>5, ForestIsStable
    <2> HIDE DEF t
    <2>4. Promote(old, TreeRead(c), Root) = TreeRead(c) BY <1>3, PromoteFacts
    <2>5. baseline'[l] = t BY <1>3, <1>4, <1>5, <1>7, <2>2, <2>4
    <2>6. \A k \in {l} : FixedAt(k, files, up)'
        <3> TAKE k \in {l}
        <3>1. baseline'[k] = t BY <2>5
        <3>2. \A g \in SUBSET up : AssembleForest(k, files, g, t, Prefixes, {}) = t BY <2>3
        <3> QED BY <1>4, <3>1, <3>2 DEF FixedAt
    <2>7. \A k \in Levels \ Rest(c) : k # l => FixedAt(k, files, up)'
        <3> TAKE k \in Levels \ Rest(c)
        <3> HAVE k # l
        <3>1. baseline'[k] = baseline[k] BY <1>4, <1>5
        <3>2. FixedAt(k, files, up) BY <2>1 DEF PromotedSoFar
        <3> QED BY <1>4, <3>1, <3>2 DEF FixedAt
    <2> QED BY <2>1, <2>6, <2>7
<1> HIDE DEF old
<1>8. SettledFits'
    <2>1. CASE ~(last /\ call[c].alone /\ call[c].scope = Root) BY <1>4, <2>1 DEF SettledFits
    <2>2. CASE last /\ call[c].alone /\ call[c].scope = Root
        <3>1. (Levels \ Rest(c)) \cup {l} = Levels BY <1>7, <2>2, RestFacts DEF Rest, LevelRead
        <3>2. \A k \in Levels : FixedAt(k, files, up)' BY <1>7, <2>2, <3>1
        <3>3. settled'.files = files' /\ settled'.up = up' BY <1>4, <2>2
        <3> QED BY <3>2, <3>3 DEF SettledFits
    <2> QED BY <2>1, <2>2
<1>9. AcceptFits(c)'
    <2> SUFFICES ASSUME call'[c].alone, InFlight(c)'
                 PROVE  /\ \A d \in CallIds \ {c} : ~InFlight(d)'
                        /\ call'[c].todo \in {LEVELS, <<"l2", "l3">>, <<"l3">>}
                        /\ call'[c].scope = Root => PromotedSoFar(c)'
        BY DEF AcceptFits
    <2>1. ~last BY <1>6, NoCallTyped DEF NextLevel
    <2>2. /\ call'[c].todo = Tail(call[c].todo) /\ call'[c].scope = call[c].scope
          /\ call[c].alone /\ call'[c].read = <<>>
        BY <1>1, <1>2, <1>6, <2>1, NextLevelTyped
    <2>3. \A d \in CallIds \ {c} : ~InFlight(d)' BY <1>1, <1>2, <1>6, <2>2 DEF AcceptFits, InFlight
    <2>4. call[c].todo \in {LEVELS, <<"l2", "l3">>, <<"l3">>} BY <1>1, <1>2, <2>2 DEF AcceptFits
    <2>5. /\ call'[c].todo \in {<<"l2", "l3">>, <<"l3">>}
          /\ Levels \ Rest(c)' \subseteq (Levels \ Rest(c)) \cup {l}
        <3> DEFINE todo == call[c].todo
                   rest(s) == {s[i] : i \in DOMAIN s}
        <3>1. Rest(c)' = rest(Tail(todo)) BY <2>2 DEF Rest
        <3>2. Rest(c) = rest(todo) BY DEF Rest
        <3>3. l = Head(todo) BY DEF LevelRead
        <3>4. /\ Tail(todo) \in {<<"l2", "l3">>, <<"l3">>}
              /\ Levels \ rest(Tail(todo)) \subseteq (Levels \ rest(todo)) \cup {Head(todo)}
            BY <2>1, <2>4, RestFacts
        <3> HIDE DEF rest
        <3> QED BY <2>2, <3>1, <3>2, <3>3, <3>4
    <2>6. ASSUME call'[c].scope = Root PROVE PromotedSoFar(c)'
        <3>1. \A k \in Levels \ Rest(c)' : FixedAt(k, files, up)' BY <1>7, <2>2, <2>5, <2>6
        <3> QED BY <2>2, <3>1 DEF PromotedSoFar
    <2> QED BY <2>3, <2>5, <2>6
<1>10. \A d \in CallIds : AcceptFits(d)' BY <1>1, <1>2, <1>6, <1>9, OthersFit
<1> QED BY <1>8, <1>10 DEF AcceptsFit

LEMMA DiffKeepsAccepts ==
    ASSUME TreesFit, AcceptsFit, NEW c \in CallIds, LandDiff(c)
    PROVE  AcceptsFit'
<1> DEFINE l == LevelRead(c)
           drift == [call[c].drift EXCEPT ![l] = TreeDiff(baseline[l], TreeRead(c), call[c].scope)]
           more == IF call[c].level = "smart" /\ l = "l1" /\ drift["l1"] # EmptyTree
                   THEN <<"l2", "l3">> ELSE Tail(call[c].todo)
           q == [call[c] EXCEPT !.todo = more, !.read = <<>>, !.drift = drift]
           report == Reported(c, drift)
           r == AfterReport(c, report)
<1>1. ForestTypeOK BY DEF TreesFit
<1>2. call[c].stage = "diff" /\ call[c].read # <<>> /\ InFlight(c) BY DEF LandDiff, Landing, InFlight
<1>3. l \in Levels /\ IsTree(TreeRead(c)) /\ Tail(call[c].todo) \in Seq(Levels)
    BY <1>1, <1>2, LevelOfCall, ReadIsTree
<1>4. call[c] \in CallRecords BY <1>1 DEF ForestTypeOK
<1>5. drift \in [Levels -> Trees] BY <1>3, <1>4, DiffTyped DEF CallRecords
<1>6. more \in Seq(Levels)
    <2>1. <<"l2", "l3">> \in Seq(Levels) BY DEF Levels
    <2> QED BY <2>1, <1>3
<1>7. /\ call' = [call EXCEPT ![c] = q] \/ call' = [call EXCEPT ![c] = r]
      /\ UNCHANGED <<baseline, settled>>
    BY DEF LandDiff
<1> HIDE DEF drift, more
<1>8. q \in CallRecords /\ q.stage = "diff" /\ q.alone = call[c].alone
    <2>1. <<>> \in Seq(Trees) OBVIOUS
    <2> QED BY <2>1, <1>2, <1>4, <1>5, <1>6 DEF CallRecords
<1>9. r \in CallRecords /\ r.stage \in {"idle", "refold"} BY <1>1, <1>5, ReportTyped
<1>10. r.stage # "idle" => (r.alone => call[c].alone)
    <2>1. r = NoCall \/ r.alone = call[c].alone BY <1>1, <1>5, ReportTyped
    <2> QED BY <2>1, NoCallTyped
<1> HIDE DEF q, r
<1>11. CASE call' = [call EXCEPT ![c] = q] BY <1>2, <1>7, <1>8, <1>11, QuietCallFits
<1>12. CASE call' = [call EXCEPT ![c] = r] BY <1>2, <1>7, <1>9, <1>10, <1>12, QuietCallFits
<1> QED BY <1>7, <1>11, <1>12

LEMMA RefoldKeepsAccepts ==
    ASSUME TreesFit, AcceptsFit, NEW c \in CallIds, LandRefold(c)
    PROVE  AcceptsFit'
<1> DEFINE w == [working EXCEPT ![LevelRead(c)] = TreeRead(c)]
           q == [call[c] EXCEPT !.stage = "fold", !.read = <<>>, !.plan = @ \ {FirstInOrder(@)}]
<1>1. ForestTypeOK BY DEF TreesFit
<1>2. call[c].stage = "refold" /\ InFlight(c) BY DEF LandRefold, Landing, InFlight
<1>3. /\ \/ call' = [call EXCEPT ![c] = NoCall]
         \/ call' = [call EXCEPT ![c] = q]
         \/ call' = [call EXCEPT ![c] = NextLevel(c)]
      /\ FoldNext(c, w) \/ UNCHANGED <<baseline, audited, settled, grafted>>
    BY DEF LandRefold
<1>4. settled' = Gone \/ UNCHANGED <<baseline, settled>> BY <1>3 DEF FoldNext
<1>5. q \in CallRecords /\ q.stage = "fold" /\ q.alone = call[c].alone
    <2>1. <<>> \in Seq(Trees) OBVIOUS
    <2> QED BY <1>1, <2>1 DEF ForestTypeOK, CallRecords, Stages
<1>6. /\ NextLevel(c) \in CallRecords
      /\ NextLevel(c).stage # "idle" =>
            NextLevel(c).stage # "promote" /\ (NextLevel(c).alone => call[c].alone)
    BY <1>1, <1>2, NextLevelTyped, NoCallTyped
<1> HIDE DEF q, w
<1>7. CASE call' = [call EXCEPT ![c] = NoCall] BY <1>2, <1>4, <1>7, NoCallTyped, QuietCallFits
<1>8. CASE call' = [call EXCEPT ![c] = q] BY <1>2, <1>4, <1>5, <1>8, QuietCallFits
<1>9. CASE call' = [call EXCEPT ![c] = NextLevel(c)] BY <1>2, <1>4, <1>6, <1>9, QuietCallFits
<1> QED BY <1>3, <1>7, <1>8, <1>9

LEMMA StepKeepsAccepts ==
    ASSUME TreesFit, AcceptsFit, [ForestNext]_forestVars
    PROVE  AcceptsFit'
<1>1. ForestTypeOK BY DEF TreesFit
<1>2. call \in [CallIds -> CallRecords] BY <1>1 DEF ForestTypeOK
<1>3. CASE UNCHANGED forestVars
    <2>1. UNCHANGED <<files, up, baseline, call, settled>> BY <1>3 DEF forestVars
    <2>2. SettledFits' BY <2>1, SettledStays DEF AcceptsFit
    <2>3. \A c \in CallIds : AcceptFits(c)'
        <3> TAKE c \in CallIds
        <3>1. /\ Rest(c)' = Rest(c) /\ LevelRead(c)' = LevelRead(c) /\ TreeRead(c)' = TreeRead(c)
              /\ \A d \in CallIds : InFlight(d)' = InFlight(d)
            BY <2>1 DEF Rest, LevelRead, TreeRead, InFlight
        <3>2. \A l \in Levels : FixedAt(l, files, up) => FixedAt(l, files, up)' BY <2>1 DEF FixedAt
        <3>3. ReadOf(c, Prefixes, {})' = ReadOf(c, Prefixes, {}) BY <2>1, <3>1 DEF ReadOf
        <3>4. PromotedSoFar(c) => PromotedSoFar(c)' BY <2>1, <3>1, <3>2, <3>3 DEF PromotedSoFar
        <3> QED BY <2>1, <3>1, <3>4 DEF AcceptsFit, AcceptFits
    <2> QED BY <2>2, <2>3 DEF AcceptsFit
<1>4. CASE NodeStep
    <2>1. Change BY <1>4 DEF NodeStep, OutOfBand, ServerWrite, GuestTurns
    <2>2. SettledFits' BY <2>1, SettledStays DEF Change, AcceptsFit
    <2>3. \A c \in CallIds : call'[c].alone = FALSE
        <3>1. call' = [d \in CallIds |-> [call[d] EXCEPT !.alone = FALSE]] BY <2>1 DEF Change, Disturbed
        <3> QED BY <1>2, <3>1 DEF CallRecords
    <2> QED BY <2>2, <2>3 DEF AcceptsFit, AcceptFits
<1>5. ASSUME NEW c \in CallIds, LandBaseline(c) PROVE AcceptsFit'
    <2>1. /\ call[c].stage \in {"compute", "seed"} /\ InFlight(c)
          /\ call' = [call EXCEPT ![c] = NextLevel(c)] /\ settled' = Gone
        BY <1>5 DEF LandBaseline, Landing, InFlight
    <2>2. /\ NextLevel(c) \in CallRecords
          /\ NextLevel(c).stage # "idle" =>
                NextLevel(c).stage # "promote" /\ (NextLevel(c).alone => call[c].alone)
        BY <1>1, <2>1, NextLevelTyped, NoCallTyped
    <2> QED BY <2>1, <2>2, QuietCallFits
<1>6. ASSUME NEW c \in CallIds, Throw(c) PROVE AcceptsFit'
    <2>1. InFlight(c) /\ call' = [call EXCEPT ![c] = NoCall] /\ UNCHANGED <<baseline, settled>>
        BY <1>6 DEF Throw
    <2> QED BY <2>1, NoCallTyped, QuietCallFits
<1>7. ASSUME NEW c \in CallIds, FoldsDone(c) PROVE AcceptsFit'
    <2>1. InFlight(c) /\ call' = [call EXCEPT ![c] = NoCall] /\ UNCHANGED <<baseline, settled>>
        BY <1>7 DEF FoldsDone, InFlight
    <2> QED BY <2>1, NoCallTyped, QuietCallFits
<1>8. ASSUME NEW c \in CallIds, Fold(c) PROVE AcceptsFit'
    <2> DEFINE r == [call[c] EXCEPT !.plan = @ \ {FirstInOrder(@)}]
    <2>1. InFlight(c) /\ call[c].stage = "fold" /\ call' = [call EXCEPT ![c] = r] /\ settled' = Gone
        BY <1>8 DEF Fold, FoldNext, InFlight
    <2>2. r \in CallRecords /\ r.stage = call[c].stage /\ r.alone = call[c].alone BY <1>2 DEF CallRecords
    <2> HIDE DEF r
    <2> QED BY <2>1, <2>2, QuietCallFits
<1> QED BY <1>3, <1>4, <1>5, <1>6, <1>7, <1>8, ForestSteps, BeginKeepsAccepts, ReadKeepsAccepts,
           PromoteKeepsAccepts, DiffKeepsAccepts, RefoldKeepsAccepts

LEMMA DiffOfSameIsEmpty ==
    ASSUME NEW b, NEW scope
    PROVE  TreeDiff(b, b, scope) = EmptyTree
<1> DEFINE entries == {n \in Visited(b, b, scope) : \/ (n \in DOMAIN b) # (n \in DOMAIN b)
                                                    \/ n \in Leaves /\ b[n] # b[n]}
<1>1. TreeDiff(b, b, scope) = [n \in entries |-> IF n \in DOMAIN b THEN b[n] ELSE {}] BY DEF TreeDiff
<1>2. entries = {} OBVIOUS
<1> HIDE DEF entries
<1> QED BY <1>1, <1>2 DEF EmptyTree

\* An accept_truth of the whole forest that nothing disturbed leaves nothing to report: the
\* forest computed again over the baseline it promoted is that baseline, whatever containers
\* have been stopped since.
THEOREM AcceptedClean == ForestSpec => []AcceptedIsClean
<1>1. ForestInit => TreesFit /\ AcceptsFit
    <2> SUFFICES ASSUME ForestInit PROVE TreesFit /\ AcceptsFit
        OBVIOUS
    <2>1. TreesFit BY InitFitsTrees
    <2>2. settled = Gone /\ call = [c \in CallIds |-> NoCall] BY DEF ForestInit
    <2> QED BY <2>1, <2>2, NoCallTyped DEF AcceptsFit, SettledFits, AcceptFits, InFlight
<1>2. TreesFit /\ AcceptsFit /\ [ForestNext]_forestVars => (TreesFit /\ AcceptsFit)'
    BY StepKeepsTrees, StepKeepsAccepts
<1>3. AcceptsFit => AcceptedIsClean
    <2> SUFFICES ASSUME AcceptsFit, settled # Gone, files = settled.files, up \subseteq settled.up,
                        NEW l \in Levels
                 PROVE  TreeDiff(baseline[l], Fresh(l), Root) = EmptyTree
        BY DEF AcceptedIsClean
    <2>1. FixedAt(l, settled.files, settled.up) BY DEF AcceptsFit, SettledFits
    <2>2. Fresh(l) = baseline[l] BY <2>1 DEF FixedAt, Fresh
    <2> QED BY <2>2, DiffOfSameIsEmpty
<1> QED BY <1>1, <1>2, <1>3, PTL DEF ForestSpec

----------------------------------------------------------------------------
(* What an undisturbed auto-accept leaves to report *)

\* The levels that a call folds into.
Asked(c) == IF call[c].level = "smart" THEN Levels ELSE {call[c].level}

\* What a computation of this level would read is folded all through.
Sharp(l) == l \notin grafted \/ up = Guests

\* The drift that the call found at a level is still there; and but for what it chose.
Named(c, l) == DOMAIN call[c].drift[l] \subseteq DOMAIN TreeDiff(baseline[l], Fresh(l), call[c].scope)
Flagged(c, l) ==
    \A n \in DOMAIN call[c].drift[l] :
        (\A m \in call[c].chosen : n \notin Under(m)) =>
            n \in DOMAIN TreeDiff(baseline[l], Fresh(l), call[c].scope)

\* What is left of the plan was chosen, and has no file of a stopped container.
PlanFits(c) ==
    /\ call[c].plan \subseteq call[c].chosen \cap Ordered
    /\ \A m \in call[c].plan \cap Leaves : \A p \in Guests \ up : m \notin Under(p)

\* A call that is still alone has read what is there, and has the trees it folds from.
FlagsFit(c) ==
    call[c].alone =>
       /\ call[c].stage \in {"diff", "refold"} =>
             /\ call[c].read # <<>> => TreeRead(c) = ReadOf(c, Prefixes, {})
             /\ \A l \in Levels : Named(c, l)
       /\ call[c].stage \in {"refold", "fold"} => PlanFits(c)
       /\ call[c].stage = "refold" => \A l \in Asked(c) \ Rest(c) : working[l] = Fresh(l)
       /\ call[c].stage = "fold" =>
             \A l \in Levels : Sharp(l) => Flagged(c, l) /\ (l \in Asked(c) => working[l] = Fresh(l))

FlagsAreKept == \A c \in CallIds : FlagsFit(c)

LEMMA FreshFacts ==
    ASSUME TreesFit, NEW l \in Levels
    PROVE  /\ IsTree(baseline[l]) /\ Hashed(baseline[l])
           /\ IsTree(Fresh(l)) /\ Hashed(Fresh(l))
           /\ Sharp(l) => WellFolded(Fresh(l), Root)
<1>1. /\ files \in [Leaves -> Stat \cup {Gone}]
      /\ IsTree(baseline[l]) /\ Hashed(baseline[l])
    BY TreesAre DEF TreesFit, ForestTypeOK, LeavesHold
<1>2. /\ IsTree(Fresh(l)) /\ Hashed(Fresh(l))
      /\ WellFolded(baseline[l], Root) \/ Prefixes \subseteq {Host} \cup up => WellFolded(Fresh(l), Root)
    BY <1>1, ForestFacts DEF Fresh
<1>3. Sharp(l) => WellFolded(baseline[l], Root) \/ Prefixes \subseteq {Host} \cup up
    BY DEF Sharp, TreesFit, GraftsAreKnown, Prefixes
<1> QED BY <1>1, <1>2, <1>3

\* Where nothing that Fresh looks at changes, it is the same.
LEMMA FreshStays ==
    ASSUME UNCHANGED <<files, up, baseline>>
    PROVE  /\ \A l \in Levels : Fresh(l)' = Fresh(l)
           /\ \A c : LevelRead(c)' = LevelRead(c) => ReadOf(c, Prefixes, {})' = ReadOf(c, Prefixes, {})
BY DEF Fresh, ReadOf

LEMMA ReadIsFresh == \A c : ReadOf(c, Prefixes, {}) = Fresh(LevelRead(c))
BY DEF ReadOf, Fresh

\* A step of a call that is not alone with the server says nothing of the others.
LEMMA OthersUnflagged ==
    ASSUME AcceptsFit, NEW c \in CallIds, InFlight(c), \A d \in CallIds \ {c} : call'[d] = call[d],
           FlagsFit(c)'
    PROVE  FlagsAreKept'
<1> SUFFICES ASSUME NEW d \in CallIds, d # c PROVE FlagsFit(d)'
    BY DEF FlagsAreKept
<1>1. AcceptFits(d) /\ call'[d] = call[d] BY DEF AcceptsFit
<1>2. ~(call[d].alone /\ InFlight(d)) BY <1>1 DEF AcceptFits
<1>3. call'[d].alone => call'[d].stage = "idle" BY <1>1, <1>2 DEF InFlight
<1> QED BY <1>3 DEF FlagsFit

LEMMA PlainCallKeepsFlags ==
    ASSUME TreesFit, AcceptsFit, NEW c \in CallIds, InFlight(c), NEW r,
           call' = [call EXCEPT ![c] = r], r.stage \notin {"diff", "refold", "fold"}
    PROVE  FlagsAreKept'
<1>1. call \in [CallIds -> CallRecords] BY DEF TreesFit, ForestTypeOK
<1>2. call'[c] = r /\ \A d \in CallIds \ {c} : call'[d] = call[d] BY <1>1
<1>3. FlagsFit(c)' BY <1>2 DEF FlagsFit
<1> QED BY <1>2, <1>3, OthersUnflagged

\* A read leaves what the call has found and chosen.
LEMMA ReadLeaves ==
    ASSUME ForestTypeOK, NEW c \in CallIds, Read(c)
    PROVE  /\ call'[c].drift = call[c].drift /\ call'[c].plan = call[c].plan
           /\ call'[c].chosen = call[c].chosen /\ call'[c].level = call[c].level
<1>1. PICK prefixes \in {Prefixes, {Host}}, lost \in Losses :
        call' = [call EXCEPT
              ![c].read = <<ReadOf(c, prefixes, lost)>>,
              ![c].alone = @ /\ ~(prefixes # Prefixes \/ lost # {}),
              ![c].stale = LevelRead(c) \in grafted /\ ~(prefixes \subseteq {Host} \cup up)]
    BY DEF Read, LevelRead, Losses, ReadOf
<1> DEFINE x == <<ReadOf(c, prefixes, lost)>>
           y == call[c].alone /\ ~(prefixes # Prefixes \/ lost # {})
           z == LevelRead(c) \in grafted /\ ~(prefixes \subseteq {Host} \cup up)
<1>2. call \in [CallIds -> CallRecords] /\ call[c] \in CallRecords BY DEF ForestTypeOK
<1>3. call' = [call EXCEPT ![c] = [call[c] EXCEPT !.read = x, !.alone = y, !.stale = z]] BY <1>1
<1> HIDE DEF x, y, z
<1>4. call'[c] = [call[c] EXCEPT !.read = x, !.alone = y, !.stale = z] BY <1>2, <1>3
<1> QED BY <1>2, <1>4 DEF CallRecords

LEMMA ReadKeepsFlags ==
    ASSUME TreesFit, AcceptsFit, FlagsAreKept, NEW c \in CallIds, Read(c)
    PROVE  FlagsAreKept'
<1> DEFINE l == LevelRead(c)
<1>1. ForestTypeOK /\ LeavesHold /\ FlagsFit(c) BY DEF TreesFit, FlagsAreKept
<1>2. PICK prefixes \in {Prefixes, {Host}}, lost \in Losses :
              /\ events' = events \/ (events < MaxEvents /\ events' = events + 1)
              /\ call' \in [CallIds -> CallRecords]
              /\ \A d \in CallIds \ {c} : call'[d] = call[d]
              /\ call'[c].read = <<ReadOf(c, prefixes, lost)>>
              /\ call'[c].stage = call[c].stage /\ call'[c].todo = call[c].todo
              /\ call'[c].scope = call[c].scope
              /\ call'[c].alone = (call[c].alone /\ prefixes = Prefixes /\ lost = {})
              /\ call'[c].stale = (l \in grafted /\ ~(prefixes \subseteq {Host} \cup up))
              /\ IsTree(ReadOf(c, prefixes, lost)) /\ Hashed(ReadOf(c, prefixes, lost))
              /\ WellFolded(baseline[l], Root) \/ prefixes \subseteq {Host} \cup up =>
                    WellFolded(ReadOf(c, prefixes, lost), Root)
    BY <1>1, ReadParts, Zenon
<1>3. /\ InFlight(c) /\ call[c].stage # "fold" /\ UNCHANGED <<files, up, baseline, working, grafted>>
    BY DEF Read
<1>4. /\ call'[c].drift = call[c].drift /\ call'[c].plan = call[c].plan
      /\ call'[c].chosen = call[c].chosen /\ call'[c].level = call[c].level
    BY <1>1, ReadLeaves
<1> DEFINE t == ReadOf(c, prefixes, lost)
<1>5. /\ call'[c].read = <<t>> /\ call'[c].stage = call[c].stage /\ call'[c].todo = call[c].todo
      /\ call'[c].scope = call[c].scope
      /\ call'[c].alone => call[c].alone /\ prefixes = Prefixes /\ lost = {}
    BY <1>2
<1>6. prefixes = Prefixes /\ lost = {} => t = ReadOf(c, Prefixes, {}) OBVIOUS
<1> HIDE DEF t
<1>7. ASSUME call'[c].alone PROVE TreeRead(c)' = ReadOf(c, Prefixes, {})'
    <2>1. LevelRead(c)' = l BY <1>5 DEF LevelRead
    <2>2. ReadOf(c, Prefixes, {})' = t BY <2>1, <1>3, <1>5, <1>6, <1>7, FreshStays
    <2> QED BY <2>2, <1>5 DEF TreeRead
<1>8. \A k \in Levels : Fresh(k)' = Fresh(k) BY <1>3, FreshStays
<1>9. \A k \in Levels : Named(c, k) => Named(c, k)' BY <1>3, <1>4, <1>5, <1>8 DEF Named
<1>10. PlanFits(c) => PlanFits(c)' BY <1>3, <1>4 DEF PlanFits
<1>11. Asked(c)' = Asked(c) /\ Rest(c)' = Rest(c) BY <1>4, <1>5 DEF Asked, Rest
<1>12. Asked(c) \subseteq Levels BY <1>1 DEF Asked, ForestTypeOK, CallRecords
<1>13. FlagsFit(c)'
    <2> SUFFICES ASSUME call'[c].alone PROVE FlagsFit(c)' BY DEF FlagsFit
    <2>1. call[c].alone BY <1>5
    <2>2. call'[c].stage \in {"diff", "refold"} =>
             /\ call'[c].read # <<>> => TreeRead(c)' = ReadOf(c, Prefixes, {})'
             /\ \A k \in Levels : Named(c, k)'
        BY <2>1, <1>1, <1>5, <1>7, <1>9 DEF FlagsFit
    <2>3. call'[c].stage \in {"refold", "fold"} => PlanFits(c)' BY <2>1, <1>1, <1>5, <1>10 DEF FlagsFit
    <2>4. call'[c].stage = "refold" => \A k \in Asked(c)' \ Rest(c)' : working'[k] = Fresh(k)'
        BY <2>1, <1>1, <1>3, <1>5, <1>8, <1>11, <1>12 DEF FlagsFit
    <2> QED BY <2>2, <2>3, <2>4, <1>3, <1>5 DEF FlagsFit
<1> QED BY <1>2, <1>3, <1>13, OthersUnflagged

LEMMA BeginKeepsFlags ==
    ASSUME TreesFit, NEW c \in CallIds, IntegrityTools(c)
    PROVE  FlagsAreKept'
<1>1. PICK rec \in CallRecords : /\ Begin(c, rec) /\ rec.read = <<>> /\ rec.drift = NoDrift
                                 /\ rec.stage \in {"compute", "seed", "diff", "promote"}
    BY BeginsTyped
<1>2. ForestTypeOK BY DEF TreesFit
<1>3. /\ call'[c].read = <<>> /\ call'[c].stage = rec.stage /\ call'[c].drift = NoDrift
      /\ \A d \in CallIds \ {c} : call'[d].alone = FALSE
    BY <1>1, <1>2, BeginFacts
<1>4. \A l \in Levels : Named(c, l)'
    <2>1. \A l \in Levels : DOMAIN NoDrift[l] = {} BY DEF NoDrift, EmptyTree
    <2> QED BY <2>1, <1>3 DEF Named
<1>5. FlagsFit(c)' BY <1>1, <1>3, <1>4 DEF FlagsFit
<1> QED BY <1>3, <1>5 DEF FlagsAreKept, FlagsFit

LEMMA AskedFacts ==
    ASSUME NEW level \in Levels \cup {"smart"}
    PROVE  {LevelsOf(level)[i] : i \in DOMAIN LevelsOf(level)} = IF level = "smart" THEN Levels ELSE {level}
<1>1. {LEVELS[i] : i \in DOMAIN LEVELS} = Levels
    <2>1. DOMAIN LEVELS = {1, 2, 3} /\ LEVELS[1] = "l1" /\ LEVELS[2] = "l2" /\ LEVELS[3] = "l3" BY DEF LEVELS
    <2> QED BY <2>1 DEF Levels
<1>2. CASE level = "smart" BY <1>1, <1>2 DEF LevelsOf
<1>3. CASE level # "smart"
    <2>1. LevelsOf(level) = <<level>> /\ DOMAIN <<level>> = {1} BY <1>3 DEF LevelsOf
    <2> QED BY <2>1, <1>3
<1> QED BY <1>2, <1>3

\* What a report keeps is what the diffs of the call found.
LEMMA ReportIsDrift ==
    ASSUME NEW c, NEW drift \in [Levels -> Trees], NEW l \in Levels
    PROVE  DOMAIN Reported(c, drift)[l] \subseteq DOMAIN drift[l]
<1>1. DOMAIN EmptyTree = {} BY DEF EmptyTree
<1> QED BY <1>1 DEF Reported

LEMMA DiffKeepsFlags ==
    ASSUME TreesFit, AcceptsFit, FlagsAreKept, NEW c \in CallIds, LandDiff(c)
    PROVE  FlagsAreKept'
<1> DEFINE l == LevelRead(c)
           scope == call[c].scope
           drift == [call[c].drift EXCEPT ![l] = TreeDiff(baseline[l], TreeRead(c), scope)]
           more == IF call[c].level = "smart" /\ l = "l1" /\ drift["l1"] # EmptyTree
                   THEN <<"l2", "l3">> ELSE Tail(call[c].todo)
           q == [call[c] EXCEPT !.todo = more, !.read = <<>>, !.drift = drift]
           report == Reported(c, drift)
           r == AfterReport(c, report)
<1>1. ForestTypeOK /\ FlagsFit(c) BY DEF TreesFit, FlagsAreKept
<1>2. call[c].stage = "diff" /\ call[c].read # <<>> /\ InFlight(c) BY DEF LandDiff, Landing, InFlight
<1>3. l \in Levels /\ IsTree(TreeRead(c)) BY <1>1, <1>2, LevelOfCall, ReadIsTree
<1>4. /\ call[c] \in CallRecords /\ call \in [CallIds -> CallRecords]
      /\ call[c].drift \in [Levels -> Trees]
    BY <1>1 DEF ForestTypeOK, CallRecords
<1>5. drift \in [Levels -> Trees] BY <1>3, <1>4, DiffTyped
<1>6. /\ call' = [call EXCEPT ![c] = q] \/ call' = [call EXCEPT ![c] = r]
      /\ UNCHANGED <<files, up, baseline>>
    BY DEF LandDiff
<1>7. \A k \in Levels : Fresh(k)' = Fresh(k) BY <1>6, FreshStays
<1>8. ASSUME call[c].alone, NEW k \in Levels
      PROVE  DOMAIN drift[k] \subseteq DOMAIN TreeDiff(baseline[k], Fresh(k), scope)
    <2>1. TreeRead(c) = Fresh(l) BY <1>1, <1>2, <1>8, ReadIsFresh DEF FlagsFit
    <2>2. drift[l] = TreeDiff(baseline[l], Fresh(l), scope) BY <2>1, <1>3, <1>4
    <2>3. CASE k = l BY <2>2, <2>3
    <2>4. CASE k # l
        <3>1. drift[k] = call[c].drift[k] BY <2>4, <1>4
        <3>2. Named(c, k) BY <1>1, <1>2, <1>8 DEF FlagsFit
        <3> QED BY <3>1, <3>2 DEF Named
    <2> QED BY <2>3, <2>4
<1> HIDE DEF drift, more
<1>9. /\ q.stage = "diff" /\ q.alone = call[c].alone /\ q.read = <<>> /\ q.drift = drift /\ q.scope = scope
    BY <1>2, <1>4 DEF CallRecords
<1>10. /\ r.read = <<>> /\ r.stage \in {"idle", "refold"}
       /\ r = NoCall \/ /\ r.drift = report
                        /\ r.plan = FoldPlan(r.drift) /\ r.chosen = r.plan
                        /\ r.todo = LevelsOf(call[c].level) /\ r.level = call[c].level
                        /\ r.scope = scope /\ r.alone = call[c].alone
    BY <1>1, <1>5, ReportTyped
<1>11. \A k \in Levels : DOMAIN report[k] \subseteq DOMAIN drift[k] BY <1>5, ReportIsDrift
<1> HIDE DEF q, r, report
<1>12. CASE call' = [call EXCEPT ![c] = q]
    <2>1. call'[c] = q /\ \A d \in CallIds \ {c} : call'[d] = call[d] BY <1>4, <1>12
    <2>2. ASSUME call'[c].alone PROVE \A k \in Levels : Named(c, k)'
        BY <2>1, <2>2, <1>6, <1>7, <1>8, <1>9 DEF Named
    <2>3. FlagsFit(c)' BY <2>1, <2>2, <1>9 DEF FlagsFit
    <2> QED BY <2>1, <2>3, <1>2, OthersUnflagged
<1>13. CASE call' = [call EXCEPT ![c] = r] /\ r # NoCall
    <2>1. call'[c] = r /\ \A d \in CallIds \ {c} : call'[d] = call[d] BY <1>4, <1>13
    <2>2. FlagsFit(c)'
        <3> SUFFICES ASSUME call'[c].alone PROVE FlagsFit(c)' BY DEF FlagsFit
        <3>1. call[c].alone BY <2>1, <1>10, <1>13
        <3>2. \A k \in Levels : DOMAIN r.drift[k] \subseteq DOMAIN TreeDiff(baseline[k], Fresh(k), scope)
            BY <3>1, <1>8, <1>10, <1>11, <1>13
        <3>3. \A k \in Levels : Named(c, k)' BY <3>2, <2>1, <1>6, <1>7, <1>10, <1>13 DEF Named
        <3>4. r.plan \subseteq Drifted(r.drift) \cap Ordered BY <1>10, <1>13, PlanIsDrift
        <3>5. ASSUME NEW m \in r.plan \cap Leaves, NEW p \in Guests \ up, m \in Under(p) PROVE FALSE
            <4>1. PICK k \in Levels : m \in DOMAIN r.drift[k] BY <3>4 DEF Drifted
            <4>2. m \in DOMAIN TreeDiff(baseline[k], Fresh(k), scope) BY <4>1, <3>2
            <4>3. /\ files \in [Leaves -> Stat \cup {Gone}] /\ IsTree(baseline[k]) /\ Hashed(baseline[k])
                BY <1>1, FreshFacts DEF ForestTypeOK
            <4> QED BY <4>2, <4>3, <3>5, StoppedIsQuiet DEF Fresh
        <3>6. PlanFits(c)' BY <3>4, <3>5, <2>1, <1>6, <1>10, <1>13 DEF PlanFits
        <3>7. Asked(c)' \subseteq Rest(c)'
            <4>1. call[c].level \in Levels \cup {"smart"} BY <1>4 DEF CallRecords
            <4>2. {LevelsOf(call[c].level)[i] : i \in DOMAIN LevelsOf(call[c].level)} =
                      IF call[c].level = "smart" THEN Levels ELSE {call[c].level}
                BY <4>1, AskedFacts
            <4> QED BY <4>2, <2>1, <1>10, <1>13 DEF Asked, Rest
        <3>8. r.read = <<>> /\ r.stage \in {"idle", "refold"} BY <1>10
        <3> QED BY <3>3, <3>6, <3>7, <3>8, <2>1 DEF FlagsFit
    <2> QED BY <2>1, <2>2, <1>2, OthersUnflagged
<1>14. CASE call' = [call EXCEPT ![c] = NoCall] BY <1>2, <1>14, NoCallTyped, PlainCallKeepsFlags
<1> QED BY <1>6, <1>12, <1>13, <1>14

\* The fold of one node of the plan hides none of the drift that was not chosen, and leaves
\* what the node holds of every level reading as it did.
LEMMA FoldKeepsFlags ==
    ASSUME TreesFit, NEW c \in CallIds, NEW w \in [Levels -> Trees], \A l \in Levels : Hashed(w[l]),
           FoldNext(c, w), UNCHANGED <<files, up>>,
           call[c].plan # {}, PlanFits(c),
           \A l \in Levels : Sharp(l) => Flagged(c, l) /\ (l \in Asked(c) => w[l] = Fresh(l)),
           call'[c].drift = call[c].drift, call'[c].chosen = call[c].chosen,
           call'[c].scope = call[c].scope, call'[c].level = call[c].level,
           call'[c].plan \subseteq call[c].plan
    PROVE  /\ PlanFits(c)'
           /\ \A l \in Levels : Sharp(l)' => Flagged(c, l)' /\ (l \in Asked(c)' => w[l] = Fresh(l)')
<1> DEFINE m == FirstInOrder(call[c].plan)
           bad(l) == m \in DOMAIN w[l] /\ (m \in Leaves => ~(Above[m] \subseteq DOMAIN baseline[l]))
<1>1. /\ baseline' = [l \in Levels |-> IF l \in Asked(c) THEN FoldLeaf(baseline[l], w[l], m) ELSE baseline[l]]
      /\ grafted' = grafted \cup {l \in Asked(c) : bad(l)}
    BY DEF FoldNext, Asked
<1>2. m \in call[c].plan /\ m \in call[c].chosen
    BY FirstIsPlanned DEF PlanFits
<1>3. call[c].scope \in Nodes BY DEF TreesFit, ForestTypeOK, CallRecords
<1> HIDE DEF m
<1>4. PlanFits(c)' BY DEF PlanFits
<1>5. ASSUME NEW l \in Levels, Sharp(l)'
      PROVE  Flagged(c, l)' /\ (l \in Asked(c)' => w[l] = Fresh(l)')
    <2>1. Sharp(l) BY <1>1, <1>5 DEF Sharp
    <2>2. Flagged(c, l) /\ (l \in Asked(c) => w[l] = Fresh(l)) BY <2>1
    <2>3. Asked(c)' = Asked(c) BY DEF Asked
    <2>4. CASE l \notin Asked(c)
        <3>1. baseline'[l] = baseline[l] BY <1>1, <2>4
        <3>2. Fresh(l)' = Fresh(l) BY <3>1 DEF Fresh
        <3> QED BY <2>2, <2>3, <2>4, <3>1, <3>2 DEF Flagged
    <2>5. CASE l \in Asked(c)
        <3> DEFINE b == baseline[l]
        <3>1. baseline'[l] = FoldLeaf(b, w[l], m) /\ w[l] = Fresh(l) BY <1>1, <2>2, <2>5
        <3>2. /\ IsTree(b) /\ Hashed(b) /\ IsTree(w[l]) /\ Hashed(w[l]) /\ WellFolded(w[l], Root)
            BY <2>1, <3>1, FreshFacts
        <3>3. ASSUME NEW p \in Prefixes, p # Host, p \notin up, m \in DOMAIN w[l] \cap Under(p) PROVE FALSE
            <4>1. p \in Guests \ up /\ up # Guests BY <3>3 DEF Prefixes
            <4>2. l \notin grafted' BY <4>1, <1>5 DEF Sharp
            <4>3. ~bad(l) BY <4>2, <1>1, <2>5
            <4>4. m \in Leaves BY <4>3, <3>3
            <4> QED BY <4>1, <4>4, <3>3, <1>2 DEF PlanFits
        <3>4. Fresh(l)' = Fresh(l)
            <4>1. AssembleForest(l, files, up, FoldLeaf(b, w[l], m), Prefixes, {}) =
                      AssembleForest(l, files, up, b, Prefixes, {})
                BY <3>2, <3>3, FoldedReadsTheSame
            <4> QED BY <4>1, <3>1 DEF Fresh
        <3>5. ASSUME NEW n \in DOMAIN call[c].drift[l], \A k \in call[c].chosen : n \notin Under(k)
              PROVE  n \in DOMAIN TreeDiff(FoldLeaf(b, w[l], m), w[l], call[c].scope)
            <4>1. n \in DOMAIN TreeDiff(b, w[l], call[c].scope) BY <3>1, <3>5, <2>2 DEF Flagged
            <4>2. n \notin Under(m) BY <3>5, <1>2
            <4> QED BY <4>1, <4>2, <3>2, <1>3, FoldKeepsEntries
        <3>6. Flagged(c, l)' BY <3>1, <3>4, <3>5 DEF Flagged
        <3> QED BY <3>1, <3>4, <3>6
    <2> QED BY <2>4, <2>5
<1> QED BY <1>4, <1>5


\* The elements of a sequence: the first, and those of the rest.
LEMMA RestOfTail ==
    ASSUME NEW S, NEW s \in Seq(S), s # <<>>
    PROVE  /\ Len(s) = 1 => {s[i] : i \in DOMAIN s} = {Head(s)}
           /\ {s[i] : i \in DOMAIN s} \subseteq {Head(s)} \cup {Tail(s)[i] : i \in DOMAIN Tail(s)}
<1>1. Len(s) \in Nat \ {0} /\ DOMAIN s = 1..Len(s) /\ Head(s) = s[1] OBVIOUS
<1>2. Tail(s) \in Seq(S) /\ Len(Tail(s)) = Len(s) - 1 /\ DOMAIN Tail(s) = 1..(Len(s) - 1)
    BY <1>1
<1>3. \A i \in 1..(Len(s) - 1) : Tail(s)[i] = s[i + 1] BY <1>1, <1>2
<1>4. ASSUME NEW i \in DOMAIN s PROVE s[i] \in {Head(s)} \cup {Tail(s)[j] : j \in DOMAIN Tail(s)}
    <2>1. CASE i = 1 BY <2>1, <1>1
    <2>2. CASE i # 1
        <3>1. i - 1 \in 1..(Len(s) - 1) /\ (i - 1) + 1 = i BY <2>2, <1>1
        <3>2. Tail(s)[i - 1] = s[i] BY <3>1, <1>3
        <3> QED BY <3>1, <3>2, <1>2
    <2> QED BY <2>1, <2>2
<1>5. Len(s) = 1 => {s[i] : i \in DOMAIN s} = {Head(s)}
    <2> SUFFICES ASSUME Len(s) = 1 PROVE {s[i] : i \in DOMAIN s} = {Head(s)} OBVIOUS
    <2>1. \A i \in DOMAIN s : i = 1 BY <1>1
    <2>2. 1 \in DOMAIN s BY <1>1
    <2> QED BY <2>1, <2>2, <1>1
<1> QED BY <1>4, <1>5

LEMMA FoldStepKeepsFlags ==
    ASSUME TreesFit, AcceptsFit, FlagsAreKept, NEW c \in CallIds, Fold(c)
    PROVE  FlagsAreKept'
<1> DEFINE r == [call[c] EXCEPT !.plan = @ \ {FirstInOrder(@)}]
<1>1. ForestTypeOK /\ LeavesHold /\ FlagsFit(c) BY DEF TreesFit, FlagsAreKept
<1>2. /\ call' = [call EXCEPT ![c] = r] /\ FoldNext(c, working) /\ call[c].stage = "fold"
      /\ call[c].plan # {} /\ InFlight(c) /\ UNCHANGED <<files, up, working>>
    BY DEF Fold, InFlight
<1>3. call \in [CallIds -> CallRecords] /\ call[c] \in CallRecords BY <1>1 DEF ForestTypeOK
<1>4. /\ r.drift = call[c].drift /\ r.chosen = call[c].chosen /\ r.scope = call[c].scope
      /\ r.level = call[c].level /\ r.stage = "fold" /\ r.alone = call[c].alone
      /\ r.plan \subseteq call[c].plan
    BY <1>2, <1>3 DEF CallRecords
<1> HIDE DEF r
<1>5. call'[c] = r /\ \A d \in CallIds \ {c} : call'[d] = call[d] BY <1>2, <1>3
<1>6. working \in [Levels -> Trees] /\ \A l \in Levels : Hashed(working[l])
    BY <1>1 DEF ForestTypeOK, LeavesHold
<1>7. FlagsFit(c)'
    <2> SUFFICES ASSUME call'[c].alone PROVE FlagsFit(c)' BY DEF FlagsFit
    <2>1. /\ PlanFits(c)
          /\ \A l \in Levels : Sharp(l) => Flagged(c, l) /\ (l \in Asked(c) => working[l] = Fresh(l))
        BY <1>1, <1>2, <1>4, <1>5 DEF FlagsFit
    <2>2. /\ call'[c].drift = call[c].drift /\ call'[c].chosen = call[c].chosen
          /\ call'[c].scope = call[c].scope /\ call'[c].level = call[c].level
          /\ call'[c].plan \subseteq call[c].plan /\ call'[c].stage = "fold"
        BY <1>4, <1>5
    <2>3. /\ PlanFits(c)'
          /\ \A l \in Levels : Sharp(l)' => Flagged(c, l)' /\ (l \in Asked(c)' => working[l] = Fresh(l)')
        BY <1>2, <1>6, <2>1, <2>2, FoldKeepsFlags
    <2> QED BY <1>2, <2>2, <2>3 DEF FlagsFit
<1> QED BY <1>2, <1>5, <1>7, OthersUnflagged

LEMMA RefoldKeepsFlags ==
    ASSUME TreesFit, AcceptsFit, FlagsAreKept, NEW c \in CallIds, LandRefold(c)
    PROVE  FlagsAreKept'
<1> DEFINE l == LevelRead(c)
           w == [working EXCEPT ![l] = TreeRead(c)]
           last == Len(call[c].todo) = 1
           q == [call[c] EXCEPT !.stage = "fold", !.read = <<>>, !.plan = @ \ {FirstInOrder(@)}]
<1>1. ForestTypeOK /\ LeavesHold /\ FlagsFit(c) BY DEF TreesFit, FlagsAreKept
<1>2. call[c].stage = "refold" /\ call[c].read # <<>> /\ InFlight(c) BY DEF LandRefold, Landing, InFlight
<1>3. /\ l \in Levels /\ TreeRead(c) \in Trees /\ Hashed(TreeRead(c))
      /\ call[c].todo \in Seq(Levels) /\ call[c].todo # <<>>
    BY <1>1, <1>2, LevelOfCall, ReadIsTree DEF LeavesHold
<1>4. w \in [Levels -> Trees] /\ (\A k \in Levels : Hashed(w[k]) /\ w[k] = IF k = l THEN TreeRead(c) ELSE working[k])
    BY <1>1, <1>3 DEF ForestTypeOK, LeavesHold
<1>5. call \in [CallIds -> CallRecords] /\ call[c] \in CallRecords /\ Asked(c) \subseteq Levels
    BY <1>1 DEF ForestTypeOK, CallRecords, Asked
<1>6. \/ call' = [call EXCEPT ![c] = NoCall]
      \/ /\ ~last /\ working' = w /\ call' = [call EXCEPT ![c] = NextLevel(c)]
         /\ UNCHANGED <<baseline, grafted>>
      \/ /\ last /\ call[c].plan # {} /\ working' = w /\ call' = [call EXCEPT ![c] = q]
         /\ FoldNext(c, w)
    BY DEF LandRefold
<1>7. UNCHANGED <<files, up>> BY DEF LandRefold
<1>8. /\ last => Rest(c) = {l}
      /\ Rest(c) \subseteq {l} \cup {Tail(call[c].todo)[i] : i \in DOMAIN Tail(call[c].todo)}
    BY <1>3, RestOfTail DEF Rest, LevelRead
<1>9. /\ ~last => /\ NextLevel(c).todo = Tail(call[c].todo) /\ NextLevel(c).read = <<>>
                  /\ NextLevel(c).stage = "refold" /\ NextLevel(c).scope = call[c].scope
                  /\ NextLevel(c).alone = call[c].alone /\ NextLevel(c).drift = call[c].drift
                  /\ NextLevel(c).plan = call[c].plan /\ NextLevel(c).chosen = call[c].chosen
                  /\ NextLevel(c).level = call[c].level
    BY <1>1, <1>2, NextLevelTyped
<1>10. /\ q.drift = call[c].drift /\ q.chosen = call[c].chosen /\ q.scope = call[c].scope
       /\ q.level = call[c].level /\ q.stage = "fold" /\ q.alone = call[c].alone
       /\ q.plan \subseteq call[c].plan
    BY <1>5 DEF CallRecords
<1> HIDE DEF q, w
\* The trees that the call has computed so far, this one with them.
<1>11. ASSUME call[c].alone PROVE \A k \in (Asked(c) \ Rest(c)) \cup {l} : w[k] = Fresh(k)
    <2>1. TreeRead(c) = Fresh(l) BY <1>1, <1>2, <1>11, ReadIsFresh DEF FlagsFit
    <2>2. \A k \in Asked(c) \ Rest(c) : working[k] = Fresh(k) BY <1>1, <1>2, <1>11 DEF FlagsFit
    <2> QED BY <2>1, <2>2, <1>3, <1>4, <1>5
<1>12. CASE call' = [call EXCEPT ![c] = NoCall] BY <1>12, <1>2, NoCallTyped, PlainCallKeepsFlags
<1>13. CASE /\ ~last /\ working' = w /\ call' = [call EXCEPT ![c] = NextLevel(c)]
            /\ UNCHANGED <<baseline, grafted>>
    <2>1. call'[c] = NextLevel(c) /\ \A d \in CallIds \ {c} : call'[d] = call[d] BY <1>13, <1>5
    <2>2. \A k \in Levels : Fresh(k)' = Fresh(k) BY <1>7, <1>13, FreshStays
    <2>3. FlagsFit(c)'
        <3> SUFFICES ASSUME call'[c].alone PROVE FlagsFit(c)' BY DEF FlagsFit
        <3>1. call[c].alone /\ ~last BY <1>9, <1>13, <2>1
        <3>2. \A k \in Levels : Named(c, k)'
            <4>1. \A k \in Levels : Named(c, k) BY <3>1, <1>1, <1>2 DEF FlagsFit
            <4> QED BY <4>1, <3>1, <1>9, <1>13, <2>1, <2>2 DEF Named
        <3>3. PlanFits(c)'
            <4>1. PlanFits(c) BY <3>1, <1>1, <1>2 DEF FlagsFit
            <4> QED BY <4>1, <3>1, <1>7, <1>9, <2>1 DEF PlanFits
        <3>4. \A k \in Asked(c)' \ Rest(c)' : working'[k] = Fresh(k)'
            <4>1. Asked(c)' = Asked(c) BY <3>1, <1>9, <2>1 DEF Asked
            <4>2. Rest(c)' = {Tail(call[c].todo)[i] : i \in DOMAIN Tail(call[c].todo)}
                <5>1. call'[c].todo = Tail(call[c].todo) BY <3>1, <1>9, <2>1
                <5> QED BY <5>1, Zenon DEF Rest
            <4>3. Asked(c)' \ Rest(c)' \subseteq (Asked(c) \ Rest(c)) \cup {l} BY <4>1, <4>2, <1>8
            <4> QED BY <4>1, <4>3, <3>1, <1>5, <1>11, <1>13, <2>2
        <3>5. call'[c].read = <<>> /\ call'[c].stage = "refold" BY <3>1, <1>9, <2>1
        <3> QED BY <3>2, <3>3, <3>4, <3>5 DEF FlagsFit
    <2> QED BY <2>1, <2>3, <1>2, OthersUnflagged
<1>14. CASE /\ last /\ call[c].plan # {} /\ working' = w /\ call' = [call EXCEPT ![c] = q]
            /\ FoldNext(c, w)
    <2>1. call'[c] = q /\ \A d \in CallIds \ {c} : call'[d] = call[d] BY <1>14, <1>5
    <2>2. FlagsFit(c)'
        <3> SUFFICES ASSUME call'[c].alone PROVE FlagsFit(c)' BY DEF FlagsFit
        <3>1. call[c].alone /\ last BY <1>10, <1>14, <2>1
        <3>2. PlanFits(c) /\ \A k \in Levels : Named(c, k) BY <3>1, <1>1, <1>2 DEF FlagsFit
        <3>3. \A k \in Levels : Flagged(c, k) BY <3>2 DEF Named, Flagged
        <3>4. \A k \in Asked(c) : w[k] = Fresh(k) BY <3>1, <1>8, <1>11
        <3>5. \A k \in Levels : Sharp(k) => Flagged(c, k) /\ (k \in Asked(c) => w[k] = Fresh(k))
            BY <3>3, <3>4
        <3>6. /\ call'[c].drift = call[c].drift /\ call'[c].chosen = call[c].chosen
              /\ call'[c].scope = call[c].scope /\ call'[c].level = call[c].level
              /\ call'[c].plan \subseteq call[c].plan /\ call'[c].stage = "fold"
            BY <1>10, <2>1
        <3>7. /\ PlanFits(c)'
              /\ \A k \in Levels : Sharp(k)' => Flagged(c, k)' /\ (k \in Asked(c)' => w[k] = Fresh(k)')
            BY <1>4, <1>7, <1>14, <3>2, <3>5, <3>6, FoldKeepsFlags
        <3> QED BY <1>14, <3>6, <3>7 DEF FlagsFit
    <2> QED BY <2>1, <2>2, <1>2, OthersUnflagged
<1> QED BY <1>6, <1>12, <1>13, <1>14

LEMMA StepKeepsFlags ==
    ASSUME TreesFit, AcceptsFit, FlagsAreKept, [ForestNext]_forestVars
    PROVE  FlagsAreKept'
<1>1. ForestTypeOK /\ call \in [CallIds -> CallRecords] BY DEF TreesFit, ForestTypeOK
<1>2. CASE UNCHANGED forestVars
    <2>1. UNCHANGED <<files, up, baseline, working, call, grafted>> BY <1>2 DEF forestVars
    <2>2. \A l : Fresh(l)' = Fresh(l) BY <2>1 DEF Fresh
    <2>3. \A c \in CallIds : FlagsFit(c)'
        <3> TAKE c \in CallIds
        <3>1. /\ Rest(c)' = Rest(c) /\ Asked(c)' = Asked(c) /\ TreeRead(c)' = TreeRead(c)
              /\ ReadOf(c, Prefixes, {})' = ReadOf(c, Prefixes, {})
            BY <2>1, <2>2, ReadIsFresh DEF Rest, Asked, TreeRead, ReadOf, LevelRead
        <3>2. \A l \in Levels : /\ Named(c, l)' <=> Named(c, l)
                                /\ Flagged(c, l)' <=> Flagged(c, l)
                                /\ Sharp(l)' <=> Sharp(l)
            BY <2>1, <2>2 DEF Named, Flagged, Sharp
        <3>3. PlanFits(c)' <=> PlanFits(c) BY <2>1 DEF PlanFits
        <3>4. FlagsFit(c) BY DEF FlagsAreKept
        <3> QED BY <2>1, <2>2, <3>1, <3>2, <3>3, <3>4 DEF FlagsFit
    <2> QED BY <2>3 DEF FlagsAreKept
<1>3. CASE NodeStep
    <2>1. Change BY <1>3 DEF NodeStep, OutOfBand, ServerWrite, GuestTurns
    <2>2. \A c \in CallIds : call'[c].alone = FALSE
        <3>1. call' = [d \in CallIds |-> [call[d] EXCEPT !.alone = FALSE]] BY <2>1 DEF Change, Disturbed
        <3> QED BY <1>1, <3>1 DEF CallRecords
    <2> QED BY <2>2 DEF FlagsAreKept, FlagsFit
<1>4. ASSUME NEW c \in CallIds, LandBaseline(c) \/ LandPromote(c) PROVE FlagsAreKept'
    <2>1. /\ call[c].stage \in {"compute", "seed", "promote"} /\ InFlight(c)
          /\ call' = [call EXCEPT ![c] = NextLevel(c)]
        BY <1>4 DEF LandBaseline, LandPromote, Landing, InFlight
    <2>2. NextLevel(c).stage \notin {"diff", "refold", "fold"}
        BY <1>1, <2>1, NextLevelTyped, NoCallTyped
    <2> QED BY <2>1, <2>2, PlainCallKeepsFlags
<1>5. ASSUME NEW c \in CallIds, Throw(c) \/ FoldsDone(c) PROVE FlagsAreKept'
    <2>1. InFlight(c) /\ call' = [call EXCEPT ![c] = NoCall] BY <1>5 DEF Throw, FoldsDone, InFlight
    <2> QED BY <2>1, NoCallTyped, PlainCallKeepsFlags
<1> QED BY <1>2, <1>3, <1>4, <1>5, ForestSteps, BeginKeepsFlags, ReadKeepsFlags, DiffKeepsFlags,
           RefoldKeepsFlags, FoldStepKeepsFlags

\* While an auto-accept has the server to itself, and so when it ends, every drift of its
\* report that is neither a node it chose to fold nor below one is still named by the next
\* verify of that level and scope: folding a node changes the hashes above it only by what
\* the node holds, so no directory on the way to a flagged drift comes to agree.
THEOREM FlaggedReported == ForestSpec => []FlaggedStaysReported
<1>1. ForestInit => TreesFit /\ AcceptsFit /\ FlagsAreKept
    <2> SUFFICES ASSUME ForestInit PROVE TreesFit /\ AcceptsFit /\ FlagsAreKept
        OBVIOUS
    <2>1. TreesFit BY InitFitsTrees
    <2>2. settled = Gone /\ \A c \in CallIds : call[c] = NoCall BY DEF ForestInit
    <2> QED BY <2>1, <2>2, NoCallTyped
            DEF AcceptsFit, SettledFits, AcceptFits, InFlight, FlagsAreKept, FlagsFit
<1>2. TreesFit /\ AcceptsFit /\ FlagsAreKept /\ [ForestNext]_forestVars
          => (TreesFit /\ AcceptsFit /\ FlagsAreKept)'
    BY StepKeepsTrees, StepKeepsAccepts, StepKeepsFlags
<1>3. FlagsAreKept => FlaggedStaysReported
    <2> SUFFICES ASSUME FlagsAreKept, NEW c \in CallIds, NEW l \in Levels, AutoAccepts(c), Sharp(l)
                 PROVE  Flagged(c, l)
        BY DEF FlaggedStaysReported, Flagged, Sharp
    <2>1. FlagsFit(c) /\ call[c].alone /\ call[c].stage \in {"refold", "fold"}
        BY DEF FlagsAreKept, AutoAccepts
    <2>2. CASE call[c].stage = "refold" BY <2>1, <2>2 DEF FlagsFit, Named, Flagged
    <2>3. CASE call[c].stage = "fold" BY <2>1, <2>3 DEF FlagsFit
    <2> QED BY <2>1, <2>2, <2>3
<1> QED BY <1>1, <1>2, <1>3, PTL DEF ForestSpec
=============================================================================
