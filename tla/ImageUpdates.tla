---------------------------- MODULE ImageUpdates ----------------------------
(***************************************************************************)
(* image_updates, src/tools/imageUpdates.ts over src/tools/dockerUpdate.ts: *)
(* is there a newer image for each running container?  One call reads the  *)
(* containers, then their images, then the registry, then Diun's database, *)
(* each in a command of its own, while images are published, pulled, put   *)
(* to use and deleted.  The verdict is made from the four readings.        *)
(*                                                                         *)
(* An image is named by its content; a registry tag points to an index     *)
(* digest, several of which may have the same content, and an image keeps  *)
(* every digest it was pulled by (RepoDigests).                            *)
(***************************************************************************)
EXTENDS Naturals, FiniteSets

CONSTANTS
    Containers, Refs, RefOf,        \* containers and the ref each is created from
    Pinned, Local, OptedOut,        \* containers with a digest ref, a local image, a label diun.enable=false
    Digests, Contents, ContentOf,   \* index digests and the image each leads to
    First,                          \* the digest every tag points to before the call
    None, Failed,                   \* no answer; an answer that is an error
    MaxMoves                        \* BOUND: changes of the images during a call

VARIABLES
    running,   \* container -> the content it runs
    held,      \* ref -> content -> the digests it was pulled by; no image when there is none
    tagged,    \* ref -> the content the local tag names
    registry,  \* ref -> the digest the registry's tag points to
    diun,      \* ref -> the digest Diun saw last, None when it does not track the tag
    ask,       \* the call: its stage, input and readings
    was,       \* container -> the images it has run during the call, each with how it stood (history)
    moves      \* changes so far

updatesVars == <<running, held, tagged, registry, diun, ask, was, moves>>
guestVars == <<running, held, tagged, registry, diun, moves>>

ASSUME UpdatesAssumption ==
    /\ RefOf \in [Containers -> Refs] /\ ContentOf \in [Digests -> Contents] /\ First \in Digests
    /\ Pinned \cup Local \cup OptedOut \subseteq Containers /\ Pinned \cap Local = {}
    /\ IsFiniteSet(Digests)
    /\ {None, Failed} \cap (Digests \cup Contents) = {} /\ None # Failed
    /\ MaxMoves \in Nat

Sources == {"auto", "registry", "diun"}

----------------------------------------------------------------------------
(* The readings *)

Unasked == [pc |-> "idle", source |-> "auto", ids |-> [c \in Containers |-> None],
            local |-> [c \in Containers |-> None], missing |-> {}, alone |-> {},
            remote |-> [r \in Refs |-> None], seen |-> [r \in Refs |-> None]]

Ask(source) ==
    /\ ask.pc = "idle"
    /\ ask' = [ask EXCEPT !.pc = "scan", !.source = source]
    /\ UNCHANGED guestVars

\* parseContainerIdentities: the image each container runs.  A scan that fails ends the call.
Scan(ok) ==
    /\ ask.pc = "scan"
    /\ ask' = IF ok THEN [ask EXCEPT !.pc = "inspect", !.ids = running] ELSE [ask EXCEPT !.pc = "ended"]
    /\ UNCHANGED guestVars

\* Mutant: the image its tag names by now.
InspectedByTag(c) == tagged[RefOf[c]]

\* The image a container is inspected by: the one the scan found it running.
Inspected(c) == ask.ids[c]

\* buildImageInfoCommand over the ids, parseImageInfo and localDigestFor: images that are gone,
\* or all of them, are missing; a local image has no digest; the others give the first of theirs.
InspectImages(ok) ==
    /\ ask.pc = "inspect"
    /\ LET images(c) == held[RefOf[c]][Inspected(c)]
           missing == {c \in Containers : ~ok \/ images(c) = {}}
           given == Containers \ (missing \cup Local)
       IN \E first \in [given -> Digests] :
            /\ \A c \in given : first[c] \in images(c)
            /\ ask' = [ask EXCEPT
                    !.pc = "registry", !.missing = missing,
                    !.local = [c \in Containers |-> IF c \in given THEN first[c] ELSE None],
                    !.alone = {c \in given : Cardinality(images(c)) = 1}]
    /\ UNCHANGED guestVars

\* The refs that are asked of the registry.
Checkable == {RefOf[c] : c \in {c \in Containers : ask.local[c] # None} \ Pinned}

\* buildRemoteDigestCommand, parseRemoteDigests: each ref on its own, the refs in `failed` with
\* an error and those in `cut` not at all when the command timed out.
CheckRegistry(failed, cut) ==
    /\ ask.pc = "registry"
    /\ failed \cup cut \subseteq Checkable /\ failed \cap cut = {}
    /\ ask.source = "diun" => failed \cup cut = {}
    /\ ask' = [ask EXCEPT
            !.pc = "diun",
            !.remote = [r \in Refs |->
                IF ask.source = "diun" \/ r \notin Checkable \ cut THEN None
                ELSE IF r \in failed THEN Failed ELSE registry[r]]]
    /\ UNCHANGED guestVars

\* resolveDiunLocation, splitDiunListOutput, parseDiunImageList: all or nothing.
ReadDiun(ok) ==
    /\ ask.pc = "diun"
    /\ ask' = [ask EXCEPT !.pc = "answer",
                          !.seen = IF ok /\ ask.source # "registry" THEN diun ELSE [r \in Refs |-> None]]
    /\ UNCHANGED guestVars

----------------------------------------------------------------------------
(* The verdict *)

Compare(digest, local) == IF digest = local THEN "up-to-date" ELSE "update-available"

\* classifyImageUpdate
RegistryVerdict(c) ==
    IF c \in Pinned THEN "pinned"
    ELSE IF ask.local[c] = None \/ ask.remote[RefOf[c]] \in {None, Failed} THEN "unknown"
    ELSE Compare(ask.remote[RefOf[c]], ask.local[c])

\* imageUpdatesHandler, diunVerdict: None when Diun does not know the tag.
DiunVerdict(c) ==
    IF c \in Pinned THEN "pinned"
    ELSE IF c \in OptedOut \/ ask.seen[RefOf[c]] = None \/ ask.local[c] = None THEN None
    ELSE Compare(ask.seen[RefOf[c]], ask.local[c])

Said(status, by) == [status |-> status, by |-> by]

\* Mutant: Diun's verdict comes first.
VerdictDiunFirst(c) ==
    IF DiunVerdict(c) # None THEN Said(DiunVerdict(c), "diun")
    ELSE Said(RegistryVerdict(c), IF RegistryVerdict(c) = "unknown" THEN "none" ELSE "registry")

\* imageUpdatesHandler: a missing image has no verdict; the registry's stands unless it failed
\* for this ref and Diun has one.
Verdict(c) ==
    LET registryFailed == RegistryVerdict(c) = "unknown" /\ ask.remote[RefOf[c]] = Failed
    IN IF c \in ask.missing \ Pinned THEN Said("unknown", "none")
       ELSE IF ask.source # "diun" /\ ~(registryFailed /\ DiunVerdict(c) # None)
       THEN Said(RegistryVerdict(c), IF RegistryVerdict(c) = "unknown" THEN "none" ELSE "registry")
       ELSE IF DiunVerdict(c) # None THEN Said(DiunVerdict(c), "diun")
       ELSE Said("unknown", "none")

----------------------------------------------------------------------------
(* Everyone else *)

Move == ask.pc # "answer" /\ ask.pc # "ended" /\ moves < MaxMoves /\ moves' = moves + 1

\* The tag is pointed to another digest, a newer one or an older one.
Publish(r, d) ==
    /\ Move /\ d # registry[r]
    /\ registry' = [registry EXCEPT ![r] = d]
    /\ UNCHANGED <<running, held, tagged, diun, ask>>

Pull(r) ==
    /\ Move
    /\ tagged' = [tagged EXCEPT ![r] = ContentOf[registry[r]]]
    /\ held' = [held EXCEPT ![r][ContentOf[registry[r]]] = @ \cup {registry[r]}]
    /\ UNCHANGED <<running, registry, diun, ask>>

\* A container is created anew from its tag.
Replace(c) ==
    /\ Move /\ running[c] # tagged[RefOf[c]]
    /\ running' = [running EXCEPT ![c] = tagged[RefOf[c]]]
    /\ UNCHANGED <<held, tagged, registry, diun, ask>>

\* An image that no container runs and no tag names is deleted (prune, Watchtower's cleanup).
Prune(r, k) ==
    /\ Move /\ held[r][k] # {} /\ tagged[r] # k
    /\ \A c \in Containers : RefOf[c] = r => running[c] # k
    /\ held' = [held EXCEPT ![r][k] = {}]
    /\ UNCHANGED <<running, tagged, registry, diun, ask>>

DiunScans(r) ==
    /\ Move /\ diun[r] # registry[r]
    /\ diun' = [diun EXCEPT ![r] = registry[r]]
    /\ UNCHANGED <<running, held, tagged, registry, ask>>

----------------------------------------------------------------------------
\* The image a container runs, and whether the registry's tag leads to it.
Standing(c) ==
    <<running[c], IF registry[RefOf[c]] \in held[RefOf[c]][running[c]] THEN "same" ELSE "differs">>

UpdatesInit ==
    /\ running = [c \in Containers |-> ContentOf[First]]
    /\ held = [r \in Refs |-> [k \in Contents |-> IF k = ContentOf[First] THEN {First} ELSE {}]]
    /\ tagged = [r \in Refs |-> ContentOf[First]]
    /\ registry = [r \in Refs |-> First]
    /\ diun \in [Refs -> {None, First}]
    /\ ask = Unasked
    /\ was = [c \in Containers |-> {<<ContentOf[First], "same">>}]
    /\ moves = 0

Call ==
    \/ \E s \in Sources : Ask(s)
    \/ \E ok \in BOOLEAN : Scan(ok) \/ InspectImages(ok) \/ ReadDiun(ok)
    \/ \E failed, cut \in SUBSET Refs : CheckRegistry(failed, cut)

Others ==
    \/ \E r \in Refs : Pull(r) \/ DiunScans(r)
    \/ \E r \in Refs, d \in Digests : Publish(r, d)
    \/ \E r \in Refs, k \in Contents : Prune(r, k)
    \/ \E c \in Containers : Replace(c)

\* `was` grows from the scan on.
UpdatesNext ==
    /\ Call \/ Others
    /\ was' = [c \in Containers |->
                IF ask'.pc \in {"idle", "scan"} THEN {Standing(c)'} ELSE was[c] \cup {Standing(c)'}]

UpdatesSpec == UpdatesInit /\ [][UpdatesNext]_updatesVars

----------------------------------------------------------------------------
(* Properties *)

\* The container was created anew between the scan and the verdict.
Recreated(c) == \E stood \in was[c] : stood[1] # ask.ids[c]

\* At some moment of the call the registry's tag did not lead to the image it ran.
Differed(c) == \E stood \in was[c] : stood[2] = "differs"

\* What the registry's verdict says of a container was so at some moment of the call, however
\* images were published, pulled, put to use and deleted meanwhile: that it runs the newest
\* image was so of the image the scan found, unless that was replaced before the verdict; that
\* there is an update is said only of images with one digest, since localDigestFor takes the
\* first (imageUpdatesHandler, classifyImageUpdate).
VerdictWasTrue ==
    ask.pc = "answer" =>
        \A c \in Containers : Verdict(c).by = "registry" =>
            /\ Verdict(c).status = "up-to-date" => <<ask.ids[c], "same">> \in was[c] \/ Recreated(c)
            /\ Verdict(c).status = "update-available" /\ c \in ask.alone => Differed(c)

\* Each container is judged by its own image and ref: nothing is concluded from an image that
\* was not inspected or sources that did not answer about its ref, and a failure for another
\* container does not take away the verdict the registry gave (imageUpdatesHandler).
FailuresAreContained ==
    ask.pc = "answer" =>
        \A c \in Containers \ Pinned :
            LET r == RefOf[c]
                told == ask.remote[r] \in Digests
                known == Verdict(c).status # "unknown"
            IN /\ known => /\ c \notin ask.missing \cup Local
                           /\ ~told => ask.seen[r] # None /\ c \notin OptedOut
               /\ told /\ c \notin ask.missing \cup Local => known /\ Verdict(c).by = "registry"

----------------------------------------------------------------------------
(* The inductive invariant *)

Asking == [pc : {"idle", "scan", "inspect", "registry", "diun", "answer", "ended"},
           source : Sources, ids : [Containers -> Contents \cup {None}],
           local : [Containers -> Digests \cup {None}],
           missing : SUBSET Containers, alone : SUBSET Containers,
           remote : [Refs -> Digests \cup {None, Failed}], seen : [Refs -> Digests \cup {None}]]

UpdatesTypeOK ==
    /\ running \in [Containers -> Contents]
    /\ held \in [Refs -> [Contents -> SUBSET Digests]]
    /\ tagged \in [Refs -> Contents]
    /\ registry \in [Refs -> Digests]
    /\ diun \in [Refs -> Digests \cup {None}]
    /\ ask \in Asking
    /\ was \in [Containers -> SUBSET (Contents \X {"same", "differs"})]
    /\ moves \in 0 .. MaxMoves

\* A digest is held by the image it leads to, and the history has the present in it.
HeldByContent == \A r \in Refs, k \in Contents : \A d \in held[r][k] : ContentOf[d] = k
WasIsCurrent == \A c \in Containers : Standing(c) \in was[c]

\* From the scan on the image is still the one found, or the history tells.
ScannedFits(c) ==
    /\ ask.ids[c] \in Contents
    /\ Recreated(c) \/ running[c] = ask.ids[c]
    /\ Differed(c) \/ running[c] = ask.ids[c]

\* From the inspection to the registry's answer, what was inspected is still there; the only
\* digest of an image is still the only one, and the registry's.
InspectedFits(c) ==
    LET digests == held[RefOf[c]][ask.ids[c]]
    IN /\ Recreated(c) \/ ask.local[c] \in digests
       /\ c \in ask.alone =>
            Differed(c) \/ (digests = {ask.local[c]} /\ registry[RefOf[c]] = ask.local[c])

\* From then on the comparison is of something that was so.
ComparedFits(c) ==
    LET remote == ask.remote[RefOf[c]]
    IN remote \in Digests =>
        /\ remote = ask.local[c] => <<ask.ids[c], "same">> \in was[c] \/ Recreated(c)
        /\ remote # ask.local[c] /\ c \in ask.alone => Differed(c)

AskFits ==
    /\ ask.pc \in {"inspect", "registry", "diun", "answer"} => \A c \in Containers : ScannedFits(c)
    /\ ask.pc \in {"registry", "diun", "answer"} =>
         \A c \in Containers : ask.local[c] # None <=> c \notin ask.missing \cup Local
    /\ ask.pc = "registry" => \A c \in Containers : ask.local[c] # None => InspectedFits(c)
    /\ ask.pc \in {"diun", "answer"} => \A c \in Containers : ask.local[c] # None => ComparedFits(c)
    /\ ask.pc \in {"diun", "answer"} /\ ask.source = "diun" => \A r \in Refs : ask.remote[r] = None

UpdatesIInv == UpdatesTypeOK /\ HeldByContent /\ WasIsCurrent /\ AskFits
=============================================================================
