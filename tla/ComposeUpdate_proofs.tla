------------------------ MODULE ComposeUpdate_proofs -----------------------
(***************************************************************************)
(* Proofs about ComposeUpdate for every set of services, refs, images and  *)
(* calls in flight: the image to roll back to stays under its hold tag,    *)
(* the outcome says what runs, and a call that changed nothing leaves the  *)
(* hold alone.                                                             *)
(***************************************************************************)
EXTENDS ComposeUpdate, TLAPS

----------------------------------------------------------------------------
(* The progress records *)

\* finish and throw leave a well-formed record.
LEMMA EndedType ==
    ASSUME NEW o \in Outcomes \cup {"refused", "not-held", "thrown", None}, NEW c \in BOOLEAN
    PROVE  [NoCall EXCEPT !.outcome = o, !.counted = c] \in Call
  <1>1. NoCall \in Call
    BY SMT DEF NoCall, Call, Stages
  <1> DEFINE x == [NoCall EXCEPT !.outcome = o]
  <1>2. x \in Call
    BY <1>1, SMT DEF Call
  <1>3. [x EXCEPT !.counted = c] \in Call
    <2> HIDE DEF x
    <2> QED
      BY <1>2, SMT DEF Call
  <1> QED
    BY <1>3

LEMMA FinishType ==
    ASSUME call \in [Updates -> Call], NEW u \in Updates, NEW c \in BOOLEAN,
           NEW o \in Outcomes \cup {"refused", "not-held", "thrown", None}, Finish(u, o, c)
    PROVE  call' \in [Updates -> Call]
  BY EndedType DEF Finish

\* Moving on to another stage, alone or with one more field.
LEMMA GoType ==
    ASSUME call \in [Updates -> Call], NEW u \in Updates, NEW stage \in Stages, Go(u, stage)
    PROVE  call' \in [Updates -> Call]
  <1>1. [call[u] EXCEPT !.at = stage] \in Call
    BY SMT DEF Call
  <1> QED
    BY <1>1 DEF Go

LEMMA StageType ==
    ASSUME NEW r \in Call, NEW stage \in Stages, NEW x \in Images, NEW y \in Refs, NEW m \in BOOLEAN
    PROVE  /\ [r EXCEPT !.at = stage, !.new = x] \in Call
           /\ [r EXCEPT !.at = stage, !.ref = y] \in Call
           /\ [r EXCEPT !.at = stage, !.missed = m] \in Call
  <1> DEFINE q == [r EXCEPT !.at = stage]
  <1>1. q \in Call
    BY SMT DEF Call
  <1>2. /\ [q EXCEPT !.new = x] \in Call
        /\ [q EXCEPT !.ref = y] \in Call
        /\ [q EXCEPT !.missed = m] \in Call
    <2> HIDE DEF q
    <2> QED
      BY <1>1, SMT DEF Call
  <1> QED
    BY <1>2


----------------------------------------------------------------------------
(* What `docker compose up` may do *)

\* Only the ref in the file may move, and then the others know; only the service's
\* container may change, and then to the image the ref names afterwards.
UpEffect(u) ==
    LET s == call[u].svc
        f == fileRef[call[u].svc]
    IN  /\ tags' \in [Tags -> Images \cup {None}] /\ \A x \in Refs : tags'[x] # None
        /\ met' \in [Updates -> SUBSET (Names \cup Refs)]
        /\ container' \in [Services -> [ref : Refs, image : Images]]
        /\ \A t \in Tags : tags'[t] # tags[t] =>
              t = f /\ s \in UpPulls /\ \A v \in Updates \ {u} : InFlight(v) => f \in met'[v]
        /\ \A v \in Updates : met[v] \subseteq met'[v] /\ met'[u] = met[u]
        /\ \A x \in Services \ {s} : container'[x] = container[x]
        /\ container'[s] # container[s] => container'[s].image = tags'[f]

LEMMA UpHasEffect ==
    ASSUME IInv, NEW u \in Updates, InFlight(u),
           container' \in {container, UpContainer(call[u].svc, tags')},
           UpPull(u) \/ UNCHANGED <<tags, met>>
    PROVE  UpEffect(u)
  <1> DEFINE s == call[u].svc
             f == fileRef[s]
  <1>1. s \in Services /\ f \in Refs /\ registry[f] \in Images /\ Refs \subseteq Tags
    BY DEF IInv, TypeOK, StagesAreSound, StageIsSound, Tags
  <1>2. /\ tags \in [Tags -> Images \cup {None}] /\ \A x \in Refs : tags[x] # None
        /\ met \in [Updates -> SUBSET (Names \cup Refs)]
        /\ container \in [Services -> [ref : Refs, image : Images]]
    BY DEF IInv, TypeOK
  <1>3. \/ tags' = tags
        \/ tags' = [tags EXCEPT ![f] = registry[f]] /\ s \in UpPulls /\ met' = Touch(u, f)
    BY DEF UpPull, Pulled
  <1>4. met' = met \/ met' = Touch(u, f)
    BY DEF UpPull
  <1>5. met' \in [Updates -> SUBSET (Names \cup Refs)]
        /\ \A v \in Updates : met[v] \subseteq met'[v] /\ met'[u] = met[u]
    BY <1>1, <1>2, <1>4 DEF Touch
  <1>6. tags' \in [Tags -> Images \cup {None}] /\ \A x \in Refs : tags'[x] # None
    BY <1>1, <1>2, <1>3, UpdateAssumption
  <1>7. \A t \in Tags : tags'[t] # tags[t] =>
              t = f /\ s \in UpPulls /\ \A v \in Updates \ {u} : InFlight(v) => f \in met'[v]
    BY <1>1, <1>2, <1>3 DEF Touch
  <1>8. tags'[f] \in Images
    BY <1>1, <1>6
  <1>9. \/ container' = container
        \/ container' = [container EXCEPT ![s] = [ref |-> f, image |-> tags'[f]]]
    BY DEF UpContainer
  <1>10. /\ container' \in [Services -> [ref : Refs, image : Images]]
         /\ \A x \in Services \ {s} : container'[x] = container[x]
         /\ container'[s] # container[s] => container'[s].image = tags'[f]
    BY <1>1, <1>2, <1>8, <1>9
  <1> QED
    BY <1>5, <1>6, <1>7, <1>10 DEF UpEffect

\* Another call that is undisturbed finds its container and its ref as they were.
LEMMA UpSparesOthers ==
    ASSUME IInv, NEW u \in Updates, InFlight(u), UpEffect(u),
           NEW v \in Updates \ {u}, InFlight(v), call'[v] = call[v], OwnHold(v)'
    PROVE  /\ OwnHold(v)
           /\ container'[call[v].svc] = container[call[v].svc]
           /\ OwnRef(v)' /\ call[v].ref \in Refs
                  => OwnRef(v) /\ tags'[call[v].ref] = tags[call[v].ref]
  <1>1. met[v] \subseteq met'[v] /\ NameOf[call[u].svc] \in met[v]
    BY DEF UpEffect, IInv, OverlapIsMet
  <1>2. OwnHold(v) /\ call[v].svc # call[u].svc
    BY <1>1 DEF OwnHold
  <1>3. container'[call[v].svc] = container[call[v].svc]
    BY <1>2 DEF UpEffect, IInv, StagesAreSound, StageIsSound
  <1>4. ASSUME OwnRef(v)', call[v].ref \in Refs
        PROVE  OwnRef(v) /\ tags'[call[v].ref] = tags[call[v].ref]
    BY <1>1, <1>4 DEF UpEffect, OwnRef, Tags
  <1> QED
    BY <1>2, <1>3, <1>4

----------------------------------------------------------------------------
(* Ends and failures that several actions share *)

\* The call ends, with the container as it was or as up left it.
LEMMA EndKeeps ==
    ASSUME IInv, NEW u \in Updates, InFlight(u), NEW c \in BOOLEAN,
           NEW o \in Outcomes \cup {"refused", "not-held", "thrown"}, Finish(u, o, c),
           container' \in {container, UpContainer(call[u].svc, tags')},
           UpPull(u) \/ UNCHANGED <<tags, met>>,
           UNCHANGED <<registry, fileRef, calls>>, faults' \in 0 .. MaxFaults
    PROVE  IInv'
  <1>0. UpEffect(u)
    BY UpHasEffect
  <1>1. StagesAreSound'
    BY <1>0, UpdateAssumption, SMT DEF Finish, NoCall, UpEffect, IInv, TypeOK, Call, Tags,
       StagesAreSound, StageIsSound, InFlight
  <1>2. OverlapIsMet'
    BY <1>0, UpdateAssumption, SMT DEF Finish, NoCall, UpEffect, IInv, TypeOK, Call, Tags,
       StagesAreSound, StageIsSound, InFlight, OverlapIsMet
  <1>3. HoldIsUntouched'
    BY <1>0, UpdateAssumption, SMT DEF Finish, NoCall, UpEffect, IInv, TypeOK, Call, Tags,
       StagesAreSound, StageIsSound, InFlight, HoldTags, HoldIsUntouched, OwnHold,
       Hold, HoldTagFor, OverlapIsMet
  <1>4. RollbackImageIsHeld'
    BY <1>0, UpdateAssumption, SMT DEF Finish, NoCall, UpEffect, IInv, TypeOK, Call, Tags,
       StagesAreSound, StageIsSound, InFlight, HoldTags, RollbackImageIsHeld, OwnHold,
       Hold, HoldTagFor, OverlapIsMet
  <1>5. RunningIsKnown'
    BY <1>0, UpdateAssumption, SMT DEF Finish, NoCall, UpEffect, IInv, TypeOK, Call, Tags,
       StagesAreSound, StageIsSound, InFlight, HoldTags, RunningIsKnown, RefIsKnown,
       RollbackImageIsHeld, OwnHold, OwnRef, OverlapIsMet, RefMismatch, Hold,
       HoldTagFor
  <1>6. RefIsKnown'
    BY <1>0, UpdateAssumption, SMT DEF Finish, NoCall, UpEffect, IInv, TypeOK, Call, Tags,
       StagesAreSound, StageIsSound, InFlight, HoldTags, RefIsKnown, RunningIsKnown,
       RollbackImageIsHeld, OwnHold, OwnRef, OverlapIsMet, RefMismatch, Hold,
       HoldTagFor
  <1>7. TypeOK'
    <2>1. call' \in [Updates -> Call]
      BY FinishType DEF IInv, TypeOK
    <2> QED
      BY <1>0, <2>1, SMT DEF IInv, TypeOK, UpEffect, StagesAreSound, StageIsSound, Tags
  <1> QED
    BY <1>1, <1>2, <1>3, <1>4, <1>5, <1>6, <1>7 DEF IInv

\* The new image failed and the rollback begins.
LEMMA RollbackBegins ==
    ASSUME IInv, NEW u \in Updates, NEW m \in BOOLEAN, ~RefMismatch(u),
           call[u].at \in {"recreate", "gate"},
           call' = [call EXCEPT ![u].at = "retag", ![u].missed = m],
           container' \in {container, UpContainer(call[u].svc, tags')},
           UpPull(u) \/ UNCHANGED <<tags, met>>,
           UNCHANGED <<registry, fileRef, calls, faults>>
    PROVE  IInv'
  <1>0. UpEffect(u)
    BY UpHasEffect DEF InFlight
  <1>1. StagesAreSound'
    BY <1>0, UpdateAssumption, SMT DEF UpEffect, IInv, TypeOK, Call, Tags, StagesAreSound,
       StageIsSound, InFlight
  <1>2. OverlapIsMet'
    BY <1>0, UpdateAssumption, SMT DEF UpEffect, IInv, TypeOK, Call, Tags, StagesAreSound,
       StageIsSound, InFlight, OverlapIsMet
  <1>3. HoldIsUntouched'
    BY <1>0, UpdateAssumption, SMT DEF UpEffect, IInv, TypeOK, Call, Tags, StagesAreSound,
       StageIsSound, InFlight, HoldTags, HoldIsUntouched, OwnHold, Hold, HoldTagFor,
       OverlapIsMet
  <1>4. RollbackImageIsHeld'
    BY <1>0, UpdateAssumption, SMT DEF UpEffect, IInv, TypeOK, Call, Tags, StagesAreSound,
       StageIsSound, InFlight, HoldTags, RollbackImageIsHeld, OwnHold, Hold,
       HoldTagFor, OverlapIsMet
  <1>5. RunningIsKnown'
    <2> SUFFICES ASSUME NEW v \in Updates, InFlight(v)', OwnHold(v)'
                 PROVE  /\ call'[v].at # "config" => fileRef[call'[v].svc] = call'[v].ref
                        /\ call'[v].at \in {"config", "pull", "resolve", "hold", "restore", "recreate"}
                               => container'[call'[v].svc].image = call'[v].old
                        /\ OwnRef(v)' =>
                              /\ call'[v].at = "gate"
                                     => container'[call'[v].svc].image = tags'[call'[v].ref]
                              /\ call'[v].at = "regate" => container'[call'[v].svc].image = call'[v].old
      BY DEF RunningIsKnown
    <2>1. CASE v = u
      <3>1. /\ call'[u].at = "retag" /\ call'[u].svc = call[u].svc /\ call'[u].ref = call[u].ref
            /\ OwnHold(u)
        BY <1>0, <2>1 DEF IInv, TypeOK, Call, UpEffect, OwnHold
      <3> QED
        BY <2>1, <3>1 DEF IInv, RunningIsKnown, InFlight
    <2>2. CASE v # u
      <3>1. call'[v] = call[v] /\ InFlight(v) /\ InFlight(u)
        BY <2>2 DEF InFlight, IInv, TypeOK
      <3>2. call[v].at # "config" => call[v].ref \in Refs
        BY <3>1 DEF IInv, StagesAreSound, StageIsSound, InFlight
      <3>3. UpEffect(u) /\ v \in Updates \ {u}
        BY <1>0, <2>2
      <3>4. /\ OwnHold(v)
            /\ container'[call[v].svc] = container[call[v].svc]
            /\ OwnRef(v)' /\ call[v].ref \in Refs
                  => OwnRef(v) /\ tags'[call[v].ref] = tags[call[v].ref]
        BY <3>1, <3>3, UpSparesOthers
      <3> QED
        BY <3>1, <3>2, <3>4 DEF IInv, RunningIsKnown
    <2> QED
      BY <2>1, <2>2
  <1>6. RefIsKnown'
    BY <1>0, UpdateAssumption, SMT DEF UpEffect, IInv, TypeOK, Call, Tags, StagesAreSound,
       StageIsSound, InFlight, HoldTags, RefIsKnown, RunningIsKnown, RollbackImageIsHeld,
       OwnHold, OwnRef, OverlapIsMet, RefMismatch, Hold, HoldTagFor
  <1>7. TypeOK'
    <2>1. [call[u] EXCEPT !.at = "retag", !.missed = m] \in Call
      <3>1. call[u] \in Call /\ Images # {}
        BY DEF IInv, TypeOK, StagesAreSound, StageIsSound, InFlight
      <3>2. call[u].ref \in Refs /\ call[u].old \in Images
        BY DEF IInv, StagesAreSound, StageIsSound, InFlight
      <3> QED
        BY <3>1, <3>2, StageType DEF Stages
    <2>2. call' \in [Updates -> Call]
      BY <2>1 DEF IInv, TypeOK
    <2> QED
      BY <1>0, <2>2, SMT DEF IInv, TypeOK, UpEffect, StagesAreSound, StageIsSound, InFlight, Tags
  <1> QED
    BY <1>1, <1>2, <1>3, <1>4, <1>5, <1>6, <1>7 DEF IInv

----------------------------------------------------------------------------
(* The steps of the handler *)

LEMMA BeginStep ==
    ASSUME IInv, NEW u \in Updates, NEW s \in Services, Begin(u, s)
    PROVE  IInv'
  <1>1. StagesAreSound'
    BY UpdateAssumption, SMT DEF Begin, Scanned, Touch, IInv, TypeOK, Call, Tags,
       StagesAreSound, StageIsSound, InFlight
  <1>2. OverlapIsMet'
    BY UpdateAssumption, SMT DEF Begin, Scanned, Touch, IInv, TypeOK, Call, Tags,
       StagesAreSound, StageIsSound, InFlight, OverlapIsMet
  <1>3. HoldIsUntouched'
    BY UpdateAssumption, SMT DEF Begin, Scanned, Touch, IInv, TypeOK, Call, Tags,
       StagesAreSound, StageIsSound, InFlight, HoldTags, HoldIsUntouched, OwnHold,
       Hold, HoldTagFor, OverlapIsMet
  <1>4. RollbackImageIsHeld'
    BY UpdateAssumption, SMT DEF Begin, Scanned, Touch, IInv, TypeOK, Call, Tags,
       StagesAreSound, StageIsSound, InFlight, HoldTags, RollbackImageIsHeld, OwnHold,
       Hold, HoldTagFor, OverlapIsMet
  <1>5. RunningIsKnown'
    BY UpdateAssumption, SMT DEF Begin, Scanned, Touch, IInv, TypeOK, Call, Tags,
       StagesAreSound, StageIsSound, InFlight, HoldTags, RunningIsKnown, RefIsKnown,
       RollbackImageIsHeld, OwnHold, OwnRef, OverlapIsMet, RefMismatch, Hold,
       HoldTagFor
  <1>6. RefIsKnown'
    BY UpdateAssumption, SMT DEF Begin, Scanned, Touch, IInv, TypeOK, Call, Tags,
       StagesAreSound, StageIsSound, InFlight, HoldTags, RefIsKnown, RunningIsKnown,
       RollbackImageIsHeld, OwnHold, OwnRef, OverlapIsMet, RefMismatch, Hold,
       HoldTagFor
  <1>7. TypeOK'
    <2>1. /\ HoldTagFor(container[s].ref, s) \in Tags
          /\ container[s].ref \in Refs /\ container[s].image \in Images
      BY UpdateAssumption DEF IInv, TypeOK, HoldTagFor, Tags, HoldTags
    <2>2. Scanned(s) \in Call
      BY <2>1, SMT DEF Scanned, Call, Stages, IInv, TypeOK
    <2>3. call' \in [Updates -> Call]
      BY <2>2 DEF Begin, IInv, TypeOK
    <2>4. met' \in [Updates -> SUBSET (Names \cup Refs)]
      <3>1. \A v \in Updates : InFlight(v) => NameOf[call[v].svc] \in Names
        BY UpdateAssumption DEF IInv, StagesAreSound, StageIsSound
      <3>2. \A v \in Updates : call[v].ref \in Refs \cup {None}
        BY DEF IInv, TypeOK, Call
      <3>3. NameOf[s] \in Names
        BY UpdateAssumption
      <3> QED
        BY <3>1, <3>2, <3>3 DEF Begin, IInv, TypeOK, Touch
    <2> QED
      BY <2>3, <2>4, UpdateAssumption DEF Begin, IInv, TypeOK
  <1> QED
    BY <1>1, <1>2, <1>3, <1>4, <1>5, <1>6, <1>7 DEF IInv

LEMMA ConfigStep ==
    ASSUME IInv, NEW u \in Updates, Config(u)
    PROVE  IInv'
  <1>1. StagesAreSound'
    BY UpdateAssumption, SMT DEF Config, Touch, IInv, TypeOK, Call, Tags, StagesAreSound,
       StageIsSound, InFlight
  <1>2. OverlapIsMet'
    BY UpdateAssumption, SMT DEF Config, Touch, IInv, TypeOK, Call, Tags, StagesAreSound,
       StageIsSound, InFlight, OverlapIsMet
  <1>3. HoldIsUntouched'
    BY UpdateAssumption, SMT DEF Config, Touch, IInv, TypeOK, Call, Tags, StagesAreSound,
       StageIsSound, InFlight, HoldTags, HoldIsUntouched, OwnHold, Hold, HoldTagFor,
       OverlapIsMet
  <1>4. RollbackImageIsHeld'
    BY UpdateAssumption, SMT DEF Config, Touch, IInv, TypeOK, Call, Tags, StagesAreSound,
       StageIsSound, InFlight, HoldTags, RollbackImageIsHeld, OwnHold, Hold,
       HoldTagFor, OverlapIsMet
  <1>5. RunningIsKnown'
    BY UpdateAssumption, SMT DEF Config, Touch, IInv, TypeOK, Call, Tags, StagesAreSound,
       StageIsSound, InFlight, HoldTags, RunningIsKnown, RefIsKnown, RollbackImageIsHeld,
       OwnHold, OwnRef, OverlapIsMet, RefMismatch, Hold, HoldTagFor
  <1>6. RefIsKnown'
    BY UpdateAssumption, SMT DEF Config, Touch, IInv, TypeOK, Call, Tags, StagesAreSound,
       StageIsSound, InFlight, HoldTags, RefIsKnown, RunningIsKnown, RollbackImageIsHeld,
       OwnHold, OwnRef, OverlapIsMet, RefMismatch, Hold, HoldTagFor
  <1>7. TypeOK'
    <2>1. fileRef[call[u].svc] \in Refs /\ call[u] \in Call /\ call[u].old \in Images
      BY DEF IInv, TypeOK, StagesAreSound, StageIsSound, InFlight, Config
    <2>2. [call[u] EXCEPT !.at = "pull", !.ref = fileRef[call[u].svc]] \in Call
      BY <2>1, StageType DEF Stages
    <2>3. call' \in [Updates -> Call]
      BY <2>2 DEF Config, IInv, TypeOK
    <2>4. met' \in [Updates -> SUBSET (Names \cup Refs)]
      BY <2>1 DEF Config, IInv, TypeOK, Touch
    <2> QED
      BY <2>3, <2>4 DEF Config, IInv, TypeOK
  <1> QED
    BY <1>1, <1>2, <1>3, <1>4, <1>5, <1>6, <1>7 DEF IInv

LEMMA PullStep ==
    ASSUME IInv, NEW u \in Updates, Pull(u)
    PROVE  IInv'
  <1>1. StagesAreSound'
    BY UpdateAssumption, SMT DEF Pull, Pulled, Go, IInv, TypeOK, Call, Tags,
       StagesAreSound, StageIsSound, InFlight
  <1>2. OverlapIsMet'
    BY UpdateAssumption, SMT DEF Pull, Pulled, Go, IInv, TypeOK, Call, Tags,
       StagesAreSound, StageIsSound, InFlight, OverlapIsMet
  <1>3. HoldIsUntouched'
    BY UpdateAssumption, SMT DEF Pull, Pulled, Go, IInv, TypeOK, Call, Tags,
       StagesAreSound, StageIsSound, InFlight, HoldTags, HoldIsUntouched, OwnHold,
       Hold, HoldTagFor, OverlapIsMet
  <1>4. RollbackImageIsHeld'
    BY UpdateAssumption, SMT DEF Pull, Pulled, Go, IInv, TypeOK, Call, Tags,
       StagesAreSound, StageIsSound, InFlight, HoldTags, RollbackImageIsHeld, OwnHold,
       Hold, HoldTagFor, OverlapIsMet
  <1>5. RunningIsKnown'
    BY UpdateAssumption, SMT DEF Pull, Pulled, Go, IInv, TypeOK, Call, Tags,
       StagesAreSound, StageIsSound, InFlight, HoldTags, RunningIsKnown, RefIsKnown,
       RollbackImageIsHeld, OwnHold, OwnRef, OverlapIsMet, RefMismatch, Hold,
       HoldTagFor
  <1>6. RefIsKnown'
    BY UpdateAssumption, SMT DEF Pull, Pulled, Go, IInv, TypeOK, Call, Tags,
       StagesAreSound, StageIsSound, InFlight, HoldTags, RefIsKnown, RunningIsKnown,
       RollbackImageIsHeld, OwnHold, OwnRef, OverlapIsMet, RefMismatch, Hold,
       HoldTagFor
  <1>7. TypeOK'
    <2>1. call' \in [Updates -> Call]
      BY GoType DEF Pull, IInv, TypeOK, Stages
    <2> QED
      BY <2>1, UpdateAssumption, SMTT(20) DEF Pull, Pulled, IInv, TypeOK, StagesAreSound,
         StageIsSound, InFlight, Tags, HoldTags, Hold, HoldTagFor
  <1> QED
    BY <1>1, <1>2, <1>3, <1>4, <1>5, <1>6, <1>7 DEF IInv

LEMMA HoldOldStep ==
    ASSUME IInv, NEW u \in Updates, HoldOld(u)
    PROVE  IInv'
  <1>1. StagesAreSound'
    BY UpdateAssumption, SMT DEF HoldOld, Go, IInv, TypeOK, Call, Tags, StagesAreSound,
       StageIsSound, InFlight
  <1>2. OverlapIsMet'
    BY UpdateAssumption, SMT DEF HoldOld, Go, IInv, TypeOK, Call, Tags, StagesAreSound,
       StageIsSound, InFlight, OverlapIsMet
  <1>3. HoldIsUntouched'
    BY UpdateAssumption, SMT DEF HoldOld, Go, IInv, TypeOK, Call, Tags, StagesAreSound,
       StageIsSound, InFlight, HoldTags, HoldIsUntouched, OwnHold, Hold, HoldTagFor,
       OverlapIsMet
  <1>4. RollbackImageIsHeld'
    BY UpdateAssumption, SMT DEF HoldOld, Go, IInv, TypeOK, Call, Tags, StagesAreSound,
       StageIsSound, InFlight, HoldTags, RollbackImageIsHeld, OwnHold, Hold,
       HoldTagFor, OverlapIsMet
  <1>5. RunningIsKnown'
    BY UpdateAssumption, SMT DEF HoldOld, Go, IInv, TypeOK, Call, Tags, StagesAreSound,
       StageIsSound, InFlight, HoldTags, RunningIsKnown, RefIsKnown, RollbackImageIsHeld,
       OwnHold, OwnRef, OverlapIsMet, RefMismatch, Hold, HoldTagFor
  <1>6. RefIsKnown'
    BY UpdateAssumption, SMT DEF HoldOld, Go, IInv, TypeOK, Call, Tags, StagesAreSound,
       StageIsSound, InFlight, HoldTags, RefIsKnown, RunningIsKnown, RollbackImageIsHeld,
       OwnHold, OwnRef, OverlapIsMet, RefMismatch, Hold, HoldTagFor
  <1>7. TypeOK'
    <2>1. call' \in [Updates -> Call]
      BY GoType DEF HoldOld, IInv, TypeOK, Stages
    <2> QED
      BY <2>1, UpdateAssumption, SMTT(20) DEF HoldOld, IInv, TypeOK, StagesAreSound,
         StageIsSound, InFlight, Tags, HoldTags, Hold, HoldTagFor
  <1> QED
    BY <1>1, <1>2, <1>3, <1>4, <1>5, <1>6, <1>7 DEF IInv

LEMMA HoldFailsStep ==
    ASSUME IInv, NEW u \in Updates, HoldFails(u)
    PROVE  IInv'
  <1>1. StagesAreSound'
    BY UpdateAssumption, SMT DEF HoldFails, Go, IInv, TypeOK, Call, Tags, StagesAreSound,
       StageIsSound, InFlight
  <1>2. OverlapIsMet'
    BY UpdateAssumption, SMT DEF HoldFails, Go, IInv, TypeOK, Call, Tags, StagesAreSound,
       StageIsSound, InFlight, OverlapIsMet
  <1>3. HoldIsUntouched'
    BY UpdateAssumption, SMT DEF HoldFails, Go, IInv, TypeOK, Call, Tags, StagesAreSound,
       StageIsSound, InFlight, HoldTags, HoldIsUntouched, OwnHold, Hold, HoldTagFor,
       OverlapIsMet
  <1>4. RollbackImageIsHeld'
    BY UpdateAssumption, SMT DEF HoldFails, Go, IInv, TypeOK, Call, Tags, StagesAreSound,
       StageIsSound, InFlight, HoldTags, RollbackImageIsHeld, OwnHold, Hold,
       HoldTagFor, OverlapIsMet
  <1>5. RunningIsKnown'
    BY UpdateAssumption, SMT DEF HoldFails, Go, IInv, TypeOK, Call, Tags, StagesAreSound,
       StageIsSound, InFlight, HoldTags, RunningIsKnown, RefIsKnown, RollbackImageIsHeld,
       OwnHold, OwnRef, OverlapIsMet, RefMismatch, Hold, HoldTagFor
  <1>6. RefIsKnown'
    BY UpdateAssumption, SMT DEF HoldFails, Go, IInv, TypeOK, Call, Tags, StagesAreSound,
       StageIsSound, InFlight, HoldTags, RefIsKnown, RunningIsKnown, RollbackImageIsHeld,
       OwnHold, OwnRef, OverlapIsMet, RefMismatch, Hold, HoldTagFor
  <1>7. TypeOK'
    <2>1. call' \in [Updates -> Call]
      BY GoType DEF HoldFails, IInv, TypeOK, Stages
    <2> QED
      BY <2>1, UpdateAssumption, SMTT(20) DEF HoldFails, IInv, TypeOK, StagesAreSound,
         StageIsSound, InFlight, Tags, HoldTags, Hold, HoldTagFor
  <1> QED
    BY <1>1, <1>2, <1>3, <1>4, <1>5, <1>6, <1>7 DEF IInv

LEMMA RestoreRefStep ==
    ASSUME IInv, NEW u \in Updates, RestoreRef(u)
    PROVE  IInv'
  <1>1. StagesAreSound'
    BY UpdateAssumption, SMT DEF RestoreRef, Finish, NoCall, IInv, TypeOK, Call, Tags,
       StagesAreSound, StageIsSound, InFlight
  <1>2. OverlapIsMet'
    BY UpdateAssumption, SMT DEF RestoreRef, Finish, NoCall, IInv, TypeOK, Call, Tags,
       StagesAreSound, StageIsSound, InFlight, OverlapIsMet
  <1>3. HoldIsUntouched'
    BY UpdateAssumption, SMT DEF RestoreRef, Finish, NoCall, IInv, TypeOK, Call, Tags,
       StagesAreSound, StageIsSound, InFlight, HoldTags, HoldIsUntouched, OwnHold,
       Hold, HoldTagFor, OverlapIsMet
  <1>4. RollbackImageIsHeld'
    BY UpdateAssumption, SMT DEF RestoreRef, Finish, NoCall, IInv, TypeOK, Call, Tags,
       StagesAreSound, StageIsSound, InFlight, HoldTags, RollbackImageIsHeld, OwnHold,
       Hold, HoldTagFor, OverlapIsMet
  <1>5. RunningIsKnown'
    BY UpdateAssumption, SMT DEF RestoreRef, Finish, NoCall, IInv, TypeOK, Call, Tags,
       StagesAreSound, StageIsSound, InFlight, HoldTags, RunningIsKnown, RefIsKnown,
       RollbackImageIsHeld, OwnHold, OwnRef, OverlapIsMet, RefMismatch, Hold,
       HoldTagFor
  <1>6. RefIsKnown'
    BY UpdateAssumption, SMT DEF RestoreRef, Finish, NoCall, IInv, TypeOK, Call, Tags,
       StagesAreSound, StageIsSound, InFlight, HoldTags, RefIsKnown, RunningIsKnown,
       RollbackImageIsHeld, OwnHold, OwnRef, OverlapIsMet, RefMismatch, Hold,
       HoldTagFor
  <1>7. TypeOK'
    <2>1. call' \in [Updates -> Call]
      BY FinishType DEF RestoreRef, IInv, TypeOK, Stages
    <2> QED
      BY <2>1, UpdateAssumption, SMTT(20) DEF RestoreRef, IInv, TypeOK, StagesAreSound,
         StageIsSound, InFlight, Tags, HoldTags, Hold, HoldTagFor
  <1> QED
    BY <1>1, <1>2, <1>3, <1>4, <1>5, <1>6, <1>7 DEF IInv

LEMMA RecreateStep ==
    ASSUME IInv, NEW u \in Updates, Recreate(u)
    PROVE  IInv'
  <1>0. UpEffect(u)
    BY UpHasEffect DEF InFlight, Recreate
  <1>1. StagesAreSound'
    BY <1>0, UpdateAssumption, SMT DEF Recreate, UpEffect, Go, IInv, TypeOK, Call, Tags,
       StagesAreSound, StageIsSound, InFlight
  <1>2. OverlapIsMet'
    BY <1>0, UpdateAssumption, SMT DEF Recreate, UpEffect, Go, IInv, TypeOK, Call, Tags,
       StagesAreSound, StageIsSound, InFlight, OverlapIsMet
  <1>3. HoldIsUntouched'
    BY <1>0, UpdateAssumption, SMT DEF Recreate, UpEffect, Go, IInv, TypeOK, Call, Tags,
       StagesAreSound, StageIsSound, InFlight, HoldTags, HoldIsUntouched, OwnHold,
       Hold, HoldTagFor, OverlapIsMet
  <1>4. RollbackImageIsHeld'
    BY <1>0, UpdateAssumption, SMT DEF Recreate, UpEffect, Go, IInv, TypeOK, Call, Tags,
       StagesAreSound, StageIsSound, InFlight, HoldTags, RollbackImageIsHeld, OwnHold,
       Hold, HoldTagFor, OverlapIsMet
  <1>5. RunningIsKnown'
    <2> SUFFICES ASSUME NEW v \in Updates, InFlight(v)', OwnHold(v)'
                 PROVE  /\ call'[v].at # "config" => fileRef'[call'[v].svc] = call'[v].ref
                        /\ call'[v].at \in {"config", "pull", "resolve", "hold", "restore", "recreate"}
                               => container'[call'[v].svc].image = call'[v].old
                        /\ OwnRef(v)' =>
                              /\ call'[v].at = "gate"
                                     => container'[call'[v].svc].image = tags'[call'[v].ref]
                              /\ call'[v].at = "regate" => container'[call'[v].svc].image = call'[v].old
      BY DEF RunningIsKnown
    <2>0. fileRef' = fileRef /\ call' = [call EXCEPT ![u].at = "gate"]
          /\ container' = UpContainer(call[u].svc, tags')
      BY DEF Recreate, Go
    <2>1. CASE v = u
      <3>1. /\ call'[u].at = "gate" /\ call'[u].svc = call[u].svc /\ call'[u].ref = call[u].ref
            /\ OwnHold(u) /\ call[u].at = "recreate" /\ InFlight(u) /\ call[u].svc \in Services
        BY <1>0, <2>0, <2>1 DEF IInv, TypeOK, Call, UpEffect, OwnHold, Recreate, InFlight, StagesAreSound,
           StageIsSound
      <3>2. fileRef[call[u].svc] = call[u].ref
        BY <3>1 DEF IInv, RunningIsKnown
      <3>3. container'[call[u].svc].image = tags'[fileRef[call[u].svc]]
        BY <2>0, <3>1 DEF UpContainer, IInv, TypeOK
      <3> QED
        BY <2>0, <2>1, <3>1, <3>2, <3>3
    <2>2. CASE v # u
      <3>1. call'[v] = call[v] /\ InFlight(v) /\ InFlight(u)
        BY <2>0, <2>2 DEF InFlight, IInv, TypeOK, Recreate
      <3>2. call[v].at # "config" => call[v].ref \in Refs
        BY <3>1 DEF IInv, StagesAreSound, StageIsSound, InFlight
      <3> QED
        BY <1>0, <2>0, <2>2, <3>1, <3>2, UpSparesOthers DEF IInv, RunningIsKnown
    <2> QED
      BY <2>1, <2>2
  <1>6. RefIsKnown'
    BY <1>0, UpdateAssumption, SMT DEF Recreate, UpEffect, Go, IInv, TypeOK, Call, Tags,
       StagesAreSound, StageIsSound, InFlight, HoldTags, RefIsKnown, RunningIsKnown,
       RollbackImageIsHeld, OwnHold, OwnRef, OverlapIsMet, RefMismatch, Hold,
       HoldTagFor
  <1>7. TypeOK'
    <2>1. call' \in [Updates -> Call]
      BY GoType DEF Recreate, IInv, TypeOK, Stages
    <2> QED
      BY <1>0, <2>1, UpdateAssumption, SMTT(20) DEF Recreate, UpEffect, IInv, TypeOK, StagesAreSound,
         StageIsSound, InFlight, Tags, HoldTags, Hold, HoldTagFor
  <1> QED
    BY <1>1, <1>2, <1>3, <1>4, <1>5, <1>6, <1>7 DEF IInv

LEMMA RetagStep ==
    ASSUME IInv, NEW u \in Updates, Retag(u)
    PROVE  IInv'
  <1>1. StagesAreSound'
    BY UpdateAssumption, SMT DEF Retag, Go, IInv, TypeOK, Call, Tags, StagesAreSound,
       StageIsSound, InFlight
  <1>2. OverlapIsMet'
    BY UpdateAssumption, SMT DEF Retag, Go, IInv, TypeOK, Call, Tags, StagesAreSound,
       StageIsSound, InFlight, OverlapIsMet
  <1>3. HoldIsUntouched'
    BY UpdateAssumption, SMT DEF Retag, Go, IInv, TypeOK, Call, Tags, StagesAreSound,
       StageIsSound, InFlight, HoldTags, HoldIsUntouched, OwnHold, Hold, HoldTagFor,
       OverlapIsMet
  <1>4. RollbackImageIsHeld'
    BY UpdateAssumption, SMT DEF Retag, Go, IInv, TypeOK, Call, Tags, StagesAreSound,
       StageIsSound, InFlight, HoldTags, RollbackImageIsHeld, OwnHold, Hold,
       HoldTagFor, OverlapIsMet
  <1>5. RunningIsKnown'
    BY UpdateAssumption, SMT DEF Retag, Go, IInv, TypeOK, Call, Tags, StagesAreSound,
       StageIsSound, InFlight, HoldTags, RunningIsKnown, RefIsKnown, RollbackImageIsHeld,
       OwnHold, OwnRef, OverlapIsMet, RefMismatch, Hold, HoldTagFor
  <1>6. RefIsKnown'
    BY UpdateAssumption, SMT DEF Retag, Go, IInv, TypeOK, Call, Tags, StagesAreSound,
       StageIsSound, InFlight, HoldTags, RefIsKnown, RunningIsKnown, RollbackImageIsHeld,
       OwnHold, OwnRef, OverlapIsMet, RefMismatch, Hold, HoldTagFor
  <1>7. TypeOK'
    <2>1. call' \in [Updates -> Call]
      BY GoType DEF Retag, IInv, TypeOK, Stages
    <2> QED
      BY <2>1, UpdateAssumption, SMTT(20) DEF Retag, IInv, TypeOK, StagesAreSound,
         StageIsSound, InFlight, Tags, HoldTags, Hold, HoldTagFor
  <1> QED
    BY <1>1, <1>2, <1>3, <1>4, <1>5, <1>6, <1>7 DEF IInv

LEMMA RedoStep ==
    ASSUME IInv, NEW u \in Updates, Redo(u)
    PROVE  IInv'
  <1>1. StagesAreSound'
    BY UpdateAssumption, SMT DEF Redo, UpContainer, Go, IInv, TypeOK, Call, Tags,
       StagesAreSound, StageIsSound, InFlight
  <1>2. OverlapIsMet'
    BY UpdateAssumption, SMT DEF Redo, UpContainer, Go, IInv, TypeOK, Call, Tags,
       StagesAreSound, StageIsSound, InFlight, OverlapIsMet
  <1>3. HoldIsUntouched'
    BY UpdateAssumption, SMT DEF Redo, UpContainer, Go, IInv, TypeOK, Call, Tags,
       StagesAreSound, StageIsSound, InFlight, HoldTags, HoldIsUntouched, OwnHold,
       Hold, HoldTagFor, OverlapIsMet
  <1>4. RollbackImageIsHeld'
    BY UpdateAssumption, SMT DEF Redo, UpContainer, Go, IInv, TypeOK, Call, Tags,
       StagesAreSound, StageIsSound, InFlight, HoldTags, RollbackImageIsHeld, OwnHold,
       Hold, HoldTagFor, OverlapIsMet
  <1>5. RunningIsKnown'
    BY UpdateAssumption, SMT DEF Redo, UpContainer, Go, IInv, TypeOK, Call, Tags,
       StagesAreSound, StageIsSound, InFlight, HoldTags, RunningIsKnown, RefIsKnown,
       RollbackImageIsHeld, OwnHold, OwnRef, OverlapIsMet, RefMismatch, Hold,
       HoldTagFor
  <1>6. RefIsKnown'
    BY UpdateAssumption, SMT DEF Redo, UpContainer, Go, IInv, TypeOK, Call, Tags,
       StagesAreSound, StageIsSound, InFlight, HoldTags, RefIsKnown, RunningIsKnown,
       RollbackImageIsHeld, OwnHold, OwnRef, OverlapIsMet, RefMismatch, Hold,
       HoldTagFor
  <1>7. TypeOK'
    <2>1. call' \in [Updates -> Call]
      BY GoType DEF Redo, IInv, TypeOK, Stages
    <2> QED
      BY <2>1, UpdateAssumption, SMTT(20) DEF Redo, UpContainer, IInv, TypeOK, StagesAreSound,
         StageIsSound, InFlight, Tags, HoldTags, Hold, HoldTagFor
  <1> QED
    BY <1>1, <1>2, <1>3, <1>4, <1>5, <1>6, <1>7 DEF IInv

\* A command that moves a tag throws after it did.
TagThrow(u) ==
    /\ InFlight(u)
    /\ faults' \in 0 .. MaxFaults
    /\ Finish(u, "thrown", FALSE)
    /\ UNCHANGED <<container, met, registry, fileRef, calls>>
    /\ \/ call[u].at = "pull" /\ tags' = Pulled(call[u].ref)
       \/ call[u].at = "hold" /\ tags' = [tags EXCEPT ![Hold(u)] = call[u].old]
       \/ call[u].at = "restore" /\ tags' = [tags EXCEPT ![call[u].ref] = call[u].old]
       \/ call[u].at = "retag" /\ tags[Hold(u)] # None
                                /\ tags' = [tags EXCEPT ![call[u].ref] = tags[Hold(u)]]

LEMMA TagThrowStep ==
    ASSUME IInv, NEW u \in Updates, TagThrow(u)
    PROVE  IInv'
  <1>1. StagesAreSound'
    BY UpdateAssumption, SMT DEF TagThrow, Pulled, Finish, NoCall, IInv,
       TypeOK, Call, Tags, StagesAreSound, StageIsSound, InFlight
  <1>2. OverlapIsMet'
    BY UpdateAssumption, SMT DEF TagThrow, Pulled, Finish, NoCall, IInv,
       TypeOK, Call, Tags, StagesAreSound, StageIsSound, InFlight, OverlapIsMet
  <1>3. HoldIsUntouched'
    BY UpdateAssumption, SMT DEF TagThrow, Pulled, Finish, NoCall, IInv,
       TypeOK, Call, Tags, StagesAreSound, StageIsSound, InFlight, HoldTags,
       HoldIsUntouched, OwnHold, Hold, HoldTagFor, OverlapIsMet
  <1>4. RollbackImageIsHeld'
    BY UpdateAssumption, SMT DEF TagThrow, Pulled, Finish, NoCall, IInv,
       TypeOK, Call, Tags, StagesAreSound, StageIsSound, InFlight, HoldTags,
       RollbackImageIsHeld, OwnHold, Hold, HoldTagFor, OverlapIsMet
  <1>5. RunningIsKnown'
    BY UpdateAssumption, SMT DEF TagThrow, Pulled, Finish, NoCall, IInv,
       TypeOK, Call, Tags, StagesAreSound, StageIsSound, InFlight, HoldTags,
       RunningIsKnown, RefIsKnown, RollbackImageIsHeld, OwnHold, OwnRef, OverlapIsMet,
       RefMismatch, Hold, HoldTagFor
  <1>6. RefIsKnown'
    BY UpdateAssumption, SMT DEF TagThrow, Pulled, Finish, NoCall, IInv,
       TypeOK, Call, Tags, StagesAreSound, StageIsSound, InFlight, HoldTags, RefIsKnown,
       RunningIsKnown, RollbackImageIsHeld, OwnHold, OwnRef, OverlapIsMet,
       RefMismatch, Hold, HoldTagFor
  <1>7. TypeOK'
    <2>1. call' \in [Updates -> Call]
      BY FinishType DEF TagThrow, IInv, TypeOK, Stages
    <2> QED
      BY <2>1, UpdateAssumption, SMTT(20) DEF TagThrow, Pulled, IInv, TypeOK, StagesAreSound,
         StageIsSound, InFlight, Tags, HoldTags, Hold, HoldTagFor
  <1> QED
    BY <1>1, <1>2, <1>3, <1>4, <1>5, <1>6, <1>7 DEF IInv

LEMMA ThrowsStep ==
    ASSUME IInv, NEW u \in Updates, Throws(u)
    PROVE  IInv'
  <1>1. /\ InFlight(u) /\ Finish(u, "thrown", FALSE) /\ UNCHANGED <<registry, fileRef, calls>>
        /\ faults' \in 0 .. MaxFaults
    <2>1. faults \in 0 .. MaxFaults /\ faults < MaxFaults /\ faults' = faults + 1
      BY DEF Throws, IInv, TypeOK
    <2>2. faults' \in 0 .. MaxFaults
      BY <2>1, UpdateAssumption
    <2> QED
      BY <2>2 DEF Throws
  <1>2. CASE \/ UNCHANGED <<tags, container, met>>
             \/ call[u].at = "recreate" /\ UpPartly(u)
             \/ /\ call[u].at = "redo"
                /\ container' = UpContainer(call[u].svc, tags)
                /\ UNCHANGED <<tags, met>>
    <2>1. container' \in {container, UpContainer(call[u].svc, tags')}
          /\ (UpPull(u) \/ UNCHANGED <<tags, met>>)
      BY <1>2 DEF UpPartly
    <2> QED
      BY <1>1, <2>1, EndKeeps
  <1>3. CASE TagThrow(u)
    BY <1>3, TagThrowStep
  <1> QED
    BY <1>1, <1>2, <1>3 DEF Throws, TagThrow

LEMMA ResolveStep ==
    ASSUME IInv, NEW u \in Updates, Resolve(u)
    PROVE  IInv'
  <1>0. faults \in 0 .. MaxFaults
    BY DEF IInv, TypeOK
  <1> DEFINE new == tags[call[u].ref]
  <1>1. CASE new = call[u].old /\ ~RefMismatch(u)
    BY <1>1, <1>0, EndKeeps DEF Resolve, InFlight, Outcomes
  <1>2. CASE ~(new = call[u].old /\ ~RefMismatch(u))
    <2>1. call' = [call EXCEPT ![u].at = "hold", ![u].new = new]
      BY <1>2 DEF Resolve
    <2>2. call[u].at = "resolve" /\ UNCHANGED <<registry, fileRef, container, tags, met, calls, faults>>
      BY DEF Resolve
    <2>3. call[u] \in Call /\ call[u].ref \in Refs /\ new \in Images
      BY <2>2 DEF IInv, TypeOK, StagesAreSound, StageIsSound, InFlight, Tags
    <2>11. new = tags[call[u].ref]
      OBVIOUS
    <2> HIDE DEF new
    <2>4. StagesAreSound'
      BY UpdateAssumption, <2>1, <2>2, <2>3, <2>11, SMT DEF IInv, TypeOK, Call, Tags,
         StagesAreSound, StageIsSound, InFlight
    <2>5. OverlapIsMet'
      BY UpdateAssumption, <2>1, <2>2, <2>3, <2>11, SMT DEF IInv, TypeOK, Call, Tags,
         StagesAreSound, StageIsSound, InFlight, OverlapIsMet
    <2>6. HoldIsUntouched'
      BY UpdateAssumption, <2>1, <2>2, <2>3, <2>11, SMT DEF IInv, TypeOK, Call, Tags,
         StagesAreSound, StageIsSound, InFlight, HoldTags, HoldIsUntouched, OwnHold,
         Hold, HoldTagFor, OverlapIsMet
    <2>7. RollbackImageIsHeld'
      BY UpdateAssumption, <2>1, <2>2, <2>3, <2>11, SMT DEF IInv, TypeOK, Call, Tags,
         StagesAreSound, StageIsSound, InFlight, HoldTags, RollbackImageIsHeld,
         OwnHold, Hold, HoldTagFor, OverlapIsMet
    <2>8. RunningIsKnown'
      BY UpdateAssumption, <2>1, <2>2, <2>3, <2>11, SMT DEF IInv, TypeOK, Call, Tags,
         StagesAreSound, StageIsSound, InFlight, HoldTags, RunningIsKnown, RefIsKnown,
         RollbackImageIsHeld, OwnHold, OwnRef, OverlapIsMet, RefMismatch, Hold,
         HoldTagFor
    <2>9. RefIsKnown'
      BY UpdateAssumption, <2>1, <2>2, <2>3, <2>11, SMT DEF IInv, TypeOK, Call, Tags,
         StagesAreSound, StageIsSound, InFlight, HoldTags, RefIsKnown, RunningIsKnown,
         RollbackImageIsHeld, OwnHold, OwnRef, OverlapIsMet, RefMismatch, Hold,
         HoldTagFor
    <2>10. TypeOK'
      <3>1. [call[u] EXCEPT !.at = "hold", !.new = new] \in Call
        BY <2>3, StageType DEF Stages
      <3>2. call' \in [Updates -> Call]
        BY <2>1, <3>1 DEF IInv, TypeOK
      <3> QED
        BY <2>2, <3>2 DEF IInv, TypeOK
    <2> QED
      BY <2>4, <2>5, <2>6, <2>7, <2>8, <2>9, <2>10 DEF IInv
  <1> QED
    BY <1>1, <1>2

LEMMA FailedGateStep ==
    ASSUME IInv, NEW u \in Updates, RecreateFails(u) \/ GateFails(u)
    PROVE  IInv'
  <1>0. faults \in 0 .. MaxFaults
    BY DEF IInv, TypeOK
  <1>1. /\ call[u].at \in {"recreate", "gate"} /\ InFlight(u)
        /\ container' \in {container, UpContainer(call[u].svc, tags')}
        /\ UpPull(u) \/ UNCHANGED <<tags, met>>
        /\ UNCHANGED <<registry, fileRef, calls, faults>>
    BY DEF RecreateFails, GateFails, UpPartly, InFlight
  <1>2. PICK m \in BOOLEAN : AfterFailure(u, m)
    BY DEF RecreateFails, GateFails
  <1>3. CASE RefMismatch(u)
    BY <1>1, <1>2, <1>3, <1>0, EndKeeps DEF AfterFailure, Outcomes
  <1>4. CASE ~RefMismatch(u)
    BY <1>1, <1>2, <1>4, RollbackBegins DEF AfterFailure
  <1> QED
    BY <1>3, <1>4

\* The actions that only end the call.
LEMMA EndStep ==
    ASSUME IInv, NEW u \in Updates,
           \/ Refuse(u) \/ PullFails(u) \/ RestoreRefFails(u) \/ GatePasses(u) \/ RetagFails(u)
           \/ RedoFails(u) \/ RegatePasses(u) \/ RegateFails(u)
    PROVE  IInv'
  <1>0. faults \in 0 .. MaxFaults
    BY DEF IInv, TypeOK
  <1>1. CASE Refuse(u)
    BY <1>1, <1>0, EndKeeps DEF Refuse, InFlight
  <1>2. CASE PullFails(u)
    BY <1>2, <1>0, EndKeeps DEF PullFails, InFlight, Outcomes
  <1>3. CASE RestoreRefFails(u)
    BY <1>3, <1>0, EndKeeps DEF RestoreRefFails, InFlight
  <1>4. CASE GatePasses(u)
    BY <1>4, <1>0, EndKeeps DEF GatePasses, InFlight, Outcomes
  <1>5. CASE RetagFails(u)
    BY <1>5, <1>0, EndKeeps DEF RetagFails, InFlight, Outcomes
  <1>6. CASE RedoFails(u)
    BY <1>6, <1>0, EndKeeps DEF RedoFails, InFlight, Outcomes
  <1>7. CASE RegatePasses(u)
    BY <1>7, <1>0, EndKeeps DEF RegatePasses, InFlight, Outcomes
  <1>8. CASE RegateFails(u)
    BY <1>8, <1>0, EndKeeps DEF RegateFails, InFlight, Outcomes
  <1> QED
    BY <1>1, <1>2, <1>3, <1>4, <1>5, <1>6, <1>7, <1>8

----------------------------------------------------------------------------
(* The world *)

LEMMA PublishStep ==
    ASSUME IInv, NEW r \in Refs, NEW i \in Images, Publish(r, i)
    PROVE  IInv'
  <1>1. StagesAreSound'
    BY UpdateAssumption, SMT DEF Publish, IInv, TypeOK, Call, Tags, StagesAreSound,
       StageIsSound, InFlight
  <1>2. OverlapIsMet'
    BY UpdateAssumption, SMT DEF Publish, IInv, TypeOK, Call, Tags, StagesAreSound,
       StageIsSound, InFlight, OverlapIsMet
  <1>3. HoldIsUntouched'
    BY UpdateAssumption, SMT DEF Publish, IInv, TypeOK, Call, Tags, StagesAreSound,
       StageIsSound, InFlight, HoldTags, HoldIsUntouched, OwnHold, Hold, HoldTagFor,
       OverlapIsMet
  <1>4. RollbackImageIsHeld'
    BY UpdateAssumption, SMT DEF Publish, IInv, TypeOK, Call, Tags, StagesAreSound,
       StageIsSound, InFlight, HoldTags, RollbackImageIsHeld, OwnHold, Hold,
       HoldTagFor, OverlapIsMet
  <1>5. RunningIsKnown'
    BY UpdateAssumption, SMT DEF Publish, IInv, TypeOK, Call, Tags, StagesAreSound,
       StageIsSound, InFlight, HoldTags, RunningIsKnown, RefIsKnown, RollbackImageIsHeld,
       OwnHold, OwnRef, OverlapIsMet, RefMismatch, Hold, HoldTagFor
  <1>6. RefIsKnown'
    BY UpdateAssumption, SMT DEF Publish, IInv, TypeOK, Call, Tags, StagesAreSound,
       StageIsSound, InFlight, HoldTags, RefIsKnown, RunningIsKnown, RollbackImageIsHeld,
       OwnHold, OwnRef, OverlapIsMet, RefMismatch, Hold, HoldTagFor
  <1>7. TypeOK'
    BY UpdateAssumption, SMTT(20) DEF Publish, IInv, TypeOK, Tags, HoldTags
  <1> QED
    BY <1>1, <1>2, <1>3, <1>4, <1>5, <1>6, <1>7 DEF IInv

LEMMA EditFileStep ==
    ASSUME IInv, NEW s \in Services, NEW r \in Refs, EditFile(s, r)
    PROVE  IInv'
  <1>1. StagesAreSound'
    BY UpdateAssumption, SMT DEF EditFile, IInv, TypeOK, Call, Tags, StagesAreSound,
       StageIsSound, InFlight
  <1>2. OverlapIsMet'
    BY UpdateAssumption, SMT DEF EditFile, IInv, TypeOK, Call, Tags, StagesAreSound,
       StageIsSound, InFlight, OverlapIsMet
  <1>3. HoldIsUntouched'
    BY UpdateAssumption, SMT DEF EditFile, IInv, TypeOK, Call, Tags, StagesAreSound,
       StageIsSound, InFlight, HoldTags, HoldIsUntouched, OwnHold, Hold, HoldTagFor,
       OverlapIsMet
  <1>4. RollbackImageIsHeld'
    BY UpdateAssumption, SMT DEF EditFile, IInv, TypeOK, Call, Tags, StagesAreSound,
       StageIsSound, InFlight, HoldTags, RollbackImageIsHeld, OwnHold, Hold,
       HoldTagFor, OverlapIsMet
  <1>5. RunningIsKnown'
    BY UpdateAssumption, SMT DEF EditFile, IInv, TypeOK, Call, Tags, StagesAreSound,
       StageIsSound, InFlight, HoldTags, RunningIsKnown, RefIsKnown, RollbackImageIsHeld,
       OwnHold, OwnRef, OverlapIsMet, RefMismatch, Hold, HoldTagFor
  <1>6. RefIsKnown'
    BY UpdateAssumption, SMT DEF EditFile, IInv, TypeOK, Call, Tags, StagesAreSound,
       StageIsSound, InFlight, HoldTags, RefIsKnown, RunningIsKnown, RollbackImageIsHeld,
       OwnHold, OwnRef, OverlapIsMet, RefMismatch, Hold, HoldTagFor
  <1>7. TypeOK'
    <2>1. NameOf[s] \in Names
      BY UpdateAssumption
    <2>2. met' \in [Updates -> SUBSET (Names \cup Refs)]
      BY <2>1 DEF EditFile, IInv, TypeOK
    <2> QED
      BY <2>2, UpdateAssumption, SMTT(20) DEF EditFile, IInv, TypeOK, Tags, HoldTags
  <1> QED
    BY <1>1, <1>2, <1>3, <1>4, <1>5, <1>6, <1>7 DEF IInv

LEMMA DropHoldStep ==
    ASSUME IInv, NEW t \in HoldTags, DropHold(t)
    PROVE  IInv'
  <1>1. StagesAreSound'
    BY UpdateAssumption, SMT DEF DropHold, IInv, TypeOK, Call, Tags, StagesAreSound,
       StageIsSound, InFlight
  <1>2. OverlapIsMet'
    BY UpdateAssumption, SMT DEF DropHold, IInv, TypeOK, Call, Tags, StagesAreSound,
       StageIsSound, InFlight, OverlapIsMet
  <1>3. HoldIsUntouched'
    BY UpdateAssumption, SMT DEF DropHold, IInv, TypeOK, Call, Tags, StagesAreSound,
       StageIsSound, InFlight, HoldTags, HoldIsUntouched, OwnHold, Hold, HoldTagFor,
       OverlapIsMet
  <1>4. RollbackImageIsHeld'
    BY UpdateAssumption, SMT DEF DropHold, IInv, TypeOK, Call, Tags, StagesAreSound,
       StageIsSound, InFlight, HoldTags, RollbackImageIsHeld, OwnHold, Hold,
       HoldTagFor, OverlapIsMet
  <1>5. RunningIsKnown'
    BY UpdateAssumption, SMT DEF DropHold, IInv, TypeOK, Call, Tags, StagesAreSound,
       StageIsSound, InFlight, HoldTags, RunningIsKnown, RefIsKnown, RollbackImageIsHeld,
       OwnHold, OwnRef, OverlapIsMet, RefMismatch, Hold, HoldTagFor
  <1>6. RefIsKnown'
    BY UpdateAssumption, SMT DEF DropHold, IInv, TypeOK, Call, Tags, StagesAreSound,
       StageIsSound, InFlight, HoldTags, RefIsKnown, RunningIsKnown, RollbackImageIsHeld,
       OwnHold, OwnRef, OverlapIsMet, RefMismatch, Hold, HoldTagFor
  <1>7. TypeOK'
    BY UpdateAssumption, SMTT(20) DEF DropHold, IInv, TypeOK, Tags, HoldTags
  <1> QED
    BY <1>1, <1>2, <1>3, <1>4, <1>5, <1>6, <1>7 DEF IInv

LEMMA RedeployStep ==
    ASSUME IInv, NEW S \in SUBSET Services, Redeploy(S)
    PROVE  IInv'
  <1>1. StagesAreSound'
    BY UpdateAssumption, SMT DEF Redeploy, UpContainer, IInv, TypeOK, Call, Tags,
       StagesAreSound, StageIsSound, InFlight
  <1>2. OverlapIsMet'
    BY UpdateAssumption, SMT DEF Redeploy, UpContainer, IInv, TypeOK, Call, Tags,
       StagesAreSound, StageIsSound, InFlight, OverlapIsMet
  <1>3. HoldIsUntouched'
    BY UpdateAssumption, SMT DEF Redeploy, UpContainer, IInv, TypeOK, Call, Tags,
       StagesAreSound, StageIsSound, InFlight, HoldTags, HoldIsUntouched, OwnHold,
       Hold, HoldTagFor, OverlapIsMet
  <1>4. RollbackImageIsHeld'
    BY UpdateAssumption, SMT DEF Redeploy, UpContainer, IInv, TypeOK, Call, Tags,
       StagesAreSound, StageIsSound, InFlight, HoldTags, RollbackImageIsHeld, OwnHold,
       Hold, HoldTagFor, OverlapIsMet
  <1>5. RunningIsKnown'
    BY UpdateAssumption, SMT DEF Redeploy, UpContainer, IInv, TypeOK, Call, Tags,
       StagesAreSound, StageIsSound, InFlight, HoldTags, RunningIsKnown, RefIsKnown,
       RollbackImageIsHeld, OwnHold, OwnRef, OverlapIsMet, RefMismatch, Hold,
       HoldTagFor
  <1>6. RefIsKnown'
    BY UpdateAssumption, SMT DEF Redeploy, UpContainer, IInv, TypeOK, Call, Tags,
       StagesAreSound, StageIsSound, InFlight, HoldTags, RefIsKnown, RunningIsKnown,
       RollbackImageIsHeld, OwnHold, OwnRef, OverlapIsMet, RefMismatch, Hold,
       HoldTagFor
  <1>7. TypeOK'
    BY UpdateAssumption, SMTT(20) DEF Redeploy, UpContainer, IInv, TypeOK, Tags, HoldTags
  <1> QED
    BY <1>1, <1>2, <1>3, <1>4, <1>5, <1>6, <1>7 DEF IInv

----------------------------------------------------------------------------
(* The theorems *)

LEMMA InitIInv == Init => IInv
  <1> SUFFICES ASSUME Init PROVE IInv
    OBVIOUS
  <1>1. NoCall \in Call
    BY SMT DEF NoCall, Call, Stages
  <1>2. TypeOK
    BY <1>1, UpdateAssumption, SMTT(20) DEF Init, TypeOK, Tags
  <1>3. \A u \in Updates : call[u].at = "idle"
    BY DEF Init, NoCall
  <1>4. StagesAreSound /\ OverlapIsMet /\ HoldIsUntouched /\ RollbackImageIsHeld
        /\ RunningIsKnown /\ RefIsKnown
    BY <1>3 DEF StagesAreSound, StageIsSound, OverlapIsMet, HoldIsUntouched, RollbackImageIsHeld,
       RunningIsKnown, RefIsKnown, InFlight
  <1> QED
    BY <1>2, <1>4 DEF IInv

LEMMA StutterIInv == IInv /\ UNCHANGED vars => IInv'
  BY DEF IInv, vars, TypeOK, StagesAreSound, StageIsSound, OverlapIsMet, HoldIsUntouched,
     RollbackImageIsHeld, RunningIsKnown, RefIsKnown, InFlight, OwnHold, OwnRef, Hold

LEMMA NextIInv == IInv /\ [Next]_vars => IInv'
  <1> SUFFICES ASSUME IInv, [Next]_vars PROVE IInv'
    OBVIOUS
  <1>1. CASE UNCHANGED vars
    BY <1>1, StutterIInv
  <1>2. ASSUME NEW u \in Updates, NEW s \in Services, Begin(u, s) PROVE IInv'
    BY <1>2, BeginStep
  <1>3. ASSUME NEW u \in Updates,
               \/ Config(u) \/ Pull(u) \/ Resolve(u) \/ HoldOld(u) \/ HoldFails(u) \/ RestoreRef(u)
               \/ Recreate(u) \/ RecreateFails(u) \/ GateFails(u) \/ Retag(u) \/ Redo(u) \/ Throws(u)
        PROVE  IInv'
    BY <1>3, ConfigStep, PullStep, ResolveStep, HoldOldStep, HoldFailsStep, RestoreRefStep, RecreateStep,
       FailedGateStep, RetagStep, RedoStep, ThrowsStep
  <1>4. ASSUME NEW u \in Updates,
               \/ Refuse(u) \/ PullFails(u) \/ RestoreRefFails(u) \/ GatePasses(u) \/ RetagFails(u)
               \/ RedoFails(u) \/ RegatePasses(u) \/ RegateFails(u)
        PROVE  IInv'
    BY <1>4, EndStep
  <1>5. ASSUME NEW r \in Refs, NEW i \in Images, Publish(r, i) PROVE IInv'
    BY <1>5, PublishStep
  <1>6. ASSUME NEW s \in Services, NEW r \in Refs, EditFile(s, r) PROVE IInv'
    BY <1>6, EditFileStep
  <1>7. ASSUME NEW t \in HoldTags, DropHold(t) PROVE IInv'
    BY <1>7, DropHoldStep
  <1>8. ASSUME NEW S \in SUBSET Services, Redeploy(S) PROVE IInv'
    BY <1>8, RedeployStep
  <1> QED
    BY <1>1, <1>2, <1>3, <1>4, <1>5, <1>6, <1>7, <1>8 DEF Next

LEMMA Inductive == Spec => []IInv
  BY InitIInv, NextIInv, PTL DEF Spec

\* Every update, container and tag stays well-formed; a ref is never left without image.
THEOREM TypeCorrect == Spec => []TypeOK
  <1>1. IInv => TypeOK
    BY DEF IInv
  <1> QED
    BY <1>1, Inductive, PTL

\* The rollback image stays under the hold tag for as long as the handler may
\* need it, whatever the updates of services of other names do.
THEOREM RollbackImageHeld == Spec => []RollbackImageIsHeld
  <1>1. IInv => RollbackImageIsHeld
    BY DEF IInv
  <1> QED
    BY <1>1, Inductive, PTL

\* Only the steps of the call itself end it.
LEMMA WhoEnds ==
    ASSUME IInv, Next, NEW u \in Updates, Ends(u)
    PROVE  \/ Refuse(u) \/ PullFails(u) \/ Resolve(u) \/ RestoreRef(u) \/ RestoreRefFails(u)
           \/ RecreateFails(u) \/ GatePasses(u) \/ GateFails(u) \/ RetagFails(u) \/ RedoFails(u)
           \/ RegatePasses(u) \/ RegateFails(u) \/ Throws(u)
  <1>1. call \in [Updates -> Call] /\ InFlight(u) /\ ~InFlight(u)'
    BY DEF IInv, TypeOK, Ends
  <1>2. ASSUME NEW v \in Updates, NEW s \in Services, Begin(v, s) PROVE FALSE
    BY <1>1, <1>2 DEF Begin, Scanned, InFlight
  <1>3. ASSUME NEW v \in Updates, v # u,
               \/ Config(v) \/ Refuse(v) \/ Pull(v) \/ PullFails(v) \/ Resolve(v) \/ HoldOld(v)
               \/ HoldFails(v) \/ RestoreRef(v) \/ RestoreRefFails(v) \/ Recreate(v) \/ GatePasses(v)
               \/ Retag(v) \/ RetagFails(v) \/ Redo(v) \/ RedoFails(v) \/ RegatePasses(v)
               \/ RegateFails(v) \/ Throws(v)
        PROVE  FALSE
    BY <1>1, <1>3 DEF Config, Refuse, Pull, PullFails, Resolve, HoldOld, HoldFails, RestoreRef,
       RestoreRefFails, Recreate, GatePasses, Retag, RetagFails, Redo, RedoFails, RegatePasses,
       RegateFails, Throws, Go, Finish, InFlight
  <1>4. ASSUME NEW v \in Updates, v # u, RecreateFails(v) \/ GateFails(v)
        PROVE  FALSE
    BY <1>1, <1>4 DEF RecreateFails, GateFails, AfterFailure, Finish, InFlight
  <1>5. ~(Config(u) \/ Pull(u) \/ HoldOld(u) \/ HoldFails(u) \/ Recreate(u) \/ Retag(u) \/ Redo(u))
    BY <1>1 DEF Config, Pull, HoldOld, HoldFails, Recreate, Retag, Redo, Go, InFlight, Call
  <1>6. ~(\/ \E r \in Refs, i \in Images : Publish(r, i)
          \/ \E s \in Services, r \in Refs : EditFile(s, r)
          \/ \E t \in HoldTags : DropHold(t)
          \/ \E S \in SUBSET Services : Redeploy(S))
    BY <1>1 DEF Publish, EditFile, DropHold, Redeploy, InFlight
  <1> QED
    BY <1>2, <1>3, <1>4, <1>5, <1>6 DEF Next

\* A failed gate ends the call only if the ref in the file has changed.
LEMMA MismatchEnds ==
    ASSUME NEW u \in Updates, call \in [Updates -> Call], RecreateFails(u) \/ GateFails(u), ~InFlight(u)'
    PROVE  call'[u].outcome = "failed-needs-file-revert"
  <1>1. PICK m \in BOOLEAN : AfterFailure(u, m)
    BY DEF RecreateFails, GateFails
  <1>2. CASE RefMismatch(u)
    BY <1>1, <1>2 DEF AfterFailure, Finish, NoCall
  <1>3. CASE ~RefMismatch(u)
    <2>1. call' = [call EXCEPT ![u].at = "retag", ![u].missed = m]
      BY <1>1, <1>3 DEF AfterFailure
    <2>2. call'[u].at = "retag"
      BY <2>1 DEF Call
    <2> QED
      BY <2>2 DEF InFlight
  <1> QED
    BY <1>2, <1>3

\* What OutcomeIsTrue says of one call.
LEMMA EndIsTrue ==
    ASSUME IInv, Next, NEW u \in Updates, Ends(u), OwnHold(u), OwnRef(u)
    PROVE  Truthful(u, call'[u].outcome, container'[call[u].svc].image,
                    tags'[IF call[u].ref = None THEN call[u].created ELSE call[u].ref])
  <1> DEFINE o == call'[u].outcome
             running == container'[call[u].svc].image
             ref == tags'[IF call[u].ref = None THEN call[u].created ELSE call[u].ref]
  <1>1. /\ call \in [Updates -> Call] /\ tags \in [Tags -> Images \cup {None}]
        /\ StageIsSound(u) /\ InFlight(u) /\ ~InFlight(u)' /\ None \notin Refs
    BY UpdateAssumption DEF IInv, TypeOK, StagesAreSound, Ends
  <1>2. /\ call[u].at \in {"config", "pull", "resolve", "hold", "restore", "recreate"}
              => container[call[u].svc].image = call[u].old
        /\ call[u].at = "gate" => container[call[u].svc].image = tags[call[u].ref]
        /\ call[u].at = "regate" => container[call[u].svc].image = call[u].old
    BY <1>1 DEF IInv, RunningIsKnown
  <1>3. /\ call[u].at = "gate" /\ call[u].svc \notin UpPulls => tags[call[u].ref] = call[u].new
        /\ call[u].at = "regate" => tags[call[u].ref] = call[u].old
    BY <1>1 DEF IInv, RefIsKnown
  <1>4. CASE Refuse(u) \/ PullFails(u)
    <2>1. o \in {"refused", "pull-failed"} /\ running = call[u].old
      BY <1>1, <1>2, <1>4 DEF Refuse, PullFails, Finish, NoCall
    <2> QED
      BY <2>1 DEF Truthful
  <1>5. CASE Resolve(u)
    <2>1. CASE tags[call[u].ref] = call[u].old /\ ~RefMismatch(u)
      <3>1. o = "already-current" /\ running = call[u].old /\ ref = call[u].old
        BY <1>1, <1>2, <1>5, <2>1 DEF Resolve, Finish, NoCall, StageIsSound
      <3> QED
        BY <3>1 DEF Truthful
    <2>2. CASE ~(tags[call[u].ref] = call[u].old /\ ~RefMismatch(u))
      BY <1>1, <1>5, <2>2 DEF Resolve, InFlight, Call
    <2> QED
      BY <2>1, <2>2
  <1>6. CASE RestoreRef(u)
    <2>1. o = "not-held" /\ running = call[u].old /\ ref = call[u].old
      BY <1>1, <1>2, <1>6 DEF RestoreRef, Finish, NoCall, StageIsSound, Tags
    <2> QED
      BY <2>1 DEF Truthful
  <1>7. CASE GatePasses(u)
    <2>1. o = "updated" /\ running = ref /\ (call[u].svc \notin UpPulls => running = call[u].new)
      BY <1>1, <1>2, <1>3, <1>7 DEF GatePasses, Finish, NoCall, StageIsSound
    <2> QED
      BY <2>1 DEF Truthful
  <1>8. CASE RegatePasses(u) \/ RegateFails(u)
    <2>1. PICK x \in {"rolled-back", "rollback-failed", "rollback-ok-probe-failed"}, c \in BOOLEAN :
              Finish(u, x, c)
      BY <1>8 DEF RegatePasses, RegateFails
    <2>2. o = x
      BY <1>1, <2>1 DEF Finish, NoCall
    <2>3. call[u].at = "regate" /\ UNCHANGED <<container, tags>>
      BY <1>8 DEF RegatePasses, RegateFails
    <2>4. running = call[u].old /\ ref = call[u].old
      BY <1>1, <1>2, <1>3, <2>3 DEF StageIsSound
    <2> QED
      BY <2>2, <2>4 DEF Truthful
  <1>9. CASE RestoreRefFails(u) \/ RetagFails(u) \/ RedoFails(u) \/ Throws(u)
    <2>1. o \in {"thrown", "rollback-failed"}
      BY <1>1, <1>9 DEF RestoreRefFails, RetagFails, RedoFails, Throws, Finish, NoCall
    <2> QED
      BY <2>1 DEF Truthful
  <1>10. CASE RecreateFails(u) \/ GateFails(u)
    <2>1. o = "failed-needs-file-revert"
      BY <1>1, <1>10, MismatchEnds
    <2> QED
      BY <2>1 DEF Truthful
  <1> QED
    BY <1>4, <1>5, <1>6, <1>7, <1>8, <1>9, <1>10, WhoEnds

\* Whatever the outcome says runs is what runs, and what the ref names, for every
\* call that shared neither its hold nor its ref with another.
THEOREM OutcomesAreTrue == Spec => OutcomeIsTrue
  <1>1. IInv /\ [Next]_vars =>
            [\A u \in Updates :
                (Ends(u) /\ OwnHold(u) /\ OwnRef(u))
                    => Truthful(u, call'[u].outcome, container'[call[u].svc].image,
                                tags'[IF call[u].ref = None THEN call[u].created ELSE call[u].ref])]_vars
    BY EndIsTrue
  <1> QED
    BY <1>1, Inductive, PTL DEF Spec, OutcomeIsTrue

\* A call that ends without recreating anything leaves the hold as it found it.
THEOREM NoopsKeepTheHold == Spec => NoopKeepsHold
  <1>1. ASSUME IInv, Next, NEW u \in Updates, Ends(u), OwnHold(u),
               call'[u].outcome \in {"already-current", "pull-failed", "refused", "not-held"}
        PROVE  tags'[Hold(u)] = call[u].heldBefore
    <2>1. /\ call \in [Updates -> Call] /\ tags \in [Tags -> Images \cup {None}]
          /\ StageIsSound(u) /\ InFlight(u) /\ ~InFlight(u)'
      BY <1>1 DEF IInv, TypeOK, StagesAreSound, Ends
    <2>2. call[u].at \in {"config", "pull", "resolve", "restore"} => tags[Hold(u)] = call[u].heldBefore
      BY <1>1 DEF IInv, HoldIsUntouched
    <2>3. CASE Refuse(u) \/ PullFails(u) \/ Resolve(u)
      BY <2>2, <2>3 DEF Refuse, PullFails, Resolve
    <2>4. CASE RestoreRef(u)
      BY <2>1, <2>2, <2>4, UpdateAssumption
         DEF RestoreRef, Hold, HoldTagFor, HoldTags, Tags, StageIsSound
    <2>5. CASE \/ RestoreRefFails(u) \/ GatePasses(u) \/ RetagFails(u) \/ RedoFails(u)
               \/ RegatePasses(u) \/ RegateFails(u) \/ Throws(u)
      <3> DEFINE X == {"thrown", "updated", "rolled-back", "rollback-failed",
                       "rollback-ok-probe-failed"}
      <3>1. PICK x \in X, c \in BOOLEAN : Finish(u, x, c)
        BY <2>5 DEF RestoreRefFails, GatePasses, RetagFails, RedoFails, RegatePasses,
           RegateFails, Throws
      <3>2. call'[u].outcome = x
        BY <2>1, <3>1 DEF Finish, NoCall
      <3> QED
        BY <1>1, <3>2
    <2>6. CASE RecreateFails(u) \/ GateFails(u)
      <3>1. call'[u].outcome = "failed-needs-file-revert"
        BY <2>1, <2>6, MismatchEnds
      <3> QED
        BY <1>1, <3>1
    <2> QED
      BY <1>1, <2>3, <2>4, <2>5, <2>6, WhoEnds
  <1>2. IInv /\ [Next]_vars =>
            [\A u \in Updates :
                (/\ Ends(u) /\ OwnHold(u)
                 /\ call'[u].outcome \in {"already-current", "pull-failed", "refused", "not-held"})
                    => tags'[Hold(u)] = call[u].heldBefore]_vars
    BY <1>1
  <1> QED
    BY <1>2, Inductive, PTL DEF Spec, NoopKeepsHold
=============================================================================
