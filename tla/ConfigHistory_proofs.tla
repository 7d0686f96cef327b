------------------------ MODULE ConfigHistory_proofs ------------------------
(***************************************************************************)
(* Proofs about ConfigHistory for any set of files, contents and calls:    *)
(* the inductive invariant, and the three action properties that follow    *)
(* from it.                                                                *)
(*                                                                         *)
(* Every action is shown to be Good: it keeps the invariant, and a call    *)
(* that it ends, ends well.  What the step of one call leaves of the other *)
(* calls is the same for all actions (Steps, OthersFit).                   *)
(***************************************************************************)
EXTENDS ConfigHistory, TLAPS

----------------------------------------------------------------------------
(* A record with one field changed *)

LEMMA SetStage == ASSUME NEW r \in Call, NEW v \in Stages PROVE [r EXCEPT !.stage = v] \in Call
  BY SMT DEF Call

LEMMA SetOp == ASSUME NEW r \in Call, NEW v \in {"mutate", "sweep"} PROVE [r EXCEPT !.op = v] \in Call
  BY SMT DEF Call

LEMMA SetPath == ASSUME NEW r \in Call, NEW v \in Paths PROVE [r EXCEPT !.path = v] \in Call
  BY SMT DEF Call

LEMMA SetContent == ASSUME NEW r \in Call, NEW v \in Value PROVE [r EXCEPT !.content = v] \in Call
  BY SMT DEF Call

LEMMA SetListed == ASSUME NEW r \in Call, NEW v \in SUBSET Paths PROVE [r EXCEPT !.listed = v] \in Call
  BY SMT DEF Call

LEMMA SetHashes == ASSUME NEW r \in Call, NEW v \in [Paths -> Value] PROVE [r EXCEPT !.hashes = v] \in Call
  BY SMT DEF Call

LEMMA SetFetch == ASSUME NEW r \in Call, NEW v \in SUBSET Paths PROVE [r EXCEPT !.fetch = v] \in Call
  BY SMT DEF Call

LEMMA SetTodo == ASSUME NEW r \in Call, NEW v \in SUBSET Paths PROVE [r EXCEPT !.todo = v] \in Call
  BY SMT DEF Call

LEMMA SetDelete == ASSUME NEW r \in Call, NEW v \in SUBSET Paths PROVE [r EXCEPT !.delete = v] \in Call
  BY SMT DEF Call

LEMMA SetCopy == ASSUME NEW r \in Call, NEW v \in SUBSET Paths PROVE [r EXCEPT !.copy = v] \in Call
  BY SMT DEF Call

LEMMA SetCommitted == ASSUME NEW r \in Call, NEW v \in BOOLEAN PROVE [r EXCEPT !.committed = v] \in Call
  BY SMT DEF Call

LEMMA SetTouched == ASSUME NEW r \in Call, NEW v \in SUBSET Paths PROVE [r EXCEPT !.touched = v] \in Call
  BY SMT DEF Call

LEMMA SetStatted == ASSUME NEW r \in Call, NEW v \in BOOLEAN PROVE [r EXCEPT !.statted = v] \in Call
  BY SMT DEF Call

LEMMA SetSwept == ASSUME NEW r \in Call, NEW v \in BOOLEAN PROVE [r EXCEPT !.swept = v] \in Call
  BY SMT DEF Call

LEMMA SetAlone == ASSUME NEW r \in Call, NEW v \in BOOLEAN PROVE [r EXCEPT !.alone = v] \in Call
  BY SMT DEF Call

LEMMA NoCallType == NoCall \in Call
  <1>1. [p \in Paths |-> Gone] \in [Paths -> Value]
    BY DEF Value
  <1>2. "mutate" \in {"mutate", "sweep"} /\ "idle" \in Stages /\ FALSE \in BOOLEAN
    BY DEF Stages
  <1> QED
    BY <1>1, <1>2 DEF NoCall, Call, Value

----------------------------------------------------------------------------
(* What a step of one call leaves of the others *)

\* What the invariant says of c.
Fits(c) ==
    StageFits(c) /\ CompanyIsKnown(c) /\ StagedFits(c) /\ EntryFits(c) /\ SweepFits(c)

\* d learns at most that the mirror has changed at ps.
Hears(d, ps) ==
    /\ \/ call'[d] = [call[d] EXCEPT !.touched = @ \cup ps]
       \/ ps = {} /\ call'[d] = call[d]

\* The call c in flight goes on as q and changes the mirror at ps.
Steps(c, q, ps) ==
    /\ InFlight(c) /\ q \in Call /\ ps \in SUBSET Paths
    /\ q.op = call[c].op /\ q.swept = call[c].swept /\ (q.alone => call[c].alone)
    /\ call' \in [CallIds -> Call] /\ call'[c] = q
    /\ \A d \in CallIds \ {c} : Hears(d, ps)
    /\ files' = files
    /\ \A p \in Paths \ ps : mirror'[p] = mirror[p]
    /\ call[c].op = "mutate" => manifest \subseteq manifest'
    /\ index' = index \/ (index' = WorkTree /\ mirror' = mirror)

LEMMA HearsIs ==
    ASSUME NEW d \in CallIds, call[d] \in Call, NEW ps \in SUBSET Paths, Hears(d, ps)
    PROVE  /\ call'[d] \in Call
           /\ call'[d].stage = call[d].stage /\ call'[d].op = call[d].op
           /\ call'[d].path = call[d].path /\ call'[d].statted = call[d].statted
           /\ call'[d].swept = call[d].swept /\ call'[d].alone = call[d].alone
           /\ call'[d].committed = call[d].committed
           /\ call'[d].touched = call[d].touched \cup ps
  <1> DEFINE r == call[d]
  <1>1. r \in Call /\ r.touched \cup ps \in SUBSET Paths
    BY DEF Call
  <1>2. CASE ps = {} /\ call'[d] = call[d]
    BY <1>2
  <1>3. CASE call'[d] = [call[d] EXCEPT !.touched = @ \cup ps]
    <2>1. PICK q \in Call : q = [r EXCEPT !.touched = r.touched \cup ps]
      BY <1>1, SetTouched
    <2>2. /\ q.stage = r.stage /\ q.op = r.op /\ q.path = r.path /\ q.statted = r.statted
          /\ q.swept = r.swept /\ q.alone = r.alone /\ q.committed = r.committed
          /\ q.touched = r.touched \cup ps
      BY <1>1, <2>1, SMT DEF Call
    <2> QED
      BY <1>3, <2>1, <2>2
  <1> QED
    BY <1>2, <1>3 DEF Hears

\* Whatever c does in flight, the invariant goes on to hold of the others.
LEMMA OthersFit ==
    ASSUME IInv, NEW c \in CallIds, NEW q, NEW ps, Steps(c, q, ps), NEW d \in CallIds \ {c}
    PROVE  Fits(d)' /\ ~Ends(d)
  <1>1. /\ TypeOK /\ Fits(d) /\ Fits(c) /\ ps \in SUBSET Paths /\ InFlight(c)
        /\ call[d] \in Call /\ call[c] \in Call
    BY DEF IInv, TypeOK, Fits, Steps
  <1>2. /\ call'[d].stage = call[d].stage /\ call'[d].op = call[d].op
        /\ call'[d].path = call[d].path /\ call'[d].statted = call[d].statted
        /\ call'[d].swept = call[d].swept /\ call'[d].alone = call[d].alone
        /\ call'[d].touched = call[d].touched \cup ps
    BY <1>1, HearsIs DEF Steps
  <1>3. InFlight(d)' <=> InFlight(d)
    BY <1>2 DEF InFlight
  <1>4. StageFits(d)'
    BY <1>1, <1>2, <1>3 DEF Fits, StageFits
  <1>5. CompanyIsKnown(d)'
    <2>1. SUFFICES ASSUME InFlight(d), NEW e \in CallIds, InFlight(e)'
                   PROVE  /\ call'[e].op = "sweep" => call'[d].swept
                          /\ e # d => ~call'[d].alone
      BY <1>3 DEF CompanyIsKnown
    <2>2. InFlight(e) /\ call'[e].op = call[e].op
      <3>1. CASE e = c
        BY <3>1, <1>1 DEF Steps
      <3>2. CASE e # c
        BY <3>2, <2>1, HearsIs DEF Steps, IInv, TypeOK, InFlight
      <3> QED
        BY <3>1, <3>2
    <2> QED
      BY <2>1, <2>2, <1>1, <1>2 DEF Fits, CompanyIsKnown
  <1>6. StagedFits(d)'
    <2>1. SUFFICES ASSUME call[d].stage \in {"diff", "commit"}, NEW p \in Paths,
                          p \notin call[d].touched, p \notin ps
                   PROVE  index'.mirror[p] = mirror'[p]
      BY <1>2 DEF StagedFits
    <2>2. index.mirror[p] = mirror[p]
      BY <2>1, <1>1 DEF Fits, StagedFits
    <2> QED
      BY <2>1, <2>2 DEF Steps, WorkTree
  <1>7. EntryFits(d)'
    <2>1. call[c].op = "sweep" /\ InFlight(d) => call[d].swept
      BY <1>1 DEF Fits, CompanyIsKnown
    <2>2. call[c].op = "mutate" \/ call[c].op = "sweep"
      BY <1>1 DEF Call
    <2> QED
      BY <1>1, <1>2, <1>3, <2>1, <2>2 DEF Fits, EntryFits, Steps
  <1>8. SweepFits(d)'
    <2>1. InFlight(d) => ~call[d].alone
      BY <1>1 DEF Fits, CompanyIsKnown
    <2> QED
      BY <1>2, <1>3, <2>1 DEF SweepFits
  <1> QED
    BY <1>2, <1>4, <1>5, <1>6, <1>7, <1>8 DEF Fits, Ends, InFlight

\* And c still knows who is there.
LEMMA CompanyStays ==
    ASSUME IInv, NEW c \in CallIds, NEW q, NEW ps, Steps(c, q, ps)
    PROVE  CompanyIsKnown(c)'
  <1>1. /\ Fits(c) /\ ps \in SUBSET Paths /\ InFlight(c)
        /\ call'[c] = q /\ q.op = call[c].op /\ q.swept = call[c].swept /\ (q.alone => call[c].alone)
    BY DEF IInv, Fits, Steps
  <1>2. SUFFICES ASSUME NEW e \in CallIds, InFlight(e)'
                 PROVE  /\ call'[e].op = "sweep" => call'[c].swept
                        /\ e # c => ~call'[c].alone
    BY DEF CompanyIsKnown
  <1>3. InFlight(e) /\ call'[e].op = call[e].op
    <2>1. CASE e = c
      BY <2>1, <1>1
    <2>2. CASE e # c
      BY <2>2, <1>2, HearsIs DEF Steps, IInv, TypeOK, InFlight
    <2> QED
      BY <2>1, <2>2
  <1> QED
    BY <1>1, <1>3 DEF Fits, CompanyIsKnown

\* What the properties say of a call that ends.
EndsWell(c) ==
    Ends(c) =>
        /\ call'[c].committed => \A p \in Paths \ call[c].touched : head'.mirror[p] = mirror'[p]
        /\ call[c].op = "sweep" /\ call[c].alone /\ call'[c].committed => head'.mirror = files
        /\ call[c].op = "mutate" /\ call[c].statted /\ ~call[c].swept => call[c].path \in manifest'

\* What every step has to be shown: it keeps the invariant, and ends a call as it should.
Good == IInv' /\ \A c \in CallIds : EndsWell(c)

\* What is left to show for the call that steps.
LEMMA StepIsGood ==
    ASSUME IInv, NEW c \in CallIds, NEW q, NEW ps, Steps(c, q, ps),
           TypeOK', StageFits(c)', StagedFits(c)', EntryFits(c)', SweepFits(c)', EndsWell(c)
    PROVE  Good
  <1>1. CompanyIsKnown(c)'
    BY CompanyStays
  <1>2. ASSUME NEW d \in CallIds
        PROVE  Fits(d)' /\ EndsWell(d)
    <2>1. CASE d = c
      BY <2>1, <1>1 DEF Fits
    <2>2. CASE d # c
      BY <2>2, OthersFit DEF EndsWell
    <2> QED
      BY <2>1, <2>2
  <1> QED
    BY <1>2 DEF Good, IInv, Fits

LEMMA TouchIs ==
    ASSUME call \in [CallIds -> Call], NEW c \in CallIds, NEW rec \in Call, NEW ps \in SUBSET Paths,
           call' = Touch(c, rec, ps)
    PROVE  /\ call' \in [CallIds -> Call] /\ call'[c] = rec
           /\ \A d \in CallIds \ {c} : Hears(d, ps)
  <1>1. /\ DOMAIN call' = CallIds /\ call'[c] = rec
        /\ \A d \in CallIds \ {c} : call'[d] = [call[d] EXCEPT !.touched = @ \cup ps]
    BY DEF Touch
  <1>2. \A d \in CallIds \ {c} : Hears(d, ps)
    BY <1>1 DEF Hears
  <1>3. ASSUME NEW d \in CallIds
        PROVE  call'[d] \in Call
    <2>1. CASE d = c
      BY <2>1, <1>1
    <2>2. CASE d # c
      BY <2>2, <1>2, HearsIs
    <2> QED
      BY <2>1, <2>2
  <1>4. call' = [d \in CallIds |-> call'[d]]
    BY DEF Touch
  <1> QED
    BY <1>1, <1>2, <1>3, <1>4

\* A call goes on, and nothing of the mirror changes.
LEMMA GoesOn ==
    ASSUME IInv, NEW c \in CallIds, InFlight(c), NEW q \in Call,
           call' = [call EXCEPT ![c] = q],
           q.op = call[c].op, q.swept = call[c].swept, q.alone => call[c].alone,
           UNCHANGED <<files, mirror>>,
           call[c].op = "mutate" => manifest \subseteq manifest',
           index' = index \/ index' = WorkTree
    PROVE  \E ps : Steps(c, q, ps)
  <1> DEFINE none == {}
  <1>1. call \in [CallIds -> Call]
    BY DEF IInv, TypeOK
  <1>2. none \in SUBSET Paths /\ none = {}
    OBVIOUS
  <1>3. call' \in [CallIds -> Call] /\ call'[c] = q
    BY <1>1
  <1>4. \A d \in CallIds \ {c} : Hears(d, none)
    BY <1>1, <1>2 DEF Hears
  <1> HIDE DEF none
  <1>5. Steps(c, q, none)
    BY <1>2, <1>3, <1>4 DEF Steps
  <1> QED
    BY <1>5

----------------------------------------------------------------------------
(* recordMutation *)

LEMMA MirrorMutationIsGood ==
    ASSUME IInv, NEW c \in CallIds, MirrorMutation(c)
    PROVE  Good
  <1> DEFINE r == call[c]
             ps == {r.path}
  <1>1. /\ r \in Call /\ TypeOK /\ Fits(c) /\ r.stage = "mirror" /\ InFlight(c)
        /\ UNCHANGED <<files, manifest, index, head, remote, events>>
    BY DEF IInv, TypeOK, Fits, MirrorMutation, InFlight
  <1>2. r.op = "mutate" /\ r.path \in Paths /\ ps \in SUBSET Paths /\ r.content \in Value
    BY <1>1 DEF Fits, StageFits, Call
  <1>3. PICK q \in Call : q = [r EXCEPT !.stage = "stat", !.copy = manifest]
    BY <1>1, SetStage, SetCopy DEF TypeOK, Stages
  <1>4. /\ q.stage = "stat" /\ q.op = r.op /\ q.path = r.path /\ q.statted = r.statted
        /\ q.swept = r.swept /\ q.alone = r.alone /\ q.touched = r.touched
    BY <1>1, <1>3, SMT DEF Call
  <1>5. mirror' \in [Paths -> Value] /\ \A p \in Paths \ ps : mirror'[p] = mirror[p]
    BY <1>1, <1>2 DEF TypeOK, MirrorMutation
  <1>6. call' = Touch(c, q, ps)
    BY <1>3 DEF MirrorMutation
  <1> HIDE DEF ps
  <1>7. Steps(c, q, ps)
    BY <1>1, <1>2, <1>4, <1>5, <1>6, TouchIs DEF Steps, TypeOK
  <1>8. call' \in [CallIds -> Call] /\ call'[c] = q
    BY <1>7 DEF Steps
  <1>9. TypeOK'
    BY <1>1, <1>5, <1>8 DEF TypeOK
  <1>10. StageFits(c)' /\ StagedFits(c)' /\ SweepFits(c)' /\ EndsWell(c)
    BY <1>1, <1>2, <1>4, <1>8 DEF StageFits, StagedFits, SweepFits, EndsWell, Ends
  <1>11. EntryFits(c)'
    BY <1>1, <1>2, <1>4, <1>8 DEF Fits, EntryFits
  <1> QED
    BY <1>7, <1>9, <1>10, <1>11, StepIsGood

LEMMA StatIsGood ==
    ASSUME IInv, NEW c \in CallIds, NEW fails \in BOOLEAN, Stat(c, fails)
    PROVE  Good
  <1> DEFINE r == call[c]
             known == ~fails /\ files[r.path] # Gone
  <1>1. /\ r \in Call /\ TypeOK /\ Fits(c) /\ r.stage = "stat" /\ InFlight(c) /\ known \in BOOLEAN
        /\ UNCHANGED <<files, mirror, index, head, remote>>
    BY DEF IInv, TypeOK, Fits, Stat, InFlight
  <1>2. r.op = "mutate" /\ r.path \in Paths
    BY <1>1 DEF Fits, StageFits, Call
  <1>3. /\ manifest' = IF known THEN manifest \cup {r.path} ELSE manifest
        /\ call' = [call EXCEPT ![c].stage = "add", ![c].statted = known]
    BY DEF Stat
  <1> HIDE DEF known
  <1>4. PICK q \in Call : q = [r EXCEPT !.stage = "add", !.statted = known]
    BY <1>1, SetStage, SetStatted DEF Stages
  <1>5. /\ q.stage = "add" /\ q.op = r.op /\ q.path = r.path /\ q.statted = known
        /\ q.swept = r.swept /\ q.alone = r.alone /\ q.touched = r.touched
    BY <1>1, <1>4, SMT DEF Call
  <1>6. call' = [call EXCEPT ![c] = q]
    BY <1>1, <1>3, <1>4 DEF TypeOK
  <1>7. PICK ps : Steps(c, q, ps)
    BY <1>1, <1>2, <1>3, <1>5, <1>6, GoesOn
  <1>8. call' \in [CallIds -> Call] /\ call'[c] = q
    BY <1>7 DEF Steps
  <1>9. TypeOK'
    BY <1>1, <1>2, <1>3, <1>8 DEF TypeOK, Stat, Charge
  <1>10. StageFits(c)' /\ StagedFits(c)' /\ SweepFits(c)' /\ EndsWell(c)
    BY <1>1, <1>2, <1>5, <1>8 DEF StageFits, StagedFits, SweepFits, EndsWell, Ends
  <1>11. EntryFits(c)'
    BY <1>1, <1>2, <1>3, <1>5, <1>8 DEF EntryFits
  <1> QED
    BY <1>7, <1>9, <1>10, <1>11, StepIsGood

----------------------------------------------------------------------------
(* config_sweep *)

LEMMA EnumerateIsGood ==
    ASSUME IInv, NEW c \in CallIds, NEW fails \in BOOLEAN, Enumerate(c, fails)
    PROVE  Good
  <1> DEFINE r == call[c]
             stage == IF fails THEN "add" ELSE "hash"
             alone == r.alone /\ ~fails
             listed == {p \in Paths : files[p] # Gone}
  <1>1. /\ r \in Call /\ TypeOK /\ Fits(c) /\ r.stage = "find" /\ InFlight(c)
        /\ UNCHANGED <<files, mirror, manifest, index, head, remote>>
    BY DEF IInv, TypeOK, Fits, Enumerate, InFlight
  <1>2. r.op = "sweep"
    BY <1>1 DEF Fits, StageFits
  <1>3. /\ stage \in Stages /\ stage \in {"add", "hash"} /\ alone \in BOOLEAN /\ listed \in SUBSET Paths
        /\ (alone => r.alone) /\ (alone => stage = "hash")
        /\ listed = {p \in Paths : files[p] # Gone}
    BY DEF Stages
  <1>4. call' = [call EXCEPT ![c].stage = stage, ![c].alone = alone, ![c].listed = listed]
    BY DEF Enumerate
  <1> HIDE DEF stage, alone, listed
  <1>5. PICK q \in Call : q = [r EXCEPT !.stage = stage, !.alone = alone, !.listed = listed]
    BY <1>1, <1>3, SetStage, SetAlone, SetListed
  <1>6. /\ q.stage = stage /\ q.op = r.op /\ q.path = r.path /\ q.statted = r.statted
        /\ q.swept = r.swept /\ q.alone = alone /\ q.touched = r.touched /\ q.listed = listed
    BY <1>1, <1>5, SMT DEF Call
  <1>7. call' = [call EXCEPT ![c] = q]
    BY <1>1, <1>4, <1>5 DEF TypeOK
  <1>8. PICK ps : Steps(c, q, ps)
    BY <1>1, <1>2, <1>3, <1>6, <1>7, GoesOn
  <1>9. call' \in [CallIds -> Call] /\ call'[c] = q
    BY <1>8 DEF Steps
  <1>10. TypeOK'
    BY <1>1, <1>9 DEF TypeOK, Enumerate, Charge
  <1>11. StageFits(c)' /\ StagedFits(c)' /\ EntryFits(c)' /\ EndsWell(c)
    BY <1>1, <1>2, <1>3, <1>6, <1>9 DEF StageFits, StagedFits, EntryFits, EndsWell, Ends
  <1>12. SweepFits(c)'
    BY <1>1, <1>2, <1>3, <1>6, <1>9 DEF SweepFits
  <1> QED
    BY <1>8, <1>10, <1>11, <1>12, StepIsGood

\* With the files to fetch in todo still open, m is what the sweep has made of the mirror.
Brings(rec, m) ==
    \A p \in Paths : /\ p \in rec.todo => files[p] # Gone
                     /\ p \in rec.delete => files[p] = Gone
                     /\ p \notin rec.todo \cup rec.delete => m[p] = files[p]

\* The end of a comparison or of a fetch, whether it was the last one or not.
LEMMA FinishIsGood ==
    ASSUME IInv, NEW c \in CallIds, InFlight(c), call[c].op = "sweep",
           NEW rec \in Call, NEW m \in [Paths -> Value], Finish(c, rec, m),
           rec.op = "sweep", rec.swept = call[c].swept, rec.alone => call[c].alone,
           rec.alone => Brings(rec, m),
           UNCHANGED <<files, index, head, remote>>, events' \in Nat
    PROVE  Good
  <1> DEFINE r == call[c]
             last == rec.todo = {}
             asks == rec.fetch # {}
             final == [p \in Paths |-> IF last /\ p \in rec.delete THEN Gone ELSE m[p]]
             ps == {p \in Paths : final[p] # mirror[p]}
             stage == IF ~last THEN "fetch" ELSE IF asks THEN "stats" ELSE "add"
  <1>1. TypeOK /\ Fits(c) /\ r \in Call
    BY DEF IInv, TypeOK, Fits
  <1>2. /\ mirror' = final
        /\ manifest' = IF last /\ ~asks THEN manifest \ rec.delete ELSE manifest
        /\ call' = Touch(c, [rec EXCEPT !.stage = stage, !.copy = manifest], ps)
    BY DEF Finish
  <1>3. /\ final \in [Paths -> Value] /\ ps \in SUBSET Paths /\ stage \in Stages
        /\ stage \in {"fetch", "stats", "add"} /\ rec.delete \in SUBSET Paths
        /\ \A p \in Paths \ ps : final[p] = mirror[p]
    BY DEF Value, Stages, Call
  <1>4. rec.alone => /\ stage \in {"stats", "add"} => \A p \in Paths : final[p] = files[p]
                     /\ stage = "fetch" => \A p \in Paths : final[p] = m[p]
    BY <1>3 DEF Brings
  <1>5. rec.alone => Brings(rec, m)
    OBVIOUS
  <1> HIDE DEF last, asks, final, ps, stage
  <1>6. PICK q \in Call : q = [rec EXCEPT !.stage = stage, !.copy = manifest]
    BY <1>1, <1>3, SetStage, SetCopy DEF TypeOK
  <1>7. /\ q.stage = stage /\ q.op = "sweep" /\ q.swept = r.swept /\ q.alone = rec.alone
        /\ q.todo = rec.todo /\ q.delete = rec.delete
    BY <1>1, <1>6, SMT DEF Call
  <1>8. Steps(c, q, ps)
    BY <1>1, <1>2, <1>3, <1>6, <1>7, TouchIs DEF Steps, TypeOK
  <1>9. call' \in [CallIds -> Call] /\ call'[c] = q
    BY <1>8 DEF Steps
  <1>10. TypeOK'
    BY <1>1, <1>2, <1>3, <1>9 DEF TypeOK
  <1>11. StageFits(c)' /\ StagedFits(c)' /\ EntryFits(c)' /\ EndsWell(c)
    BY <1>1, <1>3, <1>7, <1>9 DEF StageFits, StagedFits, EntryFits, EndsWell, Ends
  <1>12. SweepFits(c)'
    <2>1. q.alone /\ q.stage \in {"stats", "add"} => mirror' = files'
      BY <1>1, <1>2, <1>3, <1>4, <1>7 DEF TypeOK
    <2>2. ASSUME q.alone, q.stage = "fetch", NEW p \in Paths
          PROVE  /\ p \in q.todo => files'[p] # Gone
                 /\ p \in q.delete => files'[p] = Gone
                 /\ p \notin q.todo \cup q.delete => mirror'[p] = files'[p]
      BY <2>2, <1>2, <1>4, <1>5, <1>7 DEF Brings
    <2> QED
      BY <2>1, <2>2, <1>3, <1>7, <1>9 DEF SweepFits
  <1> QED
    BY <1>8, <1>10, <1>11, <1>12, StepIsGood

LEMMA HashAndDiffIsGood ==
    ASSUME IInv, NEW c \in CallIds, NEW fails \in BOOLEAN, HashAndDiff(c, fails)
    PROVE  Good
  <1> DEFINE r == call[c]
             hashes == [p \in Paths |-> IF p \in r.listed THEN files[p] ELSE Gone]
             fetch == ToFetch(r.listed, hashes)
             delete == ToDelete(r.listed, hashes)
  <1>1. /\ r \in Call /\ TypeOK /\ Fits(c) /\ r.stage = "hash" /\ InFlight(c)
        /\ UNCHANGED <<files, index, head, remote>> /\ events' \in Nat
    BY DEF IInv, TypeOK, Fits, HashAndDiff, InFlight, Charge
  <1>2. r.op = "sweep"
    BY <1>1 DEF Fits, StageFits
  <1>3. CASE fails
    <2> DEFINE no == FALSE
    <2>1. no \in BOOLEAN /\ ~no /\ "add" \in Stages
      BY DEF Stages
    <2>2. call' = [call EXCEPT ![c].stage = "add", ![c].alone = no] /\ UNCHANGED <<mirror, manifest>>
      BY <1>3 DEF HashAndDiff
    <2> HIDE DEF no
    <2>3. PICK q \in Call : q = [r EXCEPT !.stage = "add", !.alone = no]
      BY <1>1, <2>1, SetStage, SetAlone
    <2>4. /\ q.stage = "add" /\ q.op = r.op /\ q.path = r.path /\ q.statted = r.statted
          /\ q.swept = r.swept /\ ~q.alone /\ q.touched = r.touched
      BY <1>1, <2>1, <2>3, SMT DEF Call
    <2>5. call' = [call EXCEPT ![c] = q]
      BY <1>1, <2>2, <2>3 DEF TypeOK
    <2>6. PICK ps : Steps(c, q, ps)
      BY <1>1, <1>2, <2>2, <2>4, <2>5, GoesOn
    <2>7. call' \in [CallIds -> Call] /\ call'[c] = q
      BY <2>6 DEF Steps
    <2>8. TypeOK'
      BY <1>1, <2>2, <2>7 DEF TypeOK
    <2>9. StageFits(c)' /\ StagedFits(c)' /\ EntryFits(c)' /\ SweepFits(c)' /\ EndsWell(c)
      BY <1>1, <1>2, <2>4, <2>7 DEF StageFits, StagedFits, EntryFits, SweepFits, EndsWell, Ends
    <2> QED
      BY <2>6, <2>8, <2>9, StepIsGood
  <1>4. CASE ~fails
    <2>1. Finish(c, [r EXCEPT !.hashes = hashes, !.fetch = fetch, !.todo = fetch, !.delete = delete], mirror)
      BY <1>4 DEF HashAndDiff
    <2>2. hashes \in [Paths -> Value] /\ fetch \in SUBSET Paths /\ delete \in SUBSET Paths
      BY <1>1 DEF TypeOK, Value, Call, ToFetch, ToDelete
    <2>3. r.listed = {p \in Paths : files[p] # Gone}
          => \A p \in Paths : /\ p \in fetch => files[p] # Gone
                              /\ p \in delete => files[p] = Gone
                              /\ p \notin fetch \cup delete => mirror[p] = files[p]
      BY DEF ToFetch, ToDelete
    <2> HIDE DEF hashes, fetch, delete
    <2>4. PICK rec \in Call :
             rec = [r EXCEPT !.hashes = hashes, !.fetch = fetch, !.todo = fetch, !.delete = delete]
      BY <1>1, <2>2, SetHashes, SetFetch, SetTodo, SetDelete
    <2>5. /\ rec.op = r.op /\ rec.swept = r.swept /\ rec.alone = r.alone
          /\ rec.todo = fetch /\ rec.delete = delete
      BY <1>1, <2>4, SMT DEF Call
    <2>6. rec.alone => Brings(rec, mirror)
      BY <1>1, <1>2, <2>3, <2>5 DEF Fits, SweepFits, Brings
    <2>7. Finish(c, rec, mirror) /\ mirror \in [Paths -> Value]
      BY <1>1, <2>1, <2>4 DEF TypeOK
    <2> QED
      BY <1>1, <1>2, <2>5, <2>6, <2>7, FinishIsGood
  <1> QED
    BY <1>3, <1>4

LEMMA FetchIsGood ==
    ASSUME IInv, NEW c \in CallIds, NEW p \in Paths, Fetch(c, p)
    PROVE  Good
  <1> DEFINE r == call[c]
             v == files[p]
  <1>1. /\ r \in Call /\ TypeOK /\ Fits(c) /\ r.stage = "fetch" /\ InFlight(c) /\ p \in r.todo
        /\ UNCHANGED <<files, mirror, manifest, index, head, remote, events>>
        /\ call' = [call EXCEPT ![c].stage = "land", ![c].path = p, ![c].content = v]
    BY DEF IInv, TypeOK, Fits, Fetch, InFlight
  <1>2. r.op = "sweep" /\ v \in Value /\ v = files[p]
    BY <1>1 DEF Fits, StageFits, TypeOK
  <1> HIDE DEF v
  <1>3. PICK q \in Call : q = [r EXCEPT !.stage = "land", !.path = p, !.content = v]
    BY <1>1, <1>2, SetStage, SetPath, SetContent DEF Stages
  <1>4. /\ q.stage = "land" /\ q.op = r.op /\ q.path = p /\ q.content = v
        /\ q.swept = r.swept /\ q.alone = r.alone /\ q.todo = r.todo /\ q.delete = r.delete
    BY <1>1, <1>3, SMT DEF Call
  <1>5. call' = [call EXCEPT ![c] = q]
    BY <1>1, <1>3 DEF TypeOK
  <1>6. PICK ps : Steps(c, q, ps)
    BY <1>1, <1>2, <1>4, <1>5, GoesOn
  <1>7. call' \in [CallIds -> Call] /\ call'[c] = q
    BY <1>6 DEF Steps
  <1>8. TypeOK'
    BY <1>1, <1>7 DEF TypeOK
  <1>9. StageFits(c)' /\ StagedFits(c)' /\ EntryFits(c)' /\ EndsWell(c)
    BY <1>1, <1>2, <1>4, <1>7 DEF StageFits, StagedFits, EntryFits, EndsWell, Ends
  <1>10. SweepFits(c)'
    BY <1>1, <1>2, <1>4, <1>7 DEF Fits, SweepFits, InFlight
  <1> QED
    BY <1>6, <1>8, <1>9, <1>10, StepIsGood

LEMMA LandIsGood ==
    ASSUME IInv, NEW c \in CallIds, Land(c)
    PROVE  Good
  <1> DEFINE r == call[c]
             p == r.path
             todo == r.todo \ {p}
             m == IF r.content = Gone THEN mirror ELSE [mirror EXCEPT ![p] = r.content]
  <1>1. /\ r \in Call /\ TypeOK /\ Fits(c) /\ r.stage = "land" /\ InFlight(c)
        /\ UNCHANGED <<files, index, head, remote, events>>
        /\ Finish(c, [r EXCEPT !.todo = todo], m)
    BY DEF IInv, TypeOK, Fits, Land, InFlight
  <1>2. r.op = "sweep" /\ todo \in SUBSET Paths /\ m \in [Paths -> Value] /\ events' \in Nat
    BY <1>1 DEF Fits, StageFits, TypeOK, Call
  <1>3. PICK rec \in Call : rec = [r EXCEPT !.todo = todo]
    BY <1>1, <1>2, SetTodo
  <1>4. /\ rec.op = r.op /\ rec.swept = r.swept /\ rec.alone = r.alone
        /\ rec.todo = todo /\ rec.delete = r.delete
    BY <1>1, <1>3, SMT DEF Call
  <1>5. rec.alone => Brings(rec, m)
    <2>1. SUFFICES ASSUME r.alone, NEW f \in Paths
                   PROVE  /\ f \in todo => files[f] # Gone
                          /\ f \in r.delete => files[f] = Gone
                          /\ f \notin todo \cup r.delete => m[f] = files[f]
      BY <1>4 DEF Brings
    <2>2. /\ p \in r.todo /\ r.content = files[p] /\ p \in Paths
          /\ \A g \in Paths : /\ g \in r.todo => files[g] # Gone
                              /\ g \in r.delete => files[g] = Gone
                              /\ g \notin r.todo \cup r.delete => mirror[g] = files[g]
      BY <1>1, <1>2, <2>1 DEF Fits, SweepFits, Call
    <2> QED
      BY <1>1, <2>2 DEF TypeOK
  <1>6. Finish(c, rec, m)
    BY <1>1, <1>3
  <1> HIDE DEF m
  <1> QED
    BY <1>1, <1>2, <1>4, <1>5, <1>6, FinishIsGood

LEMMA StatBatchIsGood ==
    ASSUME IInv, NEW c \in CallIds, NEW fails \in BOOLEAN, StatBatch(c, fails)
    PROVE  Good
  <1> DEFINE r == call[c]
             known == IF fails THEN {} ELSE {p \in r.fetch : files[p] # Gone}
             alone == r.alone /\ ~fails
  <1>1. /\ r \in Call /\ TypeOK /\ Fits(c) /\ r.stage = "stats" /\ InFlight(c)
        /\ UNCHANGED <<files, mirror, index, head, remote>>
        /\ manifest' = (r.copy \cup known) \ r.delete
        /\ call' = [call EXCEPT ![c].stage = "add", ![c].alone = alone]
    BY DEF IInv, TypeOK, Fits, StatBatch, InFlight
  <1>2. /\ r.op = "sweep" /\ alone \in BOOLEAN /\ (alone => r.alone)
        /\ (r.copy \cup known) \ r.delete \in SUBSET Paths
    BY <1>1 DEF Fits, StageFits, Call
  <1> HIDE DEF known, alone
  <1>3. PICK q \in Call : q = [r EXCEPT !.stage = "add", !.alone = alone]
    BY <1>1, <1>2, SetStage, SetAlone DEF Stages
  <1>4. q.stage = "add" /\ q.op = r.op /\ q.swept = r.swept /\ q.alone = alone
    BY <1>1, <1>3, SMT DEF Call
  <1>5. call' = [call EXCEPT ![c] = q]
    BY <1>1, <1>3 DEF TypeOK
  <1>6. PICK ps : Steps(c, q, ps)
    BY <1>1, <1>2, <1>4, <1>5, GoesOn
  <1>7. call' \in [CallIds -> Call] /\ call'[c] = q
    BY <1>6 DEF Steps
  <1>8. TypeOK'
    BY <1>1, <1>2, <1>7 DEF TypeOK, StatBatch, Charge
  <1>9. StageFits(c)' /\ StagedFits(c)' /\ EntryFits(c)' /\ EndsWell(c)
    BY <1>1, <1>2, <1>4, <1>7 DEF StageFits, StagedFits, EntryFits, EndsWell, Ends
  <1>10. SweepFits(c)'
    BY <1>1, <1>2, <1>4, <1>7 DEF Fits, SweepFits
  <1> QED
    BY <1>6, <1>8, <1>9, <1>10, StepIsGood

----------------------------------------------------------------------------
(* commit and push *)

LEMMA AnswerIs ==
    ASSUME NEW c \in CallIds, call[c] \in Call, NEW b \in BOOLEAN
    PROVE  /\ Answer(c, b) \in Call
           /\ Answer(c, b).stage \in {"push", "over"}
           /\ Answer(c, b).stage = "push" => call[c].op = "mutate"
           /\ Answer(c, b).op = call[c].op /\ Answer(c, b).path = call[c].path
           /\ Answer(c, b).committed = b /\ Answer(c, b).statted = call[c].statted
           /\ Answer(c, b).swept = call[c].swept /\ Answer(c, b).alone = call[c].alone
  <1> DEFINE r == call[c]
             s == IF b /\ r.stage # "push" /\ r.op = "mutate" /\ Pushes THEN "push" ELSE "over"
  <1>1. s \in Stages /\ s \in {"push", "over"} /\ (s = "push" => r.op = "mutate")
    BY DEF Stages
  <1>2. Answer(c, b) = [r EXCEPT !.stage = s, !.committed = b]
    BY DEF Answer
  <1> HIDE DEF s
  <1>3. PICK q \in Call : q = [r EXCEPT !.stage = s, !.committed = b]
    BY <1>1, SetStage, SetCommitted
  <1>4. /\ q.stage = s /\ q.op = r.op /\ q.path = r.path /\ q.committed = b
        /\ q.statted = r.statted /\ q.swept = r.swept /\ q.alone = r.alone
    BY <1>3, SMT DEF Call
  <1> QED
    BY <1>1, <1>2, <1>3, <1>4

\* A commit that answers, truly only when HEAD is the index it staged.
LEMMA AnswerIsGood ==
    ASSUME IInv, NEW c \in CallIds, InFlight(c), call[c].stage # "push", NEW b \in BOOLEAN,
           call' = [call EXCEPT ![c] = Answer(c, b)],
           UNCHANGED <<files, mirror, manifest, index, remote>>,
           head' \in {head, index}, events' \in Nat,
           b => call[c].stage \in {"diff", "commit"} /\ head' = index
    PROVE  Good
  <1> DEFINE r == call[c]
             q == Answer(c, b)
  <1>1. TypeOK /\ Fits(c) /\ r \in Call
    BY DEF IInv, TypeOK, Fits
  <1>2. /\ q \in Call /\ q.stage \in {"push", "over"} /\ (q.stage = "push" => r.op = "mutate")
        /\ q.op = r.op /\ q.path = r.path /\ q.committed = b /\ q.statted = r.statted
        /\ q.swept = r.swept /\ q.alone = r.alone
    BY <1>1, AnswerIs
  <1> HIDE DEF q
  <1>3. call' = [call EXCEPT ![c] = q]
    BY DEF q
  <1>4. PICK ps : Steps(c, q, ps)
    BY <1>1, <1>2, <1>3, GoesOn
  <1>5. call' \in [CallIds -> Call] /\ call'[c] = q
    BY <1>4 DEF Steps
  <1>6. TypeOK'
    BY <1>1, <1>5 DEF TypeOK
  <1>7. StageFits(c)'
    BY <1>1, <1>2, <1>5 DEF Fits, StageFits, InFlight
  <1>8. StagedFits(c)' /\ SweepFits(c)'
    BY <1>1, <1>2, <1>5 DEF StagedFits, SweepFits, InFlight
  <1>9. EntryFits(c)'
    BY <1>1, <1>2, <1>5 DEF Fits, EntryFits
  <1>10. EndsWell(c)
    <2>1. b => /\ \A p \in Paths \ r.touched : head'.mirror[p] = mirror'[p]
               /\ r.op = "sweep" /\ r.alone => head'.mirror = files
      BY <1>1 DEF Fits, StagedFits, SweepFits
    <2>2. r.op = "mutate" /\ r.statted /\ ~r.swept => r.path \in manifest'
      BY <1>1 DEF Fits, EntryFits
    <2> QED
      BY <1>2, <1>5, <2>1, <2>2 DEF EndsWell
  <1> QED
    BY <1>4, <1>6, <1>7, <1>8, <1>9, <1>10, StepIsGood

LEMMA AddIsGood ==
    ASSUME IInv, NEW c \in CallIds, NEW fails \in BOOLEAN, Add(c, fails)
    PROVE  Good
  <1> DEFINE r == call[c]
             none == {}
             no == FALSE
  <1>1. /\ r \in Call /\ TypeOK /\ Fits(c) /\ r.stage = "add" /\ InFlight(c)
        /\ UNCHANGED <<files, mirror, manifest, head, remote>> /\ events' \in Nat
        /\ none \in SUBSET Paths /\ none = {} /\ no \in BOOLEAN /\ ~no
    BY DEF IInv, TypeOK, Fits, Add, InFlight, Charge
  <1>2. CASE fails
    <2>1. index' = index /\ call' = [call EXCEPT ![c] = Answer(c, no)]
      BY <1>2 DEF Add
    <2> HIDE DEF no
    <2> QED
      BY <1>1, <2>1, AnswerIsGood
  <1>3. CASE ~fails
    <2>1. index' = WorkTree /\ call' = [call EXCEPT ![c] = [r EXCEPT !.stage = "diff", !.touched = none]]
      BY <1>3 DEF Add
    <2> HIDE DEF none
    <2>2. PICK q \in Call : q = [r EXCEPT !.stage = "diff", !.touched = none]
      BY <1>1, SetStage, SetTouched DEF Stages
    <2>3. /\ q.stage = "diff" /\ q.op = r.op /\ q.path = r.path /\ q.statted = r.statted
          /\ q.swept = r.swept /\ q.alone = r.alone
      BY <1>1, <2>2, SMT DEF Call
    <2>4. PICK ps : Steps(c, q, ps)
      BY <1>1, <2>1, <2>2, <2>3, GoesOn
    <2>5. call' \in [CallIds -> Call] /\ call'[c] = q
      BY <2>4 DEF Steps
    <2>6. index' \in Tree /\ index'.mirror = mirror
      BY <1>1, <2>1 DEF TypeOK, Tree, WorkTree
    <2>7. TypeOK'
      BY <1>1, <2>5, <2>6 DEF TypeOK
    <2>8. StageFits(c)' /\ EntryFits(c)' /\ EndsWell(c)
      BY <1>1, <2>3, <2>5 DEF Fits, StageFits, EntryFits, EndsWell, Ends, InFlight
    <2>9. StagedFits(c)'
      BY <1>1, <2>5, <2>6 DEF StagedFits
    <2>10. SweepFits(c)'
      BY <1>1, <2>3, <2>5, <2>6 DEF Fits, SweepFits
    <2> QED
      BY <2>4, <2>7, <2>8, <2>9, <2>10, StepIsGood
  <1> QED
    BY <1>2, <1>3

LEMMA DiffIsGood ==
    ASSUME IInv, NEW c \in CallIds, Diff(c)
    PROVE  Good
  <1> DEFINE r == call[c]
             yes == TRUE
  <1>1. /\ r \in Call /\ TypeOK /\ Fits(c) /\ r.stage = "diff" /\ InFlight(c)
        /\ UNCHANGED <<files, mirror, manifest, index, head, remote, events>>
        /\ events' \in Nat /\ yes \in BOOLEAN
    BY DEF IInv, TypeOK, Fits, Diff, InFlight
  <1>2. CASE index = head
    <2>1. call' = [call EXCEPT ![c] = Answer(c, yes)]
      BY <1>2 DEF Diff
    <2> HIDE DEF yes
    <2> QED
      BY <1>1, <1>2, <2>1, AnswerIsGood
  <1>3. CASE index # head
    <2>1. PICK q \in Call : q = [r EXCEPT !.stage = "commit"]
      BY <1>1, SetStage DEF Stages
    <2>2. /\ q.stage = "commit" /\ q.op = r.op /\ q.path = r.path /\ q.statted = r.statted
          /\ q.swept = r.swept /\ q.alone = r.alone /\ q.touched = r.touched
      BY <1>1, <2>1, SMT DEF Call
    <2>3. call' = [call EXCEPT ![c] = q]
      BY <1>3, <2>1 DEF Diff
    <2>4. PICK ps : Steps(c, q, ps)
      BY <1>1, <2>2, <2>3, GoesOn
    <2>5. call' \in [CallIds -> Call] /\ call'[c] = q
      BY <2>4 DEF Steps
    <2>6. TypeOK'
      BY <1>1, <2>5 DEF TypeOK
    <2>7. StageFits(c)' /\ StagedFits(c)' /\ EntryFits(c)' /\ EndsWell(c)
      BY <1>1, <2>2, <2>5
         DEF Fits, StageFits, StagedFits, EntryFits, EndsWell, Ends, InFlight
    <2>8. SweepFits(c)'
      BY <1>1, <2>2, <2>5 DEF Fits, SweepFits
    <2> QED
      BY <2>4, <2>6, <2>7, <2>8, StepIsGood
  <1> QED
    BY <1>2, <1>3

LEMMA CommitIsGood ==
    ASSUME IInv, NEW c \in CallIds, NEW fails \in BOOLEAN, Commit(c, fails)
    PROVE  Good
  <1> DEFINE works == ~fails /\ index # head
  <1>1. /\ call[c].stage = "commit" /\ InFlight(c) /\ works \in BOOLEAN
        /\ head' = IF works THEN index ELSE head
        /\ call' = [call EXCEPT ![c] = Answer(c, works)]
        /\ UNCHANGED <<files, mirror, manifest, index, remote>> /\ events' \in Nat
    BY DEF IInv, TypeOK, Commit, Charge, InFlight
  <1> HIDE DEF works
  <1> QED
    BY <1>1, AnswerIsGood

LEMMA PushIsGood ==
    ASSUME IInv, NEW c \in CallIds, NEW fails \in BOOLEAN, Push(c, fails)
    PROVE  Good
  <1> DEFINE r == call[c]
  <1>1. /\ r \in Call /\ TypeOK /\ Fits(c) /\ r.stage = "push" /\ InFlight(c)
        /\ UNCHANGED <<files, mirror, manifest, index, head>> /\ events' \in Nat
        /\ remote' = IF fails THEN remote ELSE head
        /\ call' = [call EXCEPT ![c].stage = "over"]
    BY DEF IInv, TypeOK, Fits, Push, InFlight, Charge
  <1>2. PICK q \in Call : q = [r EXCEPT !.stage = "over"]
    BY <1>1, SetStage DEF Stages
  <1>3. q.stage = "over" /\ q.op = r.op /\ q.swept = r.swept /\ q.alone = r.alone
    BY <1>1, <1>2, SMT DEF Call
  <1>4. call' = [call EXCEPT ![c] = q]
    BY <1>1, <1>2 DEF TypeOK
  <1>5. PICK ps : Steps(c, q, ps)
    BY <1>1, <1>3, <1>4, GoesOn
  <1>6. call' \in [CallIds -> Call] /\ call'[c] = q
    BY <1>5 DEF Steps
  <1>7. TypeOK'
    BY <1>1, <1>6 DEF TypeOK
  <1>8. StageFits(c)' /\ StagedFits(c)' /\ EntryFits(c)' /\ SweepFits(c)' /\ EndsWell(c)
    BY <1>1, <1>3, <1>6
       DEF StageFits, StagedFits, EntryFits, SweepFits, EndsWell, Ends, InFlight
  <1> QED
    BY <1>5, <1>7, <1>8, StepIsGood

----------------------------------------------------------------------------
(* Calls that begin, other people, and restarts *)

\* A call that begins learns of those in flight, and they of it.
LEMMA BeginIsGood ==
    ASSUME IInv, NEW c \in CallIds, NEW rec \in Call, Begin(c, rec),
           \/ rec.op = "mutate" /\ rec.stage = "mirror" /\ rec.path \in Paths
           \/ rec.op = "sweep" /\ rec.stage = "find",
           ~rec.statted, files' \in [Paths -> Value],
           UNCHANGED <<mirror, manifest, index, head, remote, events>>
    PROVE  Good
  <1> DEFINE others == {d \in CallIds : InFlight(d)}
             single == others = {}
             sweep == rec.op = "sweep"
             swept == sweep \/ \E d \in others : call[d].op = "sweep"
  <1>1. TypeOK /\ \A d \in CallIds : Fits(d) /\ call[d] \in Call
    BY DEF IInv, TypeOK, Fits
  <1>2. /\ call[c].stage = "idle"
        /\ call' = [d \in CallIds |->
                       IF d = c THEN [rec EXCEPT !.alone = single, !.swept = swept]
                       ELSE [call[d] EXCEPT !.alone = FALSE, !.swept = @ \/ sweep]]
    BY DEF Begin
  <1>3. /\ \A d \in CallIds : InFlight(d) => /\ call[d].op = "sweep" => swept
                                             /\ ~single
        /\ sweep => swept
        /\ sweep <=> rec.op = "sweep"
        /\ single \in BOOLEAN /\ swept \in BOOLEAN
    OBVIOUS
  <1>4. rec.op = "mutate" \/ rec.op = "sweep"
    OBVIOUS
  <1> HIDE DEF single, swept, sweep
  <1>5. PICK q \in Call : q = [rec EXCEPT !.alone = single, !.swept = swept]
    BY <1>3, SetAlone, SetSwept
  <1>6. /\ q.stage = rec.stage /\ q.op = rec.op /\ q.path = rec.path /\ ~q.statted
        /\ q.swept = swept /\ q.alone = single
    BY <1>3, <1>5, SMT DEF Call
  <1>7. ASSUME NEW d \in CallIds, d # c
        PROVE  /\ call'[d] \in Call
               /\ call'[d].stage = call[d].stage /\ call'[d].op = call[d].op
               /\ call'[d].path = call[d].path /\ call'[d].statted = call[d].statted
               /\ call'[d].touched = call[d].touched /\ call'[d].committed = call[d].committed
               /\ ~call'[d].alone /\ (call[d].swept \/ sweep => call'[d].swept)
    <2> DEFINE no == FALSE
               hit == call[d].swept \/ sweep
    <2>1. /\ no \in BOOLEAN /\ ~no /\ hit \in BOOLEAN /\ call[d] \in Call
          /\ call[d].swept \/ sweep => hit
      BY <1>1, <1>7 DEF Call
    <2>2. call'[d] = [call[d] EXCEPT !.alone = no, !.swept = hit]
      BY <1>2, <1>7
    <2> HIDE DEF no, hit
    <2>3. PICK e \in Call : e = [call[d] EXCEPT !.alone = no, !.swept = hit]
      BY <2>1, SetAlone, SetSwept
    <2>4. /\ e.stage = call[d].stage /\ e.op = call[d].op /\ e.path = call[d].path
          /\ e.statted = call[d].statted /\ e.touched = call[d].touched
          /\ e.committed = call[d].committed /\ ~e.alone /\ e.swept = hit
      BY <2>1, <2>3, SMT DEF Call
    <2> QED
      BY <2>1, <2>2, <2>3, <2>4
  <1>8. call'[c] = q
    BY <1>2, <1>5
  <1>9. TypeOK'
    <2>1. \A d \in CallIds : call'[d] \in Call
      BY <1>7, <1>8
    <2>2. call' = [d \in CallIds |-> call'[d]]
      BY <1>2
    <2>3. call' \in [CallIds -> Call]
      BY <2>1, <2>2
    <2> QED
      BY <1>1, <2>3 DEF TypeOK
  <1>10. ASSUME NEW d \in CallIds
        PROVE  Fits(d)' /\ EndsWell(d)
    <2>1. CASE d = c
      <3>1. CompanyIsKnown(d)'
        <4>1. SUFFICES ASSUME NEW e \in CallIds, InFlight(e)'
                       PROVE  /\ call'[e].op = "sweep" => call'[c].swept
                              /\ e # c => ~call'[c].alone
          BY <2>1 DEF CompanyIsKnown
        <4>2. CASE e = c
          BY <4>2, <1>3, <1>6, <1>8
        <4>3. CASE e # c
          BY <4>1, <4>3, <1>3, <1>6, <1>7, <1>8 DEF InFlight
        <4> QED
          BY <4>2, <4>3
      <3>2. /\ StageFits(d)' /\ StagedFits(d)' /\ EntryFits(d)' /\ SweepFits(d)' /\ EndsWell(d)
        BY <2>1, <1>2, <1>6, <1>8
           DEF StageFits, StagedFits, EntryFits, SweepFits, EndsWell, Ends, InFlight
      <3> QED
        BY <3>1, <3>2 DEF Fits
    <2>2. CASE d # c
      <3>1. InFlight(d)' <=> InFlight(d)
        BY <2>2, <1>7 DEF InFlight
      <3>2. CompanyIsKnown(d)'
        <4>1. SUFFICES ASSUME InFlight(d), NEW e \in CallIds, InFlight(e)'
                       PROVE  call'[e].op = "sweep" => call'[d].swept
          BY <2>2, <3>1, <1>7 DEF CompanyIsKnown
        <4>2. CASE e = c
          BY <2>2, <4>2, <1>3, <1>6, <1>7, <1>8
        <4>3. CASE e # c
          BY <2>2, <4>1, <4>3, <1>1, <1>7 DEF Fits, CompanyIsKnown, InFlight
        <4> QED
          BY <4>2, <4>3
      <3>3. StageFits(d)' /\ StagedFits(d)' /\ EntryFits(d)' /\ SweepFits(d)'
        BY <2>2, <3>1, <1>1, <1>7 DEF Fits, StageFits, StagedFits, EntryFits, SweepFits
      <3>4. EndsWell(d)
        BY <2>2, <1>7 DEF EndsWell, Ends, InFlight
      <3> QED
        BY <3>2, <3>3, <3>4 DEF Fits
    <2> QED
      BY <2>1, <2>2
  <1> QED
    BY <1>9, <1>10 DEF Good, IInv, Fits

LEMMA MutateIsGood ==
    ASSUME IInv, NEW c \in CallIds, NEW p \in Paths, NEW v \in Contents, Mutate(c, p, v)
    PROVE  Good
  <1>1. NoCall.op = "mutate" /\ ~NoCall.statted
    BY DEF NoCall
  <1>2. v \in Value /\ "mirror" \in Stages /\ NoCall \in Call
    BY NoCallType DEF Value, Stages
  <1>3. PICK rec \in Call : rec = [NoCall EXCEPT !.stage = "mirror", !.path = p, !.content = v]
    BY <1>2, SetStage, SetPath, SetContent
  <1>4. rec.op = "mutate" /\ ~rec.statted /\ rec.stage = "mirror" /\ rec.path = p
    BY <1>1, <1>2, <1>3, SMT DEF Call
  <1>5. Begin(c, rec) /\ UNCHANGED <<mirror, manifest, index, head, remote, events>>
    BY <1>3 DEF Mutate
  <1>6. files' \in [Paths -> Value]
    BY <1>2 DEF Mutate, IInv, TypeOK
  <1> QED
    BY <1>4, <1>5, <1>6, BeginIsGood

LEMMA SweepIsGood ==
    ASSUME IInv, NEW c \in CallIds, Sweep(c)
    PROVE  Good
  <1>1. ~NoCall.statted
    BY DEF NoCall
  <1>2. "find" \in Stages /\ "sweep" \in {"mutate", "sweep"} /\ NoCall \in Call
    BY NoCallType DEF Stages
  <1>3. PICK rec \in Call : rec = [NoCall EXCEPT !.op = "sweep", !.stage = "find"]
    BY <1>2, SetOp, SetStage
  <1>4. rec.op = "sweep" /\ ~rec.statted /\ rec.stage = "find"
    BY <1>1, <1>2, <1>3, SMT DEF Call
  <1>5. Begin(c, rec) /\ UNCHANGED <<files, mirror, manifest, index, head, remote, events>>
    BY <1>3 DEF Sweep
  <1>6. files' \in [Paths -> Value]
    BY <1>5 DEF IInv, TypeOK
  <1> QED
    BY <1>4, <1>5, <1>6, BeginIsGood

LEMMA OutOfBandIsGood ==
    ASSUME IInv, NEW p \in Paths, NEW v \in Value, OutOfBand(p, v)
    PROVE  Good
  <1> DEFINE no == FALSE
  <1>1. /\ TypeOK /\ no \in BOOLEAN /\ ~no
        /\ call' = [c \in CallIds |-> [call[c] EXCEPT !.alone = no]]
        /\ UNCHANGED <<mirror, manifest, index, head, remote>>
        /\ files' \in [Paths -> Value] /\ events' \in Nat
    BY DEF IInv, TypeOK, OutOfBand, Charge
  <1> HIDE DEF no
  <1>2. ASSUME NEW c \in CallIds
        PROVE  /\ call'[c] \in Call
               /\ call'[c].stage = call[c].stage /\ call'[c].op = call[c].op
               /\ call'[c].path = call[c].path /\ call'[c].statted = call[c].statted
               /\ call'[c].touched = call[c].touched
               /\ ~call'[c].alone /\ call'[c].swept = call[c].swept
    <2>1. PICK q \in Call : q = [call[c] EXCEPT !.alone = no]
      BY <1>1, SetAlone DEF TypeOK
    <2>2. /\ q.stage = call[c].stage /\ q.op = call[c].op /\ q.path = call[c].path
          /\ q.statted = call[c].statted /\ q.touched = call[c].touched /\ ~q.alone
          /\ q.swept = call[c].swept
      BY <1>1, <2>1, SMT DEF Call, TypeOK
    <2> QED
      BY <1>1, <2>1, <2>2
  <1>3. TypeOK'
    BY <1>1, <1>2 DEF TypeOK
  <1>4. ASSUME NEW c \in CallIds
        PROVE  Fits(c)' /\ EndsWell(c)
    <2>1. Fits(c) /\ \A d \in CallIds : InFlight(d)' <=> InFlight(d)
      BY <1>2 DEF IInv, Fits, InFlight
    <2>2. CompanyIsKnown(c)'
      BY <1>2, <2>1 DEF Fits, CompanyIsKnown
    <2>3. StageFits(c)' /\ StagedFits(c)' /\ EntryFits(c)' /\ SweepFits(c)'
      BY <1>1, <1>2, <2>1 DEF Fits, StageFits, StagedFits, EntryFits, SweepFits
    <2>4. EndsWell(c)
      BY <1>2 DEF EndsWell, Ends, InFlight
    <2> QED
      BY <2>2, <2>3, <2>4 DEF Fits
  <1> QED
    BY <1>3, <1>4 DEF Good, IInv, Fits

\* A restart ends every call without an answer, and keeps the repository.
LEMMA RestartIsGood ==
    ASSUME IInv, Restart
    PROVE  Good
  <1> DEFINE no == FALSE
  <1>1. TypeOK /\ no \in BOOLEAN /\ ~no /\ events' \in Nat
    <2>1. events' = events + 1
      BY DEF Restart, Charge
    <2> QED
      BY <2>1 DEF IInv, TypeOK
  <1>2. /\ call' = [c \in CallIds |-> IF InFlight(c) THEN [call[c] EXCEPT !.stage = "over", !.committed = no]
                                      ELSE call[c]]
        /\ UNCHANGED <<files, mirror, manifest, index, head, remote>>
    BY DEF Restart
  <1> HIDE DEF no
  <1>3. ASSUME NEW c \in CallIds
        PROVE  /\ call'[c] \in Call /\ ~InFlight(c)'
               /\ InFlight(c) => ~call'[c].committed
               /\ ~InFlight(c) => call'[c] = call[c]
    <2>1. call[c] \in Call
      BY <1>1 DEF TypeOK
    <2>2. CASE InFlight(c)
      <3>1. PICK q \in Call : q = [call[c] EXCEPT !.stage = "over", !.committed = no]
        BY <1>1, <2>1, SetStage, SetCommitted DEF Stages
      <3>2. q.stage = "over" /\ ~q.committed
        BY <1>1, <2>1, <3>1, SMT DEF Call
      <3> QED
        BY <1>1, <1>2, <2>2, <3>1, <3>2 DEF InFlight
    <2>3. CASE ~InFlight(c)
      BY <1>1, <1>2, <2>3 DEF InFlight, TypeOK
    <2> QED
      BY <2>2, <2>3
  <1>4. TypeOK'
    BY <1>1, <1>2, <1>3 DEF TypeOK
  <1>5. ASSUME NEW c \in CallIds
        PROVE  Fits(c)' /\ EndsWell(c)
    <2>1. call'[c].stage \in {"idle", "over"} /\ Fits(c)
      BY <1>3 DEF InFlight, IInv, Fits
    <2>2. Fits(c)'
      BY <1>3, <2>1 DEF Fits, StageFits, CompanyIsKnown, StagedFits, EntryFits, SweepFits
    <2>3. EndsWell(c)
      BY <1>1, <1>2, <1>3, <2>1 DEF Fits, EntryFits, EndsWell, Ends
    <2> QED
      BY <2>2, <2>3
  <1> QED
    BY <1>4, <1>5 DEF Good, IInv, Fits

----------------------------------------------------------------------------
(* The theorems *)

LEMMA InitIInv == Init => IInv
  <1> SUFFICES ASSUME Init PROVE IInv
    OBVIOUS
  <1>1. head \in Tree /\ mirror \in [Paths -> Value] /\ manifest \in SUBSET Paths
    BY DEF Init, Tree, Empty, Value
  <1>2. TypeOK
    BY <1>1, NoCallType DEF Init, TypeOK
  <1>3. \A c \in CallIds : call[c].stage = "idle"
    BY DEF Init, NoCall
  <1> QED
    BY <1>2, <1>3 DEF IInv, StageFits, CompanyIsKnown, StagedFits, EntryFits, SweepFits, InFlight

LEMMA NextIsGood == IInv /\ [Next]_vars => Good
  <1> SUFFICES ASSUME IInv, [Next]_vars PROVE Good
    OBVIOUS
  <1>1. CASE UNCHANGED vars
    <2>1. IInv'
      BY <1>1 DEF vars, IInv, TypeOK, StageFits, CompanyIsKnown, StagedFits, EntryFits, SweepFits,
                  InFlight
    <2>2. \A c \in CallIds : EndsWell(c)
      BY <1>1 DEF vars, EndsWell, Ends, InFlight
    <2> QED
      BY <2>1, <2>2 DEF Good
  <1>2. CASE \E c \in CallIds, p \in Paths, v \in Contents : Mutate(c, p, v)
    BY <1>2, MutateIsGood
  <1>3. CASE \E c \in CallIds : MirrorMutation(c) \/ Sweep(c) \/ Land(c) \/ Diff(c)
    BY <1>3, MirrorMutationIsGood, SweepIsGood, LandIsGood, DiffIsGood
  <1>4. CASE \E c \in CallIds, p \in Paths : Fetch(c, p)
    BY <1>4, FetchIsGood
  <1>5. CASE \E c \in CallIds, fails \in BOOLEAN :
                Stat(c, fails) \/ Enumerate(c, fails) \/ HashAndDiff(c, fails) \/ StatBatch(c, fails)
    BY <1>5, StatIsGood, EnumerateIsGood, HashAndDiffIsGood, StatBatchIsGood
  <1>6. CASE \E c \in CallIds, fails \in BOOLEAN : Add(c, fails) \/ Commit(c, fails) \/ Push(c, fails)
    BY <1>6, AddIsGood, CommitIsGood, PushIsGood
  <1>7. CASE \E p \in Paths, v \in Value : OutOfBand(p, v)
    BY <1>7, OutOfBandIsGood
  <1>8. CASE Restart
    BY <1>8, RestartIsGood
  <1> QED
    BY <1>1, <1>2, <1>3, <1>4, <1>5, <1>6, <1>7, <1>8 DEF Next

\* Calls know of each other, and what a call has staged, entered or fetched is where it put it.
THEOREM Invariance == Spec => []IInv
  <1>1. IInv /\ [Next]_vars => IInv'
    BY NextIsGood DEF Good
  <1> QED
    BY <1>1, InitIInv, PTL DEF Spec

\* Every reachable state of the repository, of the files and of the calls is well-formed.
THEOREM TypeCorrect == Spec => []TypeOK
  <1>1. IInv => TypeOK
    BY DEF IInv
  <1> QED
    BY <1>1, Invariance, PTL

\* A commit that answers true, of a mutation or of a sweep, has every file in HEAD as the
\* mirror has it, for any number of calls at once and any restarts and failures before it.
THEOREM CommitsCover == Spec => CommitCoversMirror
  <1>1. IInv /\ [Next]_vars
        => [\A c \in CallIds :
              Ends(c) /\ call'[c].committed =>
                 \A p \in Paths \ call[c].touched : head'.mirror[p] = mirror'[p]]_vars
    BY NextIsGood DEF Good, EndsWell
  <1> QED
    BY <1>1, Invariance, PTL DEF Spec, CommitCoversMirror

\* A sweep that was alone and had no failure leaves HEAD with the files of the node, from
\* whatever state of the repository it found.
THEOREM SweepsConverge == Spec => SweepConverges
  <1>1. IInv /\ [Next]_vars
        => [\A c \in CallIds :
              Ends(c) /\ call[c].op = "sweep" /\ call[c].alone /\ call'[c].committed =>
                 head'.mirror = files]_vars
    BY NextIsGood DEF Good, EndsWell
  <1> QED
    BY <1>1, Invariance, PTL DEF Spec, SweepConverges

\* No number of other mutations takes back the manifest entry of one.
THEOREM EntriesStay == Spec => ManifestKept
  <1>1. IInv /\ [Next]_vars
        => [\A c \in CallIds :
              Ends(c) /\ call[c].op = "mutate" /\ call[c].statted /\ ~call[c].swept
              => call[c].path \in manifest']_vars
    BY NextIsGood DEF Good, EndsWell
  <1> QED
    BY <1>1, Invariance, PTL DEF Spec, ManifestKept

=============================================================================
