------------------------- MODULE GuestFiles_proofs -------------------------
(***************************************************************************)
(* Proofs about GuestFiles for any number of calls on one file, every      *)
(* route to it and every failure of a command: the inductive invariant,    *)
(* the two properties that follow from it, and the refinement of           *)
(* FileChannel.                                                            *)
(*                                                                         *)
(* Every action of a call is shown to be Good: it keeps what the invariant *)
(* says of the call, leaves the other calls as they were or tells them     *)
(* that they are overtaken, and is a step of the channel.                  *)
(***************************************************************************)
EXTENDS GuestFiles, TLAPS

----------------------------------------------------------------------------
(* What a step of one call leaves of the others *)

\* What the invariant says of c.
Fits(c) == StageFits(c) /\ TempsFit(c) /\ ReadFits(c) /\ WriteFits(c) /\ PermsFit(c)

\* The step changes nothing of the other calls.
Keeps(c) ==
    /\ route' = route
    /\ \A d \in CallIds \ {c} : nodeTemp'[d] = nodeTemp[d] /\ lxcTemp'[d] = lxcTemp[d]
    /\ \/ file' = file /\ \A d \in CallIds \ {c} : call'[d] = call[d]
       \/ \A d \in CallIds \ {c} : call'[d] = [call[d] EXCEPT !.touched = @ \/ InFlight(d)]

LEMMA BecomesIs ==
    ASSUME call \in [CallIds -> Call], NEW c \in CallIds, NEW o \in Outcomes, NEW rec \in Call,
           Becomes(c, o, rec)
    PROVE  /\ call' \in [CallIds -> Call]
           /\ call'[c] = [rec EXCEPT !.shaky = @ \/ o = "exit"]
           /\ \A d \in CallIds \ {c} : call'[d] = call[d]
  <1> DEFINE q == [rec EXCEPT !.shaky = @ \/ o = "exit"]
             b == rec.shaky \/ o = "exit"
  <1>1. b \in BOOLEAN
    OBVIOUS
  <1>2. q \in Call
    <2>1. q = [rec EXCEPT !.shaky = b]
      OBVIOUS
    <2> HIDE DEF b, q
    <2> QED
      BY <1>1, <2>1, SMT DEF Call
  <1>3. call' = [call EXCEPT ![c] = q]
    BY DEF Becomes
  <1> HIDE DEF q
  <1>4. call' \in [CallIds -> Call] /\ call'[c] = q /\ \A d \in CallIds \ {c} : call'[d] = call[d]
    BY <1>2, <1>3
  <1> QED
    BY <1>4 DEF q

LEMMA OthersStay ==
    ASSUME IInv, NEW c \in CallIds, TypeOK', Keeps(c), Fits(c)'
    PROVE  IInv'
  <1>1. ASSUME NEW d \in CallIds \ {c}, file' = file, call'[d] = call[d]
        PROVE  Fits(d)'
    <2>1. Fits(d) /\ route' = route /\ nodeTemp'[d] = nodeTemp[d] /\ lxcTemp'[d] = lxcTemp[d]
      BY DEF IInv, Keeps, Fits
    <2> QED
      BY <2>1, <1>1 DEF Fits, StageFits, TempsFit, ReadFits, WriteFits, PermsFit, InFlight
  <1>2. ASSUME NEW d \in CallIds \ {c}, call'[d] = [call[d] EXCEPT !.touched = @ \/ InFlight(d)]
        PROVE  Fits(d)'
    <2>1. Fits(d) /\ route' = route /\ nodeTemp'[d] = nodeTemp[d] /\ lxcTemp'[d] = lxcTemp[d]
          /\ call[d] \in Call
      BY DEF IInv, Keeps, Fits, TypeOK
    <2>2. CASE ~InFlight(d)
      <3>1. call'[d] = call[d]
        BY <2>1, <2>2, <1>2, SMT DEF Call
      <3> QED
        BY <2>1, <2>2, <3>1 DEF Fits, StageFits, TempsFit, ReadFits, WriteFits, PermsFit, InFlight
    <2>3. CASE InFlight(d)
      <3> DEFINE q == call'[d]
      <3>1. /\ q.op = call[d].op /\ q.stage = call[d].stage /\ q.leg = call[d].leg
            /\ q.err = call[d].err /\ q.new = call[d].new /\ q.got = call[d].got
            /\ q.sample = call[d].sample /\ q.wrote = call[d].wrote
            /\ q.leaked = call[d].leaked /\ q.touched = TRUE
        <4>1. q = [call[d] EXCEPT !.touched = TRUE]
          BY <1>2, <2>3
        <4> HIDE DEF q
        <4> QED
          BY <2>1, <4>1, SMT DEF Call
      <3> QED
        BY <2>1, <2>3, <3>1 DEF Fits, StageFits, TempsFit, ReadFits, WriteFits, PermsFit, InFlight
    <2> QED
      BY <2>2, <2>3
  <1> QED
    BY <1>1, <1>2 DEF IInv, Fits, Keeps
----------------------------------------------------------------------------
(* The channel *)

\* What a step of c is to the channel, call by call.
Moves(c) ==
    /\ call[c].shaky => call'[c].shaky
    /\ \/ /\ Phase(c)' = Phase(c) /\ Seen(c)' = Seen(c) /\ Put(c)' = Put(c)
          /\ file'.data = file.data
       \/ /\ Phase(c) = "idle" /\ Phase(c)' = "reading" /\ Seen(c)' = Seen(c)
          /\ Put(c)' \in Contents \cup {Unread} /\ file'.data = file.data
       \/ /\ Phase(c) = "reading" /\ Phase(c)' = Phase(c) /\ Put(c)' = Put(c)
          /\ file'.data = file.data
          /\ \/ Seen(c) = Unread /\ Seen(c)' = file.data
             \/ call'[c].shaky /\ Seen(c)' = None
       \/ /\ Phase(c) = "reading" /\ Seen(c) # Unread /\ Put(c) # Unread
          /\ file'.data = Put(c) /\ Phase(c)' \in {"written", "failed"}
          /\ Seen(c)' = Seen(c) /\ Put(c)' = Put(c)
       \/ /\ Phase(c) = (IF Put(c) = Unread THEN "reading" ELSE "written") /\ Seen(c) # Unread
          /\ Phase(c)' = "ok" /\ Seen(c)' = Seen(c) /\ Put(c)' = Put(c)
          /\ file'.data = file.data
       \/ /\ Phase(c) \in {"reading", "written"} /\ Phase(c)' = "failed"
          /\ Seen(c)' = Seen(c) /\ Put(c)' = Put(c) /\ file'.data = file.data

LEMMA OthersAreStill ==
    ASSUME TypeOK, NEW c \in CallIds, NEW d \in CallIds \ {c}, Keeps(c)
    PROVE  /\ Phase(d)' = Phase(d) /\ Seen(d)' = Seen(d) /\ Put(d)' = Put(d)
           /\ call'[d].shaky = call[d].shaky
  <1> DEFINE q == call'[d]
  <1>1. /\ q.op = call[d].op /\ q.stage = call[d].stage /\ q.new = call[d].new
        /\ q.got = call[d].got /\ q.sample = call[d].sample /\ q.wrote = call[d].wrote
        /\ q.shaky = call[d].shaky
    <2>1. CASE call'[d] = call[d]
      BY <2>1
    <2>2. CASE call'[d] = [call[d] EXCEPT !.touched = @ \/ InFlight(d)]
      <3> DEFINE b == call[d].touched \/ InFlight(d)
      <3>1. q = [call[d] EXCEPT !.touched = b] /\ call[d] \in Call
        BY <2>2 DEF TypeOK
      <3> HIDE DEF q, b
      <3> QED
        BY <3>1, SMT DEF Call
    <2> QED
      BY <2>1, <2>2 DEF Keeps
  <1> QED
    BY <1>1 DEF Phase, Seen, Put

LEMMA AStepOfTheChannel ==
    ASSUME TypeOK, NEW c \in CallIds, Keeps(c), Moves(c)
    PROVE  [Channel!Next]_Channel!vars
  <1> DEFINE gots == [d \in CallIds |-> Seen(d)]
             phases == [d \in CallIds |-> Phase(d)]
             puts == [d \in CallIds |-> Put(d)]
             shakies == {d \in CallIds : call[d].shaky}
  <1>1. \A d \in CallIds \ {c} : /\ Phase(d)' = Phase(d) /\ Seen(d)' = Seen(d) /\ Put(d)' = Put(d)
                                 /\ call'[d].shaky = call[d].shaky
    BY OthersAreStill
  <1>2. shakies \subseteq shakies'
    BY <1>1 DEF Moves
  <1>3. /\ gots' = [gots EXCEPT ![c] = Seen(c)']
        /\ phases' = [phases EXCEPT ![c] = Phase(c)']
        /\ puts' = [puts EXCEPT ![c] = Put(c)']
    BY <1>1
  <1>4. gots[c] = Seen(c) /\ phases[c] = Phase(c) /\ puts[c] = Put(c) /\ (c \in shakies' <=> call'[c].shaky)
    OBVIOUS
  <1>5. /\ Phase(c)' = Phase(c) => phases' = phases
        /\ Seen(c)' = Seen(c) => gots' = gots
        /\ Put(c)' = Put(c) => puts' = puts
    BY <1>1
  <1>6. file.data \in Contents \cup {None}
    BY DEF TypeOK, File
  <1>7. CASE /\ Phase(c)' = Phase(c) /\ Seen(c)' = Seen(c) /\ Put(c)' = Put(c)
             /\ file'.data = file.data
    <2>1. Channel!OutOfBand
      BY <1>5, <1>6, <1>7 DEF Channel!OutOfBand
    <2> QED
      BY <1>2, <2>1 DEF Channel!Next
  <1>8. CASE /\ Phase(c) = "idle" /\ Phase(c)' = "reading" /\ Seen(c)' = Seen(c)
             /\ Put(c)' \in Contents \cup {Unread} /\ file'.data = file.data
    <2>1. Channel!Begin(c)
      BY <1>3, <1>4, <1>5, <1>8 DEF Channel!Begin
    <2> QED
      BY <1>2, <2>1 DEF Channel!Next
  <1>9. CASE /\ Phase(c) = "reading" /\ Phase(c)' = Phase(c) /\ Put(c)' = Put(c)
             /\ file'.data = file.data
             /\ \/ Seen(c) = Unread /\ Seen(c)' = file.data
                \/ call'[c].shaky /\ Seen(c)' = None
    <2>1. CASE Seen(c) = Unread /\ Seen(c)' = file.data
      <3>1. Channel!Sample(c)
        BY <1>3, <1>4, <1>5, <1>9, <2>1 DEF Channel!Sample
      <3> QED
        BY <1>2, <3>1 DEF Channel!Next
    <2>2. CASE call'[c].shaky /\ Seen(c)' = None
      <3>1. Channel!Miss(c)
        BY <1>3, <1>4, <1>5, <1>9, <2>2 DEF Channel!Miss
      <3> QED
        BY <1>2, <3>1 DEF Channel!Next
    <2> QED
      BY <1>9, <2>1, <2>2
  <1>10. CASE /\ Phase(c) = "reading" /\ Seen(c) # Unread /\ Put(c) # Unread
              /\ file'.data = Put(c) /\ Phase(c)' \in {"written", "failed"}
              /\ Seen(c)' = Seen(c) /\ Put(c)' = Put(c)
    <2>1. Channel!Replace(c)
      BY <1>3, <1>4, <1>5, <1>10 DEF Channel!Replace
    <2> QED
      BY <1>2, <2>1 DEF Channel!Next
  <1>11. CASE /\ Phase(c) = (IF Put(c) = Unread THEN "reading" ELSE "written") /\ Seen(c) # Unread
              /\ Phase(c)' = "ok" /\ Seen(c)' = Seen(c) /\ Put(c)' = Put(c)
              /\ file'.data = file.data
    <2>1. Channel!Succeed(c)
      BY <1>3, <1>4, <1>5, <1>11 DEF Channel!Succeed
    <2> QED
      BY <1>2, <2>1 DEF Channel!Next
  <1>12. CASE /\ Phase(c) \in {"reading", "written"} /\ Phase(c)' = "failed"
              /\ Seen(c)' = Seen(c) /\ Put(c)' = Put(c) /\ file'.data = file.data
    <2>1. Channel!Fail(c)
      BY <1>3, <1>4, <1>5, <1>12 DEF Channel!Fail
    <2> QED
      BY <1>2, <2>1 DEF Channel!Next
  <1> QED
    BY <1>7, <1>8, <1>9, <1>10, <1>11, <1>12 DEF Moves
----------------------------------------------------------------------------
(* The progress of a call *)

\* The fields that only the beginning of a call, or another call, sets.
Carried(q, r) == q.op = r.op /\ q.new = r.new /\ q.before = r.before /\ q.touched = r.touched

\* How far the write is, and what has leaked.
WriteStays(q, r) ==
    /\ q.leg = r.leg /\ q.keep = r.keep /\ q.note = r.note /\ q.wrote = r.wrote

ReadStays(q, r) == q.sample = r.sample /\ q.got = r.got

\* The step leads c to q and leaves the other calls.
Leads(c, o, q) ==
    /\ call' \in [CallIds -> Call]
    /\ q = call'[c] /\ q \in Call
    /\ \A d \in CallIds \ {c} : call'[d] = call[d]
    /\ q.shaky = (call[c].shaky \/ o = "exit")

LEMMA StepIs ==
    ASSUME TypeOK, NEW c \in CallIds, NEW o \in Outcomes, NEW rec \in Call,
           rec.shaky = call[c].shaky, Becomes(c, o, rec)
    PROVE  LET q == call'[c]
           IN /\ Leads(c, o, q) /\ Carried(q, rec) /\ WriteStays(q, rec) /\ ReadStays(q, rec)
              /\ q.stage = rec.stage /\ q.err = rec.err /\ q.leaked = rec.leaked
  <1> DEFINE b == rec.shaky \/ o = "exit"
  <1>1. /\ call' \in [CallIds -> Call] /\ call'[c] = [rec EXCEPT !.shaky = b]
        /\ \A d \in CallIds \ {c} : call'[d] = call[d]
    BY BecomesIs DEF TypeOK
  <1>2. b \in BOOLEAN
    OBVIOUS
  <1> HIDE DEF b
  <1>3. PICK q \in Call : q = call'[c]
    BY <1>1
  <1>4. q = [rec EXCEPT !.shaky = b]
    BY <1>1, <1>3
  <1>5. /\ Carried(q, rec) /\ WriteStays(q, rec) /\ ReadStays(q, rec)
        /\ q.stage = rec.stage /\ q.err = rec.err /\ q.leaked = rec.leaked /\ q.shaky = b
    BY <1>2, <1>4, SMT DEF Call, Carried, WriteStays, ReadStays
  <1> QED
    BY <1>1, <1>3, <1>5 DEF Leads, b

\* A record with one field changed.
LEMMA SetStage == ASSUME NEW r \in Call, NEW v \in Stages PROVE [r EXCEPT !.stage = v] \in Call
  BY SMT DEF Call

LEMMA SetLeg == ASSUME NEW r \in Call, NEW v \in {"in", "out"} PROVE [r EXCEPT !.leg = v] \in Call
  BY SMT DEF Call

LEMMA SetErr == ASSUME NEW r \in Call, NEW v \in BOOLEAN PROVE [r EXCEPT !.err = v] \in Call
  BY SMT DEF Call

LEMMA SetSample == ASSUME NEW r \in Call, NEW v \in Contents \cup {None, Unread} PROVE [r EXCEPT !.sample = v] \in Call
  BY SMT DEF Call

LEMMA SetGot == ASSUME NEW r \in Call, NEW v \in Contents \cup {None, Unread} PROVE [r EXCEPT !.got = v] \in Call
  BY SMT DEF Call

LEMMA SetKeep == ASSUME NEW r \in Call, NEW v \in Perms \cup {Lost} PROVE [r EXCEPT !.keep = v] \in Call
  BY SMT DEF Call

LEMMA SetNote == ASSUME NEW r \in Call, NEW v \in BOOLEAN PROVE [r EXCEPT !.note = v] \in Call
  BY SMT DEF Call

LEMMA SetWrote == ASSUME NEW r \in Call, NEW v \in BOOLEAN PROVE [r EXCEPT !.wrote = v] \in Call
  BY SMT DEF Call

LEMMA SetLeaked == ASSUME NEW r \in Call, NEW v \in BOOLEAN PROVE [r EXCEPT !.leaked = v] \in Call
  BY SMT DEF Call

LEMMA SetShaky == ASSUME NEW r \in Call, NEW v \in BOOLEAN PROVE [r EXCEPT !.shaky = v] \in Call
  BY SMT DEF Call

LEMMA SetTouched == ASSUME NEW r \in Call, NEW v \in BOOLEAN PROVE [r EXCEPT !.touched = v] \in Call
  BY SMT DEF Call

\* The shapes of a step, each with what it sets.
Reads(c, o, s, m, g) ==
    Becomes(c, o, [call[c] EXCEPT !.sample = m, !.got = g, !.stage = s])

Samples(c, o, s, e, m) ==
    Becomes(c, o, [call[c] EXCEPT !.sample = m, !.err = e, !.stage = s])

Gets(c, o, s, g) ==
    Becomes(c, o, [call[c] EXCEPT !.got = g, !.stage = s])

Moved(c, o, s, x) ==
    Becomes(c, o, [call[c] EXCEPT !.stage = s, !.leaked = x])

MovedBadly(c, o, s, x) ==
    Becomes(c, o, [call[c] EXCEPT !.err = TRUE, !.stage = s, !.leaked = x])

LEMMA StageStep ==
    ASSUME TypeOK, NEW c \in CallIds, NEW o \in Outcomes, NEW s \in Stages, Goes(c, o, s)
    PROVE  LET q == call'[c] r == call[c]
           IN /\ Leads(c, o, q) /\ Carried(q, r) /\ WriteStays(q, r)
              /\ q.stage = s /\ q.err = r.err /\ q.leaked = r.leaked /\ q.sample = r.sample /\ q.got = r.got
  <1>1. PICK r \in Call : r = call[c]
    BY DEF TypeOK
  <1>2. [r EXCEPT !.stage = s] \in Call
    BY SetStage
  <1>3. PICK rec \in Call : rec = [r EXCEPT !.stage = s]
    BY <1>2
  <1>4. /\ Carried(rec, r) /\ WriteStays(rec, r) /\ rec.shaky = r.shaky
        /\ rec.stage = s /\ rec.err = r.err /\ rec.leaked = r.leaked /\ rec.sample = r.sample /\ rec.got = r.got
    BY <1>3, SMT DEF Call, Carried, WriteStays
  <1>5. Becomes(c, o, rec)
    BY <1>1, <1>3 DEF Goes
  <1> QED
    BY <1>1, <1>4, <1>5, StepIs DEF Carried, WriteStays, ReadStays

LEMMA UnwindStep ==
    ASSUME TypeOK, NEW c \in CallIds, NEW o \in Outcomes, NEW s \in Stages, Unwinds(c, o, s)
    PROVE  LET q == call'[c] r == call[c]
           IN /\ Leads(c, o, q) /\ Carried(q, r) /\ WriteStays(q, r)
              /\ q.stage = s /\ q.err = TRUE /\ q.leaked = r.leaked /\ q.sample = r.sample /\ q.got = r.got
  <1>1. PICK r \in Call : r = call[c]
    BY DEF TypeOK
  <1>2. [r EXCEPT !.err = TRUE, !.stage = s] \in Call
    BY SetErr, SetStage
  <1>3. PICK rec \in Call : rec = [r EXCEPT !.err = TRUE, !.stage = s]
    BY <1>2
  <1>4. /\ Carried(rec, r) /\ WriteStays(rec, r) /\ rec.shaky = r.shaky
        /\ rec.stage = s /\ rec.err = TRUE /\ rec.leaked = r.leaked /\ rec.sample = r.sample /\ rec.got = r.got
    BY <1>3, SMT DEF Call, Carried, WriteStays
  <1>5. Becomes(c, o, rec)
    BY <1>1, <1>3 DEF Unwinds
  <1> QED
    BY <1>1, <1>4, <1>5, StepIs DEF Carried, WriteStays, ReadStays

LEMMA ReadStep ==
    ASSUME TypeOK, NEW c \in CallIds, NEW o \in Outcomes, NEW s \in Stages,
           NEW m \in Contents \cup {None, Unread}, NEW g \in Contents \cup {None, Unread},
           Reads(c, o, s, m, g)
    PROVE  LET q == call'[c] r == call[c]
           IN /\ Leads(c, o, q) /\ Carried(q, r) /\ WriteStays(q, r)
              /\ q.stage = s /\ q.err = r.err /\ q.leaked = r.leaked /\ q.sample = m /\ q.got = g
  <1>1. PICK r \in Call : r = call[c]
    BY DEF TypeOK
  <1>2. [r EXCEPT !.sample = m, !.got = g, !.stage = s] \in Call
    BY SetSample, SetGot, SetStage
  <1>3. PICK rec \in Call : rec = [r EXCEPT !.sample = m, !.got = g, !.stage = s]
    BY <1>2
  <1>4. /\ Carried(rec, r) /\ WriteStays(rec, r) /\ rec.shaky = r.shaky
        /\ rec.stage = s /\ rec.err = r.err /\ rec.leaked = r.leaked /\ rec.sample = m /\ rec.got = g
    BY <1>3, SMT DEF Call, Carried, WriteStays
  <1>5. Becomes(c, o, rec)
    BY <1>1, <1>3 DEF Reads
  <1> QED
    BY <1>1, <1>4, <1>5, StepIs DEF Carried, WriteStays, ReadStays

LEMMA SampleStep ==
    ASSUME TypeOK, NEW c \in CallIds, NEW o \in Outcomes, NEW s \in Stages, NEW e \in BOOLEAN,
           NEW m \in Contents \cup {None, Unread},
           Samples(c, o, s, e, m)
    PROVE  LET q == call'[c] r == call[c]
           IN /\ Leads(c, o, q) /\ Carried(q, r) /\ WriteStays(q, r)
              /\ q.stage = s /\ q.err = e /\ q.leaked = r.leaked /\ q.sample = m /\ q.got = r.got
  <1>1. PICK r \in Call : r = call[c]
    BY DEF TypeOK
  <1>2. [r EXCEPT !.sample = m, !.err = e, !.stage = s] \in Call
    BY SetSample, SetErr, SetStage
  <1>3. PICK rec \in Call : rec = [r EXCEPT !.sample = m, !.err = e, !.stage = s]
    BY <1>2
  <1>4. /\ Carried(rec, r) /\ WriteStays(rec, r) /\ rec.shaky = r.shaky
        /\ rec.stage = s /\ rec.err = e /\ rec.leaked = r.leaked /\ rec.sample = m /\ rec.got = r.got
    BY <1>3, SMT DEF Call, Carried, WriteStays
  <1>5. Becomes(c, o, rec)
    BY <1>1, <1>3 DEF Samples
  <1> QED
    BY <1>1, <1>4, <1>5, StepIs DEF Carried, WriteStays, ReadStays

LEMMA GotStep ==
    ASSUME TypeOK, NEW c \in CallIds, NEW o \in Outcomes, NEW s \in Stages, NEW g \in Contents \cup {None, Unread},
           Gets(c, o, s, g)
    PROVE  LET q == call'[c] r == call[c]
           IN /\ Leads(c, o, q) /\ Carried(q, r) /\ WriteStays(q, r)
              /\ q.stage = s /\ q.err = r.err /\ q.leaked = r.leaked /\ q.sample = r.sample /\ q.got = g
  <1>1. PICK r \in Call : r = call[c]
    BY DEF TypeOK
  <1>2. [r EXCEPT !.got = g, !.stage = s] \in Call
    BY SetGot, SetStage
  <1>3. PICK rec \in Call : rec = [r EXCEPT !.got = g, !.stage = s]
    BY <1>2
  <1>4. /\ Carried(rec, r) /\ WriteStays(rec, r) /\ rec.shaky = r.shaky
        /\ rec.stage = s /\ rec.err = r.err /\ rec.leaked = r.leaked /\ rec.sample = r.sample /\ rec.got = g
    BY <1>3, SMT DEF Call, Carried, WriteStays
  <1>5. Becomes(c, o, rec)
    BY <1>1, <1>3 DEF Gets
  <1> QED
    BY <1>1, <1>4, <1>5, StepIs DEF Carried, WriteStays, ReadStays

LEMMA TempStep ==
    ASSUME TypeOK, NEW c \in CallIds, NEW o \in Outcomes, NEW s \in Stages, NEW x \in BOOLEAN,
           Moved(c, o, s, x)
    PROVE  LET q == call'[c] r == call[c]
           IN /\ Leads(c, o, q) /\ Carried(q, r) /\ WriteStays(q, r)
              /\ q.stage = s /\ q.err = r.err /\ q.leaked = x /\ q.sample = r.sample /\ q.got = r.got
  <1>1. PICK r \in Call : r = call[c]
    BY DEF TypeOK
  <1>2. [r EXCEPT !.stage = s, !.leaked = x] \in Call
    BY SetStage, SetLeaked
  <1>3. PICK rec \in Call : rec = [r EXCEPT !.stage = s, !.leaked = x]
    BY <1>2
  <1>4. /\ Carried(rec, r) /\ WriteStays(rec, r) /\ rec.shaky = r.shaky
        /\ rec.stage = s /\ rec.err = r.err /\ rec.leaked = x /\ rec.sample = r.sample /\ rec.got = r.got
    BY <1>3, SMT DEF Call, Carried, WriteStays
  <1>5. Becomes(c, o, rec)
    BY <1>1, <1>3 DEF Moved
  <1> QED
    BY <1>1, <1>4, <1>5, StepIs DEF Carried, WriteStays, ReadStays

LEMMA TempFails ==
    ASSUME TypeOK, NEW c \in CallIds, NEW o \in Outcomes, NEW s \in Stages, NEW x \in BOOLEAN,
           MovedBadly(c, o, s, x)
    PROVE  LET q == call'[c] r == call[c]
           IN /\ Leads(c, o, q) /\ Carried(q, r) /\ WriteStays(q, r)
              /\ q.stage = s /\ q.err = TRUE /\ q.leaked = x /\ q.sample = r.sample /\ q.got = r.got
  <1>1. PICK r \in Call : r = call[c]
    BY DEF TypeOK
  <1>2. [r EXCEPT !.err = TRUE, !.stage = s, !.leaked = x] \in Call
    BY SetErr, SetStage, SetLeaked
  <1>3. PICK rec \in Call : rec = [r EXCEPT !.err = TRUE, !.stage = s, !.leaked = x]
    BY <1>2
  <1>4. /\ Carried(rec, r) /\ WriteStays(rec, r) /\ rec.shaky = r.shaky
        /\ rec.stage = s /\ rec.err = TRUE /\ rec.leaked = x /\ rec.sample = r.sample /\ rec.got = r.got
    BY <1>3, SMT DEF Call, Carried, WriteStays
  <1>5. Becomes(c, o, rec)
    BY <1>1, <1>3 DEF MovedBadly
  <1> QED
    BY <1>1, <1>4, <1>5, StepIs DEF Carried, WriteStays, ReadStays

----------------------------------------------------------------------------
(* The actions *)

Good(c) == TypeOK' /\ Keeps(c) /\ Fits(c)' /\ Moves(c)

LEMMA ProbeIsGood ==
    ASSUME IInv, NEW c \in CallIds, NEW o \in Outcomes, Probe(c, o)
    PROVE  Good(c)
  <1> DEFINE r == call[c]
             q == call'[c]
             s == IF route = "relay" THEN "rmLxc" ELSE "decide"
  <1>1. r \in Call /\ TypeOK /\ Fits(c) /\ r.stage = "probe" /\ UNCHANGED <<route, up, file, nodeTemp, lxcTemp>>
    BY DEF IInv, TypeOK, Fits, Probe, At
  <1>2. Outer(c) \in Stages /\ s \in Stages /\ "mkTemp" \in Stages /\ None \in Contents \cup {None, Unread}
    BY DEF Outer, Stages
  <1>3. /\ Leads(c, o, q) /\ Carried(q, r) /\ WriteStays(q, r) /\ q.leaked = r.leaked
        /\ \/ q.err = TRUE /\ q.stage = Outer(c) /\ ReadStays(q, r)
           \/ /\ o = "exit" \/ (o = "done" /\ Source(c) = None)
              /\ q.err = r.err /\ q.stage = s /\ q.sample = None /\ q.got = None
           \/ q.err = r.err /\ q.stage = "mkTemp" /\ ReadStays(q, r)
    <2>1. CASE Unwinds(c, o, Outer(c))
      BY <1>1, <1>2, <2>1, UnwindStep DEF ReadStays
    <2>2. CASE /\ o = "exit" \/ (o = "done" /\ Source(c) = None)
               /\ Becomes(c, o, [r EXCEPT !.sample = None, !.got = None, !.stage = s])
      <3>1. Reads(c, o, s, None, None)
        BY <2>2 DEF Reads
      <3> HIDE DEF s
      <3> QED
        BY <1>1, <1>2, <2>2, <3>1, ReadStep
    <2>3. CASE Goes(c, o, "mkTemp")
      BY <1>1, <1>2, <2>3, StageStep DEF ReadStays
    <2> QED
      BY <2>1, <2>2, <2>3 DEF Probe
  <1>4. TypeOK'
    BY <1>1, <1>3 DEF TypeOK, Leads, Probe, Ends
  <1>5. Keeps(c)
    BY <1>1, <1>3 DEF Keeps, Leads
  <1>6. /\ r.leg = "in" /\ ~r.err /\ r.got = Unread /\ ~r.wrote /\ route # "qm"
        /\ nodeTemp[c] = Gone \/ r.leaked
        /\ route # "relay" => (lxcTemp[c] = Gone \/ r.leaked) /\ r.sample = Unread
        /\ route = "relay" => r.sample = lxcTemp[c] /\ lxcTemp[c] \in Contents
    BY <1>1 DEF Fits, StageFits, TempsFit, ReadFits, WriteFits
  <1>7. Fits(c)'
    <2>1. StageFits(c)'
      BY <1>1, <1>3, <1>6 DEF StageFits, Outer, WriteStays
    <2>2. TempsFit(c)'
      BY <1>1, <1>3, <1>6 DEF TempsFit, Outer
    <2>3. ReadFits(c)'
      BY <1>1, <1>3, <1>6, GuestFilesAssumption DEF ReadFits, Outer, WriteStays, ReadStays
    <2>4. WriteFits(c)'
      BY <1>1, <1>3, <1>6 DEF Fits, WriteFits, Outer, WriteStays, ReadStays, Carried
    <2>5. PermsFit(c)'
      BY <1>1, <1>3, <1>6 DEF Fits, PermsFit, InFlight, Outer, WriteStays, Carried
    <2> QED
      BY <2>1, <2>2, <2>3, <2>4, <2>5 DEF Fits
  <1>8. Moves(c)
    BY <1>1, <1>3, <1>6 DEF Moves, Phase, Seen, Put, Leads, Outer, Carried, WriteStays, ReadStays, Source
  <1> QED
    BY <1>4, <1>5, <1>7, <1>8 DEF Good
\* The checks before the read.
LEMMA CheckIsGood ==
    ASSUME IInv, NEW c \in CallIds, NEW o \in Outcomes, NEW inGuest \in BOOLEAN, NEW next \in Stages,
           call[c].stage \in {"check", "inspect", "hostname"}, Passes(c, o, inGuest, next),
           \/ next = "probe" /\ route \in {"pct", "bind"}
           \/ next = "inspect" /\ route \in Docker
           \/ next = "mkLxc" /\ route = "relay"
           \/ next \in {"hostname", "agentRead"} /\ route = "qm"
    PROVE  Good(c)
  <1> DEFINE r == call[c]
             q == call'[c]
             s == IF o = "done" THEN next ELSE "failed"
  <1>1. r \in Call /\ TypeOK /\ Fits(c) /\ UNCHANGED <<route, up, file, nodeTemp, lxcTemp>>
    BY DEF IInv, TypeOK, Fits, Passes
  <1>2. s \in Stages
    BY DEF Stages
  <1>3. /\ Leads(c, o, q) /\ Carried(q, r) /\ WriteStays(q, r) /\ ReadStays(q, r)
        /\ q.leaked = r.leaked /\ q.err = r.err /\ q.stage \in {next, "failed"}
    <2>1. Goes(c, o, s)
      BY DEF Passes
    <2>2. q.stage = s /\ Leads(c, o, q) /\ Carried(q, r) /\ WriteStays(q, r) /\ ReadStays(q, r)
          /\ q.leaked = r.leaked /\ q.err = r.err
      <3> HIDE DEF s
      <3> QED
        BY <1>1, <1>2, <2>1, StageStep DEF ReadStays
    <2> QED
      BY <2>2
  <1>4. /\ r.leg = "in" /\ ~r.err /\ r.got = Unread /\ r.sample = Unread /\ ~r.wrote
        /\ nodeTemp[c] = Gone \/ r.leaked
        /\ lxcTemp[c] = Gone \/ r.leaked
    BY <1>1 DEF Fits, StageFits, TempsFit, ReadFits, WriteFits
  <1>5. TypeOK'
    BY <1>1, <1>3 DEF TypeOK, Leads, Passes, Ends
  <1>6. Keeps(c)
    BY <1>1, <1>3 DEF Keeps, Leads
  <1>7. Fits(c)'
    <2>1. StageFits(c)'
      BY <1>1, <1>3, <1>4 DEF StageFits, WriteStays, Docker
    <2>2. TempsFit(c)'
      BY <1>1, <1>3, <1>4 DEF TempsFit
    <2>3. ReadFits(c)'
      BY <1>1, <1>3, <1>4 DEF ReadFits, WriteStays, ReadStays
    <2>4. WriteFits(c)'
      BY <1>1, <1>3, <1>4 DEF Fits, WriteFits, WriteStays, ReadStays, Carried
    <2>5. PermsFit(c)'
      BY <1>1, <1>3, <1>4 DEF Fits, PermsFit, InFlight, WriteStays, Carried
    <2> QED
      BY <2>1, <2>2, <2>3, <2>4, <2>5 DEF Fits
  <1>8. Moves(c)
    BY <1>1, <1>3, <1>4 DEF Moves, Phase, Seen, Put, Leads, Carried, WriteStays, ReadStays
  <1> QED
    BY <1>5, <1>6, <1>7, <1>8 DEF Good

\* The ends of a call: an answer, a refusal, the record of a write.
LEMMA EndIsGood ==
    ASSUME IInv, NEW c \in CallIds, NEW next \in {"ok", "failed"}, Goes(c, "done", next),
           UNCHANGED <<route, up, file, nodeTemp, lxcTemp, events>>,
           \/ call[c].stage = "decide" /\ (next = "ok" => call[c].op \in {"read"} \cup Dry)
           \/ call[c].stage = "audit"
    PROVE  Good(c)
  <1> DEFINE r == call[c]
             q == call'[c]
  <1>1. r \in Call /\ TypeOK /\ Fits(c) /\ UNCHANGED <<route, up, file, nodeTemp, lxcTemp>>
    BY DEF IInv, TypeOK, Fits
  <1>2. next \in Stages /\ "done" \in Outcomes
    BY DEF Stages, Outcomes
  <1>3. /\ Leads(c, "done", q) /\ Carried(q, r) /\ WriteStays(q, r) /\ ReadStays(q, r)
        /\ q.leaked = r.leaked /\ q.err = r.err /\ q.stage = next
    BY <1>1, <1>2, StageStep DEF ReadStays
  <1>4. /\ ~r.err /\ (r.wrote <=> r.stage = "audit") /\ r.got # Unread
        /\ r.leg = (IF r.stage = "audit" THEN "out" ELSE "in")
        /\ r.stage = "audit" => r.op \in {"write", "edit"} /\ r.new \in Contents
        /\ nodeTemp[c] = Gone \/ r.leaked
        /\ lxcTemp[c] = Gone \/ r.leaked
    BY <1>1 DEF Fits, StageFits, TempsFit, ReadFits, WriteFits
  <1>5. TypeOK'
    BY <1>1, <1>3 DEF TypeOK, Leads
  <1>6. Keeps(c)
    BY <1>1, <1>3 DEF Keeps, Leads
  <1>7. Fits(c)'
    <2>1. StageFits(c)'
      BY <1>1, <1>3, <1>4 DEF StageFits, WriteStays
    <2>2. TempsFit(c)'
      BY <1>1, <1>3, <1>4 DEF TempsFit
    <2>3. ReadFits(c)'
      BY <1>1, <1>3, <1>4 DEF ReadFits, WriteStays, ReadStays
    <2>4. WriteFits(c)'
      BY <1>1, <1>3, <1>4 DEF Fits, WriteFits, WriteStays, ReadStays, Carried
    <2>5. PermsFit(c)'
      BY <1>1, <1>3, <1>4 DEF Fits, PermsFit, InFlight, WriteStays, Carried
    <2> QED
      BY <2>1, <2>2, <2>3, <2>4, <2>5 DEF Fits
  <1>8. Moves(c)
    BY <1>1, <1>3, <1>4, GuestFilesAssumption
    DEF Moves, Phase, Seen, Put, Leads, Carried, WriteStays, ReadStays, Dry
  <1> QED
    BY <1>5, <1>6, <1>7, <1>8 DEF Good

LEMMA AgentReadIsGood ==
    ASSUME IInv, NEW c \in CallIds, NEW o \in Outcomes, NEW missing \in BOOLEAN, AgentRead(c, o, missing)
    PROVE  Good(c)
  <1> DEFINE r == call[c]
             q == call'[c]
             read == IF o = "done" THEN file.data ELSE IF o = "exit" /\ missing THEN None ELSE Unread
             s == IF read = Unread THEN "failed" ELSE "decide"
  <1>1. /\ r \in Call /\ TypeOK /\ Fits(c) /\ r.stage = "agentRead"
        /\ UNCHANGED <<route, up, file, nodeTemp, lxcTemp>>
    BY DEF IInv, TypeOK, Fits, AgentRead, At
  <1>2. s \in Stages /\ read \in Contents \cup {None, Unread}
    BY <1>1 DEF Stages, TypeOK, File
  <1>3. /\ Leads(c, o, q) /\ Carried(q, r) /\ WriteStays(q, r) /\ q.leaked = r.leaked /\ q.err = r.err
        /\ q.stage = s /\ q.sample = read /\ q.got = read
    <2>1. Reads(c, o, s, read, read)
      BY DEF AgentRead, Reads
    <2> HIDE DEF s, read
    <2> QED
      BY <1>1, <1>2, <2>1, ReadStep
  <1>4. /\ r.leg = "in" /\ ~r.err /\ r.got = Unread /\ r.sample = Unread /\ ~r.wrote /\ route = "qm"
        /\ nodeTemp[c] = Gone \/ r.leaked
        /\ lxcTemp[c] = Gone \/ r.leaked
    BY <1>1 DEF Fits, StageFits, TempsFit, ReadFits, WriteFits
  <1>5. TypeOK'
    BY <1>1, <1>3 DEF TypeOK, Leads, AgentRead, Ends
  <1>6. Keeps(c)
    BY <1>1, <1>3 DEF Keeps, Leads
  <1>7. Fits(c)'
    <2>1. StageFits(c)'
      BY <1>1, <1>3, <1>4 DEF StageFits, WriteStays
    <2>2. TempsFit(c)'
      BY <1>1, <1>3, <1>4 DEF TempsFit
    <2>3. ReadFits(c)'
      BY <1>1, <1>3, <1>4 DEF ReadFits, WriteStays
    <2>4. WriteFits(c)'
      BY <1>1, <1>3, <1>4 DEF Fits, WriteFits, WriteStays, Carried
    <2>5. PermsFit(c)'
      BY <1>1, <1>3, <1>4 DEF Fits, PermsFit, InFlight, WriteStays, Carried
    <2> QED
      BY <2>1, <2>2, <2>3, <2>4, <2>5 DEF Fits
  <1>8. Moves(c)
    BY <1>1, <1>3, <1>4, GuestFilesAssumption DEF Moves, Phase, Seen, Put, Leads, Carried, WriteStays
  <1> QED
    BY <1>5, <1>6, <1>7, <1>8 DEF Good
LEMMA MakeLxcTempIsGood ==
    ASSUME IInv, NEW c \in CallIds, NEW o \in Outcomes, MakeLxcTemp(c, o)
    PROVE  Good(c)
  <1> DEFINE r == call[c]
             q == call'[c]
             s == IF o = "done" THEN IF r.leg = "in" THEN "cpOut" ELSE "mkTemp" ELSE "failed"
             x == r.leaked \/ o = "late"
  <1>1. /\ r \in Call /\ TypeOK /\ Fits(c) /\ r.stage = "mkLxc"
        /\ UNCHANGED <<route, up, file, nodeTemp>>
        /\ lxcTemp' = IF Effective(o) THEN [lxcTemp EXCEPT ![c] = Empty] ELSE lxcTemp
    BY DEF IInv, TypeOK, Fits, MakeLxcTemp, At
  <1>2. s \in Stages /\ x \in BOOLEAN
    BY <1>1 DEF Stages, Call
  <1>3. /\ Leads(c, o, q) /\ Carried(q, r) /\ WriteStays(q, r) /\ ReadStays(q, r)
        /\ q.leaked = x /\ q.err = r.err /\ q.stage = s
    <2>1. Moved(c, o, s, x)
      BY DEF MakeLxcTemp, Moved
    <2> HIDE DEF s, x
    <2> QED
      BY <1>1, <1>2, <2>1, TempStep DEF ReadStays
  <1>4. /\ ~r.err /\ ~r.wrote /\ route = "relay"
        /\ nodeTemp[c] = Gone \/ r.leaked
        /\ lxcTemp[c] = Gone \/ r.leaked
        /\ r.leg = "in" => r.got = Unread /\ r.sample = Unread
        /\ r.leg \in {"in", "out"}
    BY <1>1 DEF Fits, StageFits, TempsFit, ReadFits, WriteFits, Call
  <1>5. TypeOK'
    BY <1>1, <1>3, <1>4 DEF TypeOK, Leads, MakeLxcTemp, Ends, Temp
  <1>6. Keeps(c)
    BY <1>1, <1>3, <1>4 DEF Keeps, Leads
  <1>7. Fits(c)'
    <2>1. StageFits(c)'
      BY <1>1, <1>3, <1>4 DEF StageFits, WriteStays
    <2>2. TempsFit(c)'
      BY <1>1, <1>3, <1>4 DEF TempsFit, Effective, TypeOK
    <2>3. ReadFits(c)'
      BY <1>1, <1>3, <1>4, GuestFilesAssumption DEF ReadFits, WriteStays, ReadStays
    <2>4. WriteFits(c)'
      BY <1>1, <1>3, <1>4 DEF Fits, WriteFits, WriteStays, ReadStays, Carried
    <2>5. PermsFit(c)'
      BY <1>1, <1>3, <1>4 DEF Fits, PermsFit, InFlight, WriteStays, Carried
    <2> QED
      BY <2>1, <2>2, <2>3, <2>4, <2>5 DEF Fits
  <1>8. Moves(c)
    BY <1>1, <1>3, <1>4, GuestFilesAssumption DEF Moves, Phase, Seen, Put, Leads, Carried, WriteStays, ReadStays
  <1> QED
    BY <1>5, <1>6, <1>7, <1>8 DEF Good

LEMMA MakeNodeTempIsGood ==
    ASSUME IInv, NEW c \in CallIds, NEW o \in Outcomes, MakeNodeTemp(c, o)
    PROVE  Good(c)
  <1> DEFINE r == call[c]
             q == call'[c]
             next == IF r.leg = "in" THEN "pull" ELSE "sftpWrite"
             x == r.leaked \/ o = "late"
  <1>1. /\ r \in Call /\ TypeOK /\ Fits(c) /\ r.stage = "mkTemp"
        /\ UNCHANGED <<route, up, file, lxcTemp>>
        /\ nodeTemp' = IF Effective(o) THEN [nodeTemp EXCEPT ![c] = Empty] ELSE nodeTemp
    BY DEF IInv, TypeOK, Fits, MakeNodeTemp, At
  <1>2. next \in Stages /\ Outer(c) \in Stages /\ x \in BOOLEAN
    BY <1>1 DEF Stages, Call, Outer
  <1>3. /\ Leads(c, o, q) /\ Carried(q, r) /\ WriteStays(q, r) /\ ReadStays(q, r)
        /\ \/ o = "done" /\ q.leaked = r.leaked /\ q.err = r.err /\ q.stage = next
           \/ o # "done" /\ q.leaked = x /\ q.err = TRUE /\ q.stage = Outer(c)
    <2>1. CASE o = "done"
      <3>1. Goes(c, o, next)
        BY <2>1 DEF MakeNodeTemp
      <3> HIDE DEF next
      <3> QED
        BY <1>1, <1>2, <2>1, <3>1, StageStep DEF ReadStays
    <2>2. CASE o # "done"
      <3>1. MovedBadly(c, o, Outer(c), x)
        BY <2>2 DEF MakeNodeTemp, MovedBadly
      <3> HIDE DEF x
      <3> QED
        BY <1>1, <1>2, <2>2, <3>1, TempFails DEF ReadStays
    <2> QED
      BY <2>1, <2>2
  <1>4. /\ ~r.err /\ ~r.wrote /\ route # "qm"
        /\ nodeTemp[c] = Gone \/ r.leaked
        /\ route # "relay" => lxcTemp[c] = Gone \/ r.leaked
        /\ r.leg = "in" => /\ r.got = Unread
                          /\ IF route = "relay" THEN r.sample = lxcTemp[c] /\ lxcTemp[c] \in Contents
                             ELSE r.sample = Unread
        /\ r.leg \in {"in", "out"}
    BY <1>1 DEF Fits, StageFits, TempsFit, ReadFits, WriteFits, Call
  <1>5. TypeOK'
    BY <1>1, <1>3, <1>4 DEF TypeOK, Leads, MakeNodeTemp, Ends, Temp
  <1>6. Keeps(c)
    BY <1>1, <1>3, <1>4 DEF Keeps, Leads
  <1>7. Fits(c)'
    <2>1. StageFits(c)'
      BY <1>1, <1>3, <1>4 DEF StageFits, Outer, WriteStays
    <2>2. TempsFit(c)'
      BY <1>1, <1>3, <1>4 DEF TempsFit, Effective, TypeOK, Outer
    <2>3. ReadFits(c)'
      BY <1>1, <1>3, <1>4, GuestFilesAssumption DEF ReadFits, WriteStays, ReadStays, Outer
    <2>4. WriteFits(c)'
      BY <1>1, <1>3, <1>4 DEF Fits, WriteFits, WriteStays, ReadStays, Carried, Outer
    <2>5. PermsFit(c)'
      BY <1>1, <1>3, <1>4 DEF Fits, PermsFit, InFlight, WriteStays, Carried, Outer
    <2> QED
      BY <2>1, <2>2, <2>3, <2>4, <2>5 DEF Fits
  <1>8. Moves(c)
    BY <1>1, <1>3, <1>4, GuestFilesAssumption DEF Moves, Phase, Seen, Put, Leads, Outer, Carried, WriteStays, ReadStays
  <1> QED
    BY <1>5, <1>6, <1>7, <1>8 DEF Good

LEMMA DockerCpOutIsGood ==
    ASSUME IInv, NEW c \in CallIds, NEW o \in Outcomes, NEW missing \in BOOLEAN,
           DockerCpOut(c, o, missing)
    PROVE  Good(c)
  <1> DEFINE r == call[c]
             q == call'[c]
             there == Effective(o) /\ file.data # None
             e == Throws(o)
             s == IF e THEN "rmLxc" ELSE "probe"
  <1>1. /\ r \in Call /\ TypeOK /\ Fits(c) /\ r.stage = "cpOut"
        /\ UNCHANGED <<route, up, file, nodeTemp>>
        /\ lxcTemp' = IF there THEN [lxcTemp EXCEPT ![c] = file.data] ELSE lxcTemp
        /\ file.data \in Contents \cup {None}
    BY DEF IInv, TypeOK, Fits, DockerCpOut, At, File
  <1>2. s \in Stages /\ e \in BOOLEAN /\ "rmLxc" \in Stages /\ None \in Contents \cup {None, Unread}
    BY DEF Stages, Throws
  <1>3. /\ Leads(c, o, q) /\ Carried(q, r) /\ WriteStays(q, r) /\ q.leaked = r.leaked
        /\ \/ there /\ q.stage = s /\ q.err = e /\ q.sample = file.data /\ q.got = r.got
           \/ /\ ~there /\ (o = "exit" \/ file.data = None)
              /\ q.stage = "rmLxc" /\ q.err = r.err /\ q.sample = None /\ q.got = None
           \/ ~there /\ q.stage = "rmLxc" /\ q.err = TRUE /\ ReadStays(q, r)
    <2>1. CASE there
      <3>1. Samples(c, o, s, e, file.data)
        BY <2>1 DEF DockerCpOut, Samples
      <3>2. file.data \in Contents \cup {None, Unread}
        BY <1>1
      <3> HIDE DEF s, e
      <3> QED
        BY <1>1, <1>2, <2>1, <3>1, <3>2, SampleStep
    <2>2. CASE ~there /\ (o = "done" \/ (o = "exit" /\ missing))
      <3>1. Reads(c, o, "rmLxc", None, None)
        BY <2>2 DEF DockerCpOut, Reads
      <3>2. o = "exit" \/ file.data = None
        BY <2>2 DEF Effective
      <3> QED
        BY <1>1, <1>2, <2>2, <3>1, <3>2, ReadStep
    <2>3. CASE ~there /\ ~(o = "done" \/ (o = "exit" /\ missing))
      <3>1. Unwinds(c, o, "rmLxc")
        BY <2>3 DEF DockerCpOut
      <3> QED
        BY <1>1, <1>2, <2>3, <3>1, UnwindStep DEF ReadStays
    <2> QED
      BY <2>1, <2>2, <2>3
  <1>4. /\ ~r.err /\ ~r.wrote /\ route = "relay" /\ r.leg = "in"
        /\ nodeTemp[c] = Gone \/ r.leaked
        /\ r.got = Unread /\ r.sample = Unread
    BY <1>1 DEF Fits, StageFits, TempsFit, ReadFits, WriteFits
  <1>5. TypeOK'
    BY <1>1, <1>3, <1>4 DEF TypeOK, Leads, DockerCpOut, Ends, Temp
  <1>6. Keeps(c)
    BY <1>1, <1>3, <1>4 DEF Keeps, Leads
  <1>7. Fits(c)'
    <2>1. StageFits(c)'
      BY <1>1, <1>3, <1>4 DEF StageFits, WriteStays
    <2>2. TempsFit(c)'
      BY <1>1, <1>3, <1>4 DEF TempsFit
    <2>3. ReadFits(c)'
      BY <1>1, <1>3, <1>4, GuestFilesAssumption DEF ReadFits, WriteStays, ReadStays, TypeOK
    <2>4. WriteFits(c)'
      BY <1>1, <1>3, <1>4 DEF Fits, WriteFits, WriteStays, ReadStays, Carried
    <2>5. PermsFit(c)'
      BY <1>1, <1>3, <1>4 DEF Fits, PermsFit, InFlight, WriteStays, Carried
    <2> QED
      BY <2>1, <2>2, <2>3, <2>4, <2>5 DEF Fits
  <1>8. Moves(c)
    BY <1>1, <1>3, <1>4, GuestFilesAssumption DEF Moves, Phase, Seen, Put, Leads, Carried, WriteStays, ReadStays
  <1> QED
    BY <1>5, <1>6, <1>7, <1>8 DEF Good

LEMMA PullIsGood ==
    ASSUME IInv, NEW c \in CallIds, NEW o \in Outcomes, NEW missing \in BOOLEAN, Pull(c, o, missing)
    PROVE  Good(c)
  <1> DEFINE r == call[c]
             q == call'[c]
             there == Source(c) # None /\ Effective(o)
             e == Throws(o)
             s == IF e THEN "rmTemp" ELSE "sftpRead"
             seen == IF route = "relay" THEN r.sample ELSE Source(c)
  <1>1. /\ r \in Call /\ TypeOK /\ Fits(c) /\ r.stage = "pull"
        /\ UNCHANGED <<route, up, file, lxcTemp>>
        /\ nodeTemp' = IF there THEN [nodeTemp EXCEPT ![c] = Source(c)] ELSE nodeTemp
        /\ file.data \in Contents \cup {None}
    BY DEF IInv, TypeOK, Fits, Pull, At, File
  <1>2. s \in Stages /\ e \in BOOLEAN /\ "rmTemp" \in Stages /\ None \in Contents \cup {None, Unread}
    BY DEF Stages, Throws
  <1>3. /\ ~r.err /\ ~r.wrote /\ route # "qm" /\ r.leg = "in" /\ r.got = Unread
        /\ route # "relay" => (lxcTemp[c] = Gone \/ r.leaked) /\ r.sample = Unread
        /\ route = "relay" => r.sample = lxcTemp[c] /\ lxcTemp[c] \in Contents
        /\ Source(c) \in Contents \cup {None}
        /\ seen = Source(c)
    BY <1>1 DEF Fits, StageFits, TempsFit, ReadFits, WriteFits, Source
  <1>4. /\ Leads(c, o, q) /\ Carried(q, r) /\ WriteStays(q, r) /\ q.leaked = r.leaked
        /\ \/ there /\ q.stage = s /\ q.err = e /\ q.sample = seen /\ q.got = r.got
           \/ /\ ~there /\ (o = "exit" \/ Source(c) = None)
              /\ q.stage = "rmTemp" /\ q.err = r.err /\ q.sample = None /\ q.got = None
           \/ ~there /\ q.stage = "rmTemp" /\ q.err = TRUE /\ ReadStays(q, r)
    <2>1. CASE there
      <3>1. Samples(c, o, s, e, seen)
        BY <2>1 DEF Pull, Samples
      <3>2. seen \in Contents \cup {None, Unread}
        BY <1>3
      <3> HIDE DEF s, e, seen
      <3> QED
        BY <1>1, <1>2, <2>1, <3>1, <3>2, SampleStep
    <2>2. CASE ~there /\ (o = "done" \/ (o = "exit" /\ missing))
      <3>1. Reads(c, o, "rmTemp", None, None)
        BY <2>2 DEF Pull, Reads
      <3>2. o = "exit" \/ Source(c) = None
        BY <2>2 DEF Effective
      <3> QED
        BY <1>1, <1>2, <2>2, <3>1, <3>2, ReadStep
    <2>3. CASE ~there /\ ~(o = "done" \/ (o = "exit" /\ missing))
      <3>1. Unwinds(c, o, "rmTemp")
        BY <2>3 DEF Pull
      <3> QED
        BY <1>1, <1>2, <2>3, <3>1, UnwindStep DEF ReadStays
    <2> QED
      BY <2>1, <2>2, <2>3
  <1>5. TypeOK'
    BY <1>1, <1>4, <1>3 DEF TypeOK, Leads, Pull, Ends, Temp
  <1>6. Keeps(c)
    BY <1>1, <1>4, <1>3 DEF Keeps, Leads
  <1>7. Fits(c)'
    <2>1. StageFits(c)'
      BY <1>1, <1>4, <1>3 DEF StageFits, WriteStays
    <2>2. TempsFit(c)'
      BY <1>1, <1>4, <1>3 DEF TempsFit
    <2>3. ReadFits(c)'
      BY <1>1, <1>4, <1>3, GuestFilesAssumption DEF ReadFits, WriteStays, ReadStays, TypeOK
    <2>4. WriteFits(c)'
      BY <1>1, <1>4, <1>3 DEF Fits, WriteFits, WriteStays, ReadStays, Carried
    <2>5. PermsFit(c)'
      BY <1>1, <1>4, <1>3 DEF Fits, PermsFit, InFlight, WriteStays, Carried
    <2> QED
      BY <2>1, <2>2, <2>3, <2>4, <2>5 DEF Fits
  <1>8. Moves(c)
    BY <1>1, <1>4, <1>3, GuestFilesAssumption DEF Moves, Phase, Seen, Put, Leads, Carried, WriteStays, ReadStays, Source
  <1> QED
    BY <1>5, <1>6, <1>7, <1>8 DEF Good

LEMMA SftpReadIsGood ==
    ASSUME IInv, NEW c \in CallIds, NEW o \in Outcomes, SftpRead(c, o)
    PROVE  Good(c)
  <1> DEFINE r == call[c]
             q == call'[c]
  <1>1. /\ r \in Call /\ TypeOK /\ Fits(c) /\ r.stage = "sftpRead"
        /\ UNCHANGED <<route, up, file, nodeTemp, lxcTemp>>
    BY DEF IInv, TypeOK, Fits, SftpRead, At
  <1>2. "rmTemp" \in Stages
    BY DEF Stages
  <1>3. /\ ~r.err /\ ~r.wrote /\ route # "qm" /\ r.leg = "in" /\ r.got = Unread
        /\ route # "relay" => lxcTemp[c] = Gone \/ r.leaked
        /\ r.sample = nodeTemp[c] /\ nodeTemp[c] \in Contents
    BY <1>1 DEF Fits, StageFits, TempsFit, ReadFits, WriteFits
  <1>4. /\ Leads(c, o, q) /\ Carried(q, r) /\ WriteStays(q, r) /\ q.leaked = r.leaked
        /\ q.stage = "rmTemp" /\ q.sample = r.sample
        /\ \/ q.err = r.err /\ q.got = nodeTemp[c]
           \/ q.err = TRUE /\ q.got = r.got
    <2>1. CASE Unwinds(c, o, "rmTemp")
      BY <1>1, <1>2, <2>1, UnwindStep
    <2>2. CASE Gets(c, o, "rmTemp", nodeTemp[c])
      <3>1. nodeTemp[c] \in Contents \cup {None, Unread}
        BY <1>3
      <3> QED
        BY <1>1, <1>2, <2>2, <3>1, GotStep
    <2> QED
      BY <2>1, <2>2 DEF SftpRead, Gets
  <1>5. TypeOK'
    BY <1>1, <1>4, <1>3 DEF TypeOK, Leads, SftpRead, Ends
  <1>6. Keeps(c)
    BY <1>1, <1>4, <1>3 DEF Keeps, Leads
  <1>7. Fits(c)'
    <2>1. StageFits(c)'
      BY <1>1, <1>4, <1>3 DEF StageFits, WriteStays
    <2>2. TempsFit(c)'
      BY <1>1, <1>4, <1>3 DEF TempsFit
    <2>3. ReadFits(c)'
      BY <1>1, <1>4, <1>3, GuestFilesAssumption DEF ReadFits, WriteStays
    <2>4. WriteFits(c)'
      BY <1>1, <1>4, <1>3 DEF Fits, WriteFits, WriteStays, Carried
    <2>5. PermsFit(c)'
      BY <1>1, <1>4, <1>3 DEF Fits, PermsFit, InFlight, WriteStays, Carried
    <2> QED
      BY <2>1, <2>2, <2>3, <2>4, <2>5 DEF Fits
  <1>8. Moves(c)
    BY <1>1, <1>4, <1>3, GuestFilesAssumption DEF Moves, Phase, Seen, Put, Leads, Carried, WriteStays
  <1> QED
    BY <1>5, <1>6, <1>7, <1>8 DEF Good

LEMMA RemoveNodeTempIsGood ==
    ASSUME IInv, NEW c \in CallIds, NEW o \in Outcomes, RemoveNodeTemp(c, o)
    PROVE  Good(c)
  <1> DEFINE r == call[c]
             q == call'[c]
             s == IF route # "relay" THEN AfterLeg(c)
                  ELSE IF r.err \/ r.leg = "in" THEN "rmLxc" ELSE "cpIn"
             x == r.leaked \/ ~Effective(o)
  <1>1. /\ r \in Call /\ TypeOK /\ Fits(c) /\ r.stage = "rmTemp"
        /\ UNCHANGED <<route, up, file, lxcTemp>>
        /\ nodeTemp' = IF Effective(o) THEN [nodeTemp EXCEPT ![c] = Gone] ELSE nodeTemp
    BY DEF IInv, TypeOK, Fits, RemoveNodeTemp, At
  <1>2. s \in Stages /\ x \in BOOLEAN
    BY <1>1 DEF Stages, Call, AfterLeg
  <1>3. /\ Leads(c, o, q) /\ Carried(q, r) /\ WriteStays(q, r) /\ ReadStays(q, r)
        /\ q.leaked = x /\ q.err = r.err /\ q.stage = s
    <2>1. Moved(c, o, s, x)
      BY DEF RemoveNodeTemp, Moved
    <2> HIDE DEF s, x
    <2> QED
      BY <1>1, <1>2, <2>1, TempStep DEF ReadStays
  <1>4. /\ route # "qm" /\ r.leg \in {"in", "out"}
        /\ route # "relay" => lxcTemp[c] = Gone \/ r.leaked
        /\ r.leg = "in" => ~r.wrote
        /\ r.leg = "in" /\ ~r.err => r.got # Unread
        /\ r.leg = "out" /\ ~r.err => IF route = "relay" THEN ~r.wrote /\ lxcTemp[c] = r.new ELSE r.wrote
    BY <1>1 DEF Fits, StageFits, TempsFit, ReadFits, WriteFits, Call
  <1>5. TypeOK'
    BY <1>1, <1>3, <1>4 DEF TypeOK, Leads, RemoveNodeTemp, Ends, Temp
  <1>6. Keeps(c)
    BY <1>1, <1>3, <1>4 DEF Keeps, Leads
  <1>7. Fits(c)'
    <2>1. StageFits(c)'
      BY <1>1, <1>3, <1>4 DEF StageFits, WriteStays, AfterLeg
    <2>2. TempsFit(c)'
      BY <1>1, <1>3, <1>4 DEF TempsFit, Effective, TypeOK, AfterLeg
    <2>3. ReadFits(c)'
      BY <1>1, <1>3, <1>4, GuestFilesAssumption DEF ReadFits, WriteStays, ReadStays, AfterLeg
    <2>4. WriteFits(c)'
      BY <1>1, <1>3, <1>4 DEF Fits, WriteFits, WriteStays, ReadStays, Carried, AfterLeg
    <2>5. PermsFit(c)'
      BY <1>1, <1>3, <1>4 DEF Fits, PermsFit, InFlight, WriteStays, Carried, AfterLeg
    <2> QED
      BY <2>1, <2>2, <2>3, <2>4, <2>5 DEF Fits
  <1>8. Moves(c)
    BY <1>1, <1>3, <1>4, GuestFilesAssumption DEF Moves, Phase, Seen, Put, Leads, Carried, WriteStays, ReadStays, AfterLeg
  <1> QED
    BY <1>5, <1>6, <1>7, <1>8 DEF Good

LEMMA RemoveLxcTempIsGood ==
    ASSUME IInv, NEW c \in CallIds, NEW o \in Outcomes, RemoveLxcTemp(c, o)
    PROVE  Good(c)
  <1> DEFINE r == call[c]
             q == call'[c]
             s == AfterLeg(c)
             x == r.leaked \/ ~Effective(o)
  <1>1. /\ r \in Call /\ TypeOK /\ Fits(c) /\ r.stage = "rmLxc"
        /\ UNCHANGED <<route, up, file, nodeTemp>>
        /\ lxcTemp' = IF Effective(o) THEN [lxcTemp EXCEPT ![c] = Gone] ELSE lxcTemp
    BY DEF IInv, TypeOK, Fits, RemoveLxcTemp, At
  <1>2. s \in Stages /\ x \in BOOLEAN
    BY <1>1 DEF Stages, Call, AfterLeg
  <1>3. /\ Leads(c, o, q) /\ Carried(q, r) /\ WriteStays(q, r) /\ ReadStays(q, r)
        /\ q.leaked = x /\ q.err = r.err /\ q.stage = s
    <2>1. Moved(c, o, s, x)
      BY DEF RemoveLxcTemp, Moved
    <2> HIDE DEF s, x
    <2> QED
      BY <1>1, <1>2, <2>1, TempStep DEF ReadStays
  <1>4. /\ route = "relay" /\ r.leg \in {"in", "out"}
        /\ nodeTemp[c] = Gone \/ r.leaked
        /\ r.leg = "in" => ~r.wrote
        /\ r.leg = "in" /\ ~r.err => r.got # Unread
        /\ r.leg = "out" /\ ~r.err => r.wrote
    BY <1>1 DEF Fits, StageFits, TempsFit, ReadFits, WriteFits, Call
  <1>5. TypeOK'
    BY <1>1, <1>3, <1>4 DEF TypeOK, Leads, RemoveLxcTemp, Ends, Temp
  <1>6. Keeps(c)
    BY <1>1, <1>3, <1>4 DEF Keeps, Leads
  <1>7. Fits(c)'
    <2>1. StageFits(c)'
      BY <1>1, <1>3, <1>4 DEF StageFits, WriteStays, AfterLeg
    <2>2. TempsFit(c)'
      BY <1>1, <1>3, <1>4 DEF TempsFit, Effective, TypeOK, AfterLeg
    <2>3. ReadFits(c)'
      BY <1>1, <1>3, <1>4, GuestFilesAssumption DEF ReadFits, WriteStays, ReadStays, AfterLeg
    <2>4. WriteFits(c)'
      BY <1>1, <1>3, <1>4 DEF Fits, WriteFits, WriteStays, ReadStays, Carried, AfterLeg
    <2>5. PermsFit(c)'
      BY <1>1, <1>3, <1>4 DEF Fits, PermsFit, InFlight, WriteStays, Carried, AfterLeg
    <2> QED
      BY <2>1, <2>2, <2>3, <2>4, <2>5 DEF Fits
  <1>8. Moves(c)
    BY <1>1, <1>3, <1>4, GuestFilesAssumption DEF Moves, Phase, Seen, Put, Leads, Carried, WriteStays, ReadStays, AfterLeg
  <1> QED
    BY <1>5, <1>6, <1>7, <1>8 DEF Good

----------------------------------------------------------------------------
(* The shapes of the steps of a write *)

\* q is r but for its stage, its failure, its note and whether it wrote.
Onward(q, r, s, e, n, w) ==
    /\ Carried(q, r) /\ ReadStays(q, r)
    /\ q.leg = r.leg /\ q.keep = r.keep /\ q.leaked = r.leaked
    /\ q.stage = s /\ q.err = e /\ q.note = n /\ q.wrote = w

LEMMA OnwardErr ==
    ASSUME NEW r \in Call, NEW s \in Stages, NEW e \in BOOLEAN
    PROVE  \E rec \in Call : /\ rec = [r EXCEPT !.stage = s, !.err = e] /\ rec.shaky = r.shaky
                             /\ Onward(rec, r, s, e, r.note, r.wrote)
  <1>1. PICK rec \in Call : rec = [r EXCEPT !.stage = s, !.err = e]
    BY SetStage, SetErr
  <1>2. rec.shaky = r.shaky /\ Onward(rec, r, s, e, r.note, r.wrote)
    BY <1>1, SMT DEF Call, Onward, Carried, ReadStays
  <1> QED
    BY <1>1, <1>2

LEMMA OnwardNote ==
    ASSUME NEW r \in Call, NEW s \in Stages, NEW n \in BOOLEAN
    PROVE  \E rec \in Call : /\ rec = [r EXCEPT !.stage = s, !.note = n] /\ rec.shaky = r.shaky
                             /\ Onward(rec, r, s, r.err, n, r.wrote)
  <1>1. PICK rec \in Call : rec = [r EXCEPT !.stage = s, !.note = n]
    BY SetStage, SetNote
  <1>2. rec.shaky = r.shaky /\ Onward(rec, r, s, r.err, n, r.wrote)
    BY <1>1, SMT DEF Call, Onward, Carried, ReadStays
  <1> QED
    BY <1>1, <1>2

LEMMA OnwardBoth ==
    ASSUME NEW r \in Call, NEW s \in Stages, NEW e \in BOOLEAN, NEW n \in BOOLEAN
    PROVE  \E rec \in Call : /\ rec = [r EXCEPT !.stage = s, !.err = e, !.note = n] /\ rec.shaky = r.shaky
                             /\ Onward(rec, r, s, e, n, r.wrote)
  <1>1. PICK rec \in Call : rec = [r EXCEPT !.stage = s, !.err = e, !.note = n]
    BY SetStage, SetErr, SetNote
  <1>2. rec.shaky = r.shaky /\ Onward(rec, r, s, e, n, r.wrote)
    BY <1>1, SMT DEF Call, Onward, Carried, ReadStays
  <1> QED
    BY <1>1, <1>2

LEMMA OnwardStage ==
    ASSUME NEW r \in Call, NEW s \in Stages
    PROVE  \E rec \in Call : /\ rec = [r EXCEPT !.stage = s] /\ rec.shaky = r.shaky
                             /\ Onward(rec, r, s, r.err, r.note, r.wrote)
  <1>1. PICK rec \in Call : rec = [r EXCEPT !.stage = s]
    BY SetStage
  <1>2. rec.shaky = r.shaky /\ Onward(rec, r, s, r.err, r.note, r.wrote)
    BY <1>1, SMT DEF Call, Onward, Carried, ReadStays
  <1> QED
    BY <1>1, <1>2

\* The record of a call that writes the file.
LEMMA OnwardWrote ==
    ASSUME NEW r \in Call, NEW rec \in Call, rec.shaky = r.shaky, NEW s, NEW e, NEW n, NEW w,
           Onward(rec, r, s, e, n, w)
    PROVE  \E next \in Call : /\ next = [rec EXCEPT !.wrote = TRUE] /\ next.shaky = r.shaky
                              /\ Onward(next, r, s, e, n, TRUE)
  <1>1. PICK next \in Call : next = [rec EXCEPT !.wrote = TRUE]
    BY SetWrote
  <1>2. /\ Carried(next, rec) /\ ReadStays(next, rec)
        /\ next.leg = rec.leg /\ next.keep = rec.keep /\ next.leaked = rec.leaked
        /\ next.shaky = rec.shaky /\ next.stage = rec.stage /\ next.err = rec.err
        /\ next.note = rec.note /\ next.wrote = TRUE
    BY <1>1, SMT DEF Call, Carried, ReadStays
  <1> QED
    BY <1>1, <1>2 DEF Onward, Carried, ReadStays

\* A call that nobody but c moves, and that others overtake.
Overtook(c, o, q) ==
    /\ call' \in [CallIds -> Call]
    /\ q = call'[c] /\ q \in Call
    /\ \A d \in CallIds \ {c} : call'[d] = [call[d] EXCEPT !.touched = @ \/ InFlight(d)]
    /\ q.shaky = (call[c].shaky \/ o = "exit")

LEMMA ShakyIs ==
    ASSUME NEW rec \in Call, NEW b \in BOOLEAN
    PROVE  \E q \in Call : /\ q = [rec EXCEPT !.shaky = b] /\ Carried(q, rec) /\ WriteStays(q, rec)
                           /\ ReadStays(q, rec) /\ q.stage = rec.stage /\ q.err = rec.err
                           /\ q.leaked = rec.leaked /\ q.shaky = b
  <1>1. PICK q \in Call : q = [rec EXCEPT !.shaky = b]
    BY SetShaky
  <1> QED
    BY <1>1, SMT DEF Call, Carried, WriteStays, ReadStays

LEMMA OvertakesIs ==
    ASSUME TypeOK, NEW c \in CallIds, NEW o \in Outcomes, NEW rec \in Call,
           NEW s, NEW e, NEW n, NEW w,
           rec.shaky = call[c].shaky, Onward(rec, call[c], s, e, n, w), Overtakes(c, o, rec)
    PROVE  LET q == call'[c] IN Overtook(c, o, q) /\ Onward(q, call[c], s, e, n, w)
  <1> DEFINE b == rec.shaky \/ o = "exit"
             over(d) == call[d].touched \/ InFlight(d)
  <1>1. b \in BOOLEAN /\ \A d \in CallIds : over(d) \in BOOLEAN
    BY DEF TypeOK, Call
  <1>2. call' = [d \in CallIds |-> IF d = c THEN [rec EXCEPT !.shaky = b]
                                  ELSE [call[d] EXCEPT !.touched = over(d)]]
    BY DEF Overtakes
  <1>3. \A d \in CallIds : [call[d] EXCEPT !.touched = over(d)] \in Call
    <2> HIDE DEF over
    <2> QED
      BY <1>1, SetTouched DEF TypeOK
  <1>4. PICK q \in Call : /\ q = [rec EXCEPT !.shaky = b] /\ Carried(q, rec) /\ WriteStays(q, rec)
                          /\ ReadStays(q, rec) /\ q.stage = rec.stage /\ q.err = rec.err
                          /\ q.leaked = rec.leaked /\ q.shaky = b
    <2> HIDE DEF b
    <2> QED
      BY <1>1, ShakyIs
  <1>5. call' \in [CallIds -> Call] /\ call'[c] = q
    BY <1>2, <1>3, <1>4
  <1>6. \A d \in CallIds \ {c} : call'[d] = [call[d] EXCEPT !.touched = @ \/ InFlight(d)]
    BY <1>2
  <1>7. Overtook(c, o, q)
    BY <1>4, <1>5, <1>6 DEF Overtook
  <1>8. Onward(q, call[c], s, e, n, w)
    BY <1>4 DEF Onward, Carried, WriteStays, ReadStays
  <1> QED
    BY <1>5, <1>7, <1>8

\* The same of a step that leaves the file.
LEMMA QuietIs ==
    ASSUME TypeOK, NEW c \in CallIds, NEW o \in Outcomes, NEW rec \in Call,
           NEW s, NEW e, NEW n, NEW w,
           rec.shaky = call[c].shaky, Onward(rec, call[c], s, e, n, w), Becomes(c, o, rec)
    PROVE  LET q == call'[c] IN Leads(c, o, q) /\ Onward(q, call[c], s, e, n, w)
  BY StepIs DEF Onward, Carried, WriteStays, ReadStays

Learns(c, o, s, k) == Becomes(c, o, [call[c] EXCEPT !.keep = k, !.stage = s])

LEMMA StatStep ==
    ASSUME TypeOK, NEW c \in CallIds, NEW o \in Outcomes, NEW s \in Stages, NEW k \in Perms \cup {Lost}, Learns(c, o, s, k)
    PROVE  LET q == call'[c] r == call[c]
           IN /\ Leads(c, o, q) /\ Carried(q, r) /\ ReadStays(q, r)
              /\ q.keep = k /\ q.leg = r.leg /\ q.note = r.note /\ q.wrote = r.wrote
              /\ q.stage = s /\ q.err = r.err /\ q.leaked = r.leaked
  <1>1. PICK r \in Call : r = call[c]
    BY DEF TypeOK
  <1>2. PICK rec \in Call : rec = [r EXCEPT !.keep = k, !.stage = s]
    BY SetKeep, SetStage
  <1>3. /\ Carried(rec, r) /\ ReadStays(rec, r) /\ rec.shaky = r.shaky
        /\ rec.keep = k /\ rec.leg = r.leg /\ rec.note = r.note /\ rec.wrote = r.wrote
        /\ rec.stage = s /\ rec.err = r.err /\ rec.leaked = r.leaked
    BY <1>2, SMT DEF Call, Carried, ReadStays
  <1>4. Becomes(c, o, rec)
    BY <1>1, <1>2 DEF Learns
  <1> QED
    BY <1>1, <1>3, <1>4, StepIs DEF Carried, WriteStays, ReadStays

Turns(c, o, s) == Becomes(c, o, [call[c] EXCEPT !.leg = "out", !.stage = s])

LEMMA LegStep ==
    ASSUME TypeOK, NEW c \in CallIds, NEW o \in Outcomes, NEW s \in Stages, Turns(c, o, s)
    PROVE  LET q == call'[c] r == call[c]
           IN /\ Leads(c, o, q) /\ Carried(q, r) /\ ReadStays(q, r)
              /\ q.keep = r.keep /\ q.leg = "out" /\ q.note = r.note /\ q.wrote = r.wrote
              /\ q.stage = s /\ q.err = r.err /\ q.leaked = r.leaked
  <1>1. PICK r \in Call : r = call[c]
    BY DEF TypeOK
  <1>2. PICK rec \in Call : rec = [r EXCEPT !.leg = "out", !.stage = s]
    BY SetLeg, SetStage
  <1>3. /\ Carried(rec, r) /\ ReadStays(rec, r) /\ rec.shaky = r.shaky
        /\ rec.keep = r.keep /\ rec.leg = "out" /\ rec.note = r.note /\ rec.wrote = r.wrote
        /\ rec.stage = s /\ rec.err = r.err /\ rec.leaked = r.leaked
    BY <1>2, SMT DEF Call, Carried, ReadStays
  <1>4. Becomes(c, o, rec)
    BY <1>1, <1>2 DEF Turns
  <1> QED
    BY <1>1, <1>3, <1>4, StepIs DEF Carried, WriteStays, ReadStays

----------------------------------------------------------------------------
(* The actions of the write *)

\* The backup is stored and the way out begins.
LEMMA LegIsGood ==
    ASSUME IInv, NEW c \in CallIds, NEW next \in Stages, Resolved(c), Turns(c, "done", next),
           call[c].op \notin Dry,
           \/ next = "mkTemp" /\ route = "pct"
           \/ next = "mkLxc" /\ route = "relay"
           \/ next = "stat" /\ route # "qm"
           \/ next = "agentWrite" /\ route = "qm"
    PROVE  Good(c)
  <1> DEFINE r == call[c]
             q == call'[c]
  <1>1. /\ r \in Call /\ TypeOK /\ Fits(c) /\ r.stage = "decide" /\ r.op \in {"write", "edit"}
        /\ UNCHANGED <<route, up, file, nodeTemp, lxcTemp, events>>
    BY DEF IInv, TypeOK, Fits, Resolved, At, Call, Ops
  <1>2. "done" \in Outcomes
    BY DEF Outcomes
  <1>3. /\ Leads(c, "done", q) /\ Carried(q, r) /\ ReadStays(q, r)
        /\ q.keep = r.keep /\ q.leg = "out" /\ q.note = r.note /\ q.wrote = r.wrote
        /\ q.stage = next /\ q.err = r.err /\ q.leaked = r.leaked
    BY <1>1, <1>2, LegStep
  <1>4. /\ ~r.err /\ ~r.wrote /\ r.got # Unread /\ r.leg = "in" /\ r.new \in Contents
        /\ nodeTemp[c] = Gone \/ r.leaked
        /\ lxcTemp[c] = Gone \/ r.leaked
    BY <1>1 DEF Fits, StageFits, TempsFit, ReadFits, WriteFits
  <1>5. TypeOK'
    BY <1>1, <1>3, <1>4 DEF TypeOK, Leads
  <1>6. Keeps(c)
    BY <1>1, <1>3, <1>4 DEF Keeps, Leads
  <1>7. Fits(c)'
    <2>1. StageFits(c)'
      BY <1>1, <1>3, <1>4 DEF StageFits
    <2>2. TempsFit(c)'
      BY <1>1, <1>3, <1>4 DEF TempsFit
    <2>3. ReadFits(c)'
      BY <1>1, <1>3, <1>4, GuestFilesAssumption DEF ReadFits, ReadStays
    <2>4. WriteFits(c)'
      BY <1>1, <1>3, <1>4 DEF Fits, WriteFits, ReadStays, Carried
    <2>5. PermsFit(c)'
      BY <1>1, <1>3, <1>4 DEF Fits, PermsFit, InFlight, Carried
    <2> QED
      BY <2>1, <2>2, <2>3, <2>4, <2>5 DEF Fits
  <1>8. Moves(c)
    BY <1>1, <1>3, <1>4, GuestFilesAssumption DEF Moves, Phase, Seen, Put, Leads, Carried, ReadStays
  <1> QED
    BY <1>5, <1>6, <1>7, <1>8 DEF Good

LEMMA StatIsGood ==
    ASSUME IInv, NEW c \in CallIds, NEW o \in Outcomes, Stat(c, o)
    PROVE  Good(c)
  <1> DEFINE r == call[c]
             q == call'[c]
             s == IF Throws(o) THEN "failed" ELSE IF route = "relay" THEN "mkLxc" ELSE "mkTemp"
             found == IF o = "done" /\ file.data # None THEN file.perms ELSE Lost
  <1>1. /\ r \in Call /\ TypeOK /\ Fits(c) /\ r.stage = "stat"
        /\ UNCHANGED <<route, up, file, nodeTemp, lxcTemp>>
    BY DEF IInv, TypeOK, Fits, Stat, At
  <1>2. s \in Stages /\ found \in Perms \cup {Lost}
    BY <1>1 DEF Stages, TypeOK, File
  <1>3. /\ Leads(c, o, q) /\ Carried(q, r) /\ ReadStays(q, r)
        /\ q.keep = found /\ q.leg = r.leg /\ q.note = r.note /\ q.wrote = r.wrote
        /\ q.stage = s /\ q.err = r.err /\ q.leaked = r.leaked
    <2>1. Learns(c, o, s, found)
      BY DEF Stat, Learns
    <2> HIDE DEF s, found
    <2> QED
      BY <1>1, <1>2, <2>1, StatStep
  <1>4. /\ ~r.err /\ ~r.wrote /\ r.got # Unread /\ r.leg = "out" /\ r.op \in {"write", "edit"}
        /\ route # "qm" /\ r.new \in Contents
        /\ nodeTemp[c] = Gone \/ r.leaked
        /\ lxcTemp[c] = Gone \/ r.leaked
    BY <1>1 DEF Fits, StageFits, TempsFit, ReadFits, WriteFits
  <1>5. TypeOK'
    BY <1>1, <1>3, <1>4 DEF TypeOK, Leads, Stat, Ends
  <1>6. Keeps(c)
    BY <1>1, <1>3, <1>4 DEF Keeps, Leads
  <1>7. Fits(c)'
    <2>1. StageFits(c)'
      BY <1>1, <1>3, <1>4 DEF StageFits
    <2>2. TempsFit(c)'
      BY <1>1, <1>3, <1>4 DEF TempsFit
    <2>3. ReadFits(c)'
      BY <1>1, <1>3, <1>4, GuestFilesAssumption DEF ReadFits, ReadStays
    <2>4. WriteFits(c)'
      BY <1>1, <1>3, <1>4 DEF Fits, WriteFits, ReadStays, Carried
    <2>5. PermsFit(c)'
      BY <1>1, <1>3, <1>4 DEF Fits, PermsFit, InFlight, Carried
    <2> QED
      BY <2>1, <2>2, <2>3, <2>4, <2>5 DEF Fits
  <1>8. Moves(c)
    BY <1>1, <1>3, <1>4, GuestFilesAssumption DEF Moves, Phase, Seen, Put, Leads, Carried, ReadStays
  <1> QED
    BY <1>5, <1>6, <1>7, <1>8 DEF Good

LEMMA SftpWriteIsGood ==
    ASSUME IInv, NEW c \in CallIds, NEW o \in Outcomes, SftpWrite(c, o)
    PROVE  Good(c)
  <1> DEFINE r == call[c]
             q == call'[c]
  <1>1. /\ r \in Call /\ TypeOK /\ Fits(c) /\ r.stage = "sftpWrite"
        /\ UNCHANGED <<route, up, file, lxcTemp>>
        /\ nodeTemp' = IF Effective(o) THEN [nodeTemp EXCEPT ![c] = r.new] ELSE nodeTemp
    BY DEF IInv, TypeOK, Fits, SftpWrite, At
  <1>2. "push" \in Stages /\ "rmTemp" \in Stages
    BY DEF Stages
  <1>3. /\ Leads(c, o, q) /\ Carried(q, r) /\ WriteStays(q, r) /\ ReadStays(q, r) /\ q.leaked = r.leaked
        /\ \/ o = "done" /\ q.stage = "push" /\ q.err = r.err
           \/ q.stage = "rmTemp" /\ q.err = TRUE
    <2>1. CASE o = "done" /\ Goes(c, o, "push")
      BY <1>1, <1>2, <2>1, StageStep DEF ReadStays
    <2>2. CASE Unwinds(c, o, "rmTemp")
      BY <1>1, <1>2, <2>2, UnwindStep DEF ReadStays
    <2> QED
      BY <2>1, <2>2 DEF SftpWrite
  <1>4. /\ ~r.err /\ ~r.wrote /\ r.got # Unread /\ r.leg = "out" /\ r.op \in {"write", "edit"}
        /\ route # "qm" /\ r.new \in Contents
        /\ route # "relay" => lxcTemp[c] = Gone \/ r.leaked
    BY <1>1 DEF Fits, StageFits, TempsFit, ReadFits, WriteFits
  <1>5. TypeOK'
    BY <1>1, <1>3, <1>4 DEF TypeOK, Leads, SftpWrite, Ends, Temp
  <1>6. Keeps(c)
    BY <1>1, <1>3, <1>4 DEF Keeps, Leads
  <1>7. Fits(c)'
    <2>1. StageFits(c)'
      BY <1>1, <1>3, <1>4 DEF StageFits, WriteStays
    <2>2. TempsFit(c)'
      BY <1>1, <1>3, <1>4 DEF TempsFit, TypeOK
    <2>3. ReadFits(c)'
      BY <1>1, <1>3, <1>4, GuestFilesAssumption DEF ReadFits, WriteStays, ReadStays
    <2>4. WriteFits(c)'
      BY <1>1, <1>3, <1>4 DEF Fits, WriteFits, WriteStays, ReadStays, Carried, Effective, TypeOK
    <2>5. PermsFit(c)'
      BY <1>1, <1>3, <1>4 DEF Fits, PermsFit, InFlight, WriteStays, Carried
    <2> QED
      BY <2>1, <2>2, <2>3, <2>4, <2>5 DEF Fits
  <1>8. Moves(c)
    BY <1>1, <1>3, <1>4, GuestFilesAssumption DEF Moves, Phase, Seen, Put, Leads, Carried, WriteStays, ReadStays
  <1> QED
    BY <1>5, <1>6, <1>7, <1>8 DEF Good

LEMMA PushIsGood ==
    ASSUME IInv, NEW c \in CallIds, NEW o \in Outcomes, Push(c, o)
    PROVE  Good(c)
  <1> DEFINE r == call[c]
             q == call'[c]
             e == o # "done"
             landed == [data |-> nodeTemp[c], perms |-> r.keep \ Lost]
  <1>1. /\ r \in Call /\ TypeOK /\ Fits(c) /\ r.stage = "push"
        /\ UNCHANGED <<route, up, nodeTemp>>
    BY DEF IInv, TypeOK, Fits, Push, At
  <1>2. "rmTemp" \in Stages /\ e \in BOOLEAN
    BY DEF Stages
  <1>3. /\ ~r.err /\ ~r.wrote /\ r.got # Unread /\ r.leg = "out" /\ r.op \in {"write", "edit"}
        /\ route # "qm" /\ r.new \in Contents /\ nodeTemp[c] = r.new
        /\ route # "relay" => lxcTemp[c] = Gone \/ r.leaked
    BY <1>1 DEF Fits, StageFits, TempsFit, ReadFits, WriteFits
  <1>4. landed \in File /\ (r.keep # Lost => landed.perms = r.keep) /\ landed.data = r.new
    BY <1>1, <1>3 DEF File, Call, Perms, Own, Lost
  <1>5. /\ Carried(q, r) /\ ReadStays(q, r) /\ q.leg = r.leg /\ q.keep = r.keep /\ q.leaked = r.leaked
        /\ q.note = r.note /\ q.stage = "rmTemp" /\ q.err = e
        /\ q \in Call /\ call' \in [CallIds -> Call] /\ (r.shaky => q.shaky)
        /\ \/ /\ Leads(c, o, q) /\ q.wrote = r.wrote /\ file' = file
              /\ \/ ~Effective(o) /\ lxcTemp' = lxcTemp
                 \/ route = "relay" /\ lxcTemp' = [lxcTemp EXCEPT ![c] = nodeTemp[c]]
           \/ /\ Overtook(c, o, q) /\ q.wrote = TRUE /\ route # "relay"
              /\ file' = landed /\ lxcTemp' = lxcTemp
    <2>1. PICK rec \in Call : /\ rec = [r EXCEPT !.stage = "rmTemp", !.err = e] /\ rec.shaky = r.shaky
                              /\ Onward(rec, r, "rmTemp", e, r.note, r.wrote)
      <3> HIDE DEF e
      <3> QED
        BY <1>1, <1>2, OnwardErr
    <2>2. PICK wrote \in Call : /\ wrote = [rec EXCEPT !.wrote = TRUE] /\ wrote.shaky = r.shaky
                                /\ Onward(wrote, r, "rmTemp", e, r.note, TRUE)
      BY <1>1, <2>1, OnwardWrote
    <2>3. CASE /\ Becomes(c, o, rec) /\ file' = file
               /\ \/ ~Effective(o) /\ lxcTemp' = lxcTemp
                  \/ route = "relay" /\ lxcTemp' = [lxcTemp EXCEPT ![c] = nodeTemp[c]]
      <3>1. Leads(c, o, q) /\ Onward(q, r, "rmTemp", e, r.note, r.wrote)
        BY <1>1, <2>1, <2>3, QuietIs
      <3> QED
        BY <2>3, <3>1 DEF Leads, Onward
    <2>4. CASE Overtakes(c, o, wrote) /\ route # "relay" /\ file' = landed /\ lxcTemp' = lxcTemp
      <3>1. Overtook(c, o, q) /\ Onward(q, r, "rmTemp", e, r.note, TRUE)
        BY <1>1, <2>2, <2>4, OvertakesIs
      <3> QED
        BY <2>4, <3>1 DEF Overtook, Onward
    <2> QED
      BY <2>1, <2>2, <2>3, <2>4 DEF Push, Lands
  <1>6. events' \in Nat
    BY <1>1 DEF TypeOK, Push, Ends
  <1>7. /\ lxcTemp' \in [CallIds -> Temp]
        /\ \A d \in CallIds \ {c} : lxcTemp'[d] = lxcTemp[d]
        /\ route # "relay" => lxcTemp'[c] = lxcTemp[c]
        /\ route = "relay" /\ o = "done" => lxcTemp'[c] = r.new
    BY <1>1, <1>5, <1>3 DEF TypeOK, Effective
  <1>8. ~q.err => IF route = "relay" THEN ~q.wrote /\ lxcTemp'[c] = r.new ELSE q.wrote
    BY <1>5, <1>3, <1>7 DEF Effective
  <1>9. TypeOK'
    BY <1>1, <1>5, <1>3, <1>4, <1>6, <1>7, <1>8 DEF TypeOK
  <1>10. Keeps(c)
    BY <1>1, <1>5, <1>3, <1>4, <1>6, <1>7, <1>8 DEF Keeps, Leads, Overtook
  <1>11. Fits(c)'
    <2>1. StageFits(c)'
      BY <1>1, <1>5, <1>3, <1>4, <1>6, <1>7, <1>8 DEF StageFits
    <2>2. TempsFit(c)'
      BY <1>1, <1>5, <1>3, <1>4, <1>6, <1>7, <1>8 DEF TempsFit, TypeOK
    <2>3. ReadFits(c)'
      BY <1>1, <1>5, <1>3, <1>4, <1>6, <1>7, <1>8, GuestFilesAssumption DEF ReadFits, ReadStays
    <2>4. WriteFits(c)'
      BY <1>1, <1>5, <1>3, <1>4, <1>6, <1>7, <1>8 DEF Fits, WriteFits, ReadStays, Carried, TypeOK
    <2>5. PermsFit(c)'
      BY <1>1, <1>5, <1>3, <1>4, <1>6, <1>7, <1>8 DEF Fits, PermsFit, InFlight, Carried
    <2> QED
      BY <2>1, <2>2, <2>3, <2>4, <2>5 DEF Fits
  <1>12. Moves(c)
    BY <1>1, <1>5, <1>3, <1>4, <1>6, <1>7, <1>8, GuestFilesAssumption DEF Moves, Phase, Seen, Put, Leads, Carried, ReadStays, Dry
  <1> QED
    BY <1>9, <1>10, <1>11, <1>12 DEF Good

LEMMA DockerCpInIsGood ==
    ASSUME IInv, NEW c \in CallIds, NEW o \in Outcomes, DockerCpIn(c, o)
    PROVE  Good(c)
  <1> DEFINE r == call[c]
             q == call'[c]
             known == r.keep # Lost
             n == ~known
             next == IF known THEN "chown" ELSE "rmLxc"
             landed == [data |-> lxcTemp[c], perms |-> {}]
  <1>1. /\ r \in Call /\ TypeOK /\ Fits(c) /\ r.stage = "cpIn"
        /\ UNCHANGED <<route, up, nodeTemp, lxcTemp>>
    BY DEF IInv, TypeOK, Fits, DockerCpIn, At
  <1>2. "rmLxc" \in Stages /\ next \in Stages /\ n \in BOOLEAN
    BY DEF Stages
  <1>3. /\ ~r.err /\ ~r.wrote /\ r.got # Unread /\ r.leg = "out" /\ r.op \in {"write", "edit"}
        /\ route = "relay" /\ r.new \in Contents /\ lxcTemp[c] = r.new
        /\ nodeTemp[c] = Gone \/ r.leaked
    BY <1>1 DEF Fits, StageFits, TempsFit, ReadFits, WriteFits
  <1>4. landed \in File /\ landed.perms = {} /\ landed.data = r.new
    BY <1>3 DEF File, Perms
  <1>5. /\ Carried(q, r) /\ ReadStays(q, r) /\ q.leg = r.leg /\ q.keep = r.keep /\ q.leaked = r.leaked
        /\ q \in Call /\ call' \in [CallIds -> Call] /\ (r.shaky => q.shaky)
        /\ \/ /\ Leads(c, o, q) /\ file' = file
              /\ q.stage = "rmLxc" /\ q.err = TRUE /\ q.note = r.note /\ q.wrote = r.wrote
           \/ /\ Overtook(c, o, q) /\ file' = landed /\ q.wrote = TRUE
              /\ \/ q.stage = next /\ q.err = r.err /\ q.note = n
                 \/ q.stage = "rmLxc" /\ q.err = TRUE /\ q.note = r.note
    <2>1. CASE o = "done"
      <3>1. PICK rec \in Call : /\ rec = [r EXCEPT !.stage = next, !.note = n] /\ rec.shaky = r.shaky
                                /\ Onward(rec, r, next, r.err, n, r.wrote)
        <4> HIDE DEF next, n
        <4> QED
          BY <1>1, <1>2, OnwardNote
      <3>2. PICK wrote \in Call : /\ wrote = [rec EXCEPT !.wrote = TRUE] /\ wrote.shaky = r.shaky
                                  /\ Onward(wrote, r, next, r.err, n, TRUE)
        <4> HIDE DEF next, n
        <4> QED
          BY <1>1, <3>1, OnwardWrote
      <3>3. Overtakes(c, o, wrote) /\ file' = landed
        BY <2>1, <3>1, <3>2 DEF DockerCpIn, Lands, Effective
      <3>4. Overtook(c, o, q) /\ Onward(q, r, next, r.err, n, TRUE)
        <4> HIDE DEF next, n
        <4> QED
          BY <1>1, <3>2, <3>3, OvertakesIs
      <3> QED
        BY <3>3, <3>4 DEF Overtook, Onward
    <2>2. CASE o # "done"
      <3>1. PICK rec \in Call : /\ rec = [r EXCEPT !.stage = "rmLxc", !.err = TRUE] /\ rec.shaky = r.shaky
                                /\ Onward(rec, r, "rmLxc", TRUE, r.note, r.wrote)
        BY <1>1, <1>2, OnwardErr
      <3>2. PICK wrote \in Call : /\ wrote = [rec EXCEPT !.wrote = TRUE] /\ wrote.shaky = r.shaky
                                  /\ Onward(wrote, r, "rmLxc", TRUE, r.note, TRUE)
        BY <1>1, <3>1, OnwardWrote
      <3>3. CASE Overtakes(c, o, wrote) /\ file' = landed
        <4>1. Overtook(c, o, q) /\ Onward(q, r, "rmLxc", TRUE, r.note, TRUE)
          BY <1>1, <3>2, <3>3, OvertakesIs
        <4> QED
          BY <3>3, <4>1 DEF Overtook, Onward
      <3>4. CASE Becomes(c, o, rec) /\ file' = file
        <4>1. Leads(c, o, q) /\ Onward(q, r, "rmLxc", TRUE, r.note, r.wrote)
          BY <1>1, <3>1, <3>4, QuietIs
        <4> QED
          BY <3>4, <4>1 DEF Leads, Onward
      <3> QED
        BY <2>2, <3>1, <3>2, <3>3, <3>4 DEF DockerCpIn, Lands
    <2> QED
      BY <2>1, <2>2
  <1>6. events' \in Nat
    BY <1>1 DEF TypeOK, DockerCpIn, Ends
  <1>7. TypeOK'
    BY <1>1, <1>5, <1>3, <1>4, <1>6 DEF TypeOK
  <1>8. Keeps(c)
    BY <1>1, <1>5, <1>3, <1>4, <1>6 DEF Keeps, Leads, Overtook
  <1>9. Fits(c)'
    <2>1. StageFits(c)'
      BY <1>1, <1>5, <1>3, <1>4, <1>6 DEF StageFits
    <2>2. TempsFit(c)'
      BY <1>1, <1>5, <1>3, <1>4, <1>6 DEF TempsFit
    <2>3. ReadFits(c)'
      BY <1>1, <1>5, <1>3, <1>4, <1>6, GuestFilesAssumption DEF ReadFits, ReadStays
    <2>4. WriteFits(c)'
      BY <1>1, <1>5, <1>3, <1>4, <1>6 DEF Fits, WriteFits, ReadStays, Carried
    <2>5. PermsFit(c)'
      BY <1>1, <1>5, <1>3, <1>4, <1>6 DEF Fits, PermsFit, InFlight, Carried
    <2> QED
      BY <2>1, <2>2, <2>3, <2>4, <2>5 DEF Fits
  <1>10. Moves(c)
    BY <1>1, <1>5, <1>3, <1>4, <1>6, GuestFilesAssumption DEF Moves, Phase, Seen, Put, Leads, Carried, ReadStays, Dry
  <1> QED
    BY <1>7, <1>8, <1>9, <1>10 DEF Good

LEMMA RestorePermIsGood ==
    ASSUME IInv, NEW c \in CallIds, NEW o \in Outcomes, NEW stage, NEW perm, NEW next,
           RestorePerm(c, o, stage, perm, next),
           \/ stage = "chown" /\ perm = "owner" /\ next = "chmod"
           \/ stage = "chmod" /\ perm = "mode" /\ next = "rmLxc"
    PROVE  Good(c)
  <1> DEFINE r == call[c]
             q == call'[c]
             there == file.data # None
             s == IF Throws(o) THEN "rmLxc" ELSE next
             e == Throws(o)
             n == r.note \/ o = "exit" \/ ~there
             restored == [file EXCEPT !.perms = (@ \ {perm}) \cup ({perm} \cap r.keep)]
  <1>1. /\ r \in Call /\ TypeOK /\ Fits(c) /\ r.stage = stage
        /\ UNCHANGED <<route, up, nodeTemp, lxcTemp>>
    BY DEF IInv, TypeOK, Fits, RestorePerm, At
  <1>2. s \in Stages /\ e \in BOOLEAN /\ n \in BOOLEAN
    BY <1>1 DEF Stages, Throws, Call
  <1>3. /\ ~r.err /\ r.wrote /\ r.got # Unread /\ r.leg = "out" /\ r.op \in {"write", "edit"}
        /\ route = "relay" /\ r.new \in Contents
        /\ nodeTemp[c] = Gone \/ r.leaked
    BY <1>1 DEF Fits, StageFits, TempsFit, ReadFits, WriteFits
  <1>4. /\ restored \in File /\ restored.data = file.data
        /\ restored.perms = (file.perms \ {perm}) \cup ({perm} \cap r.keep)
    <2>1. PICK f \in File : f = file
      BY <1>1 DEF TypeOK
    <2>2. perm \in Own
      BY DEF Own
    <2> QED
      BY <2>1, <2>2, SMT DEF File, Perms
  <1>5. /\ Onward(q, r, s, e, n, r.wrote) /\ q \in Call /\ call' \in [CallIds -> Call]
        /\ r.shaky => q.shaky
        /\ \/ Leads(c, o, q) /\ file' = file /\ ~(Effective(o) /\ there)
           \/ Overtook(c, o, q) /\ file' = restored /\ Effective(o) /\ there
    <2>1. PICK rec \in Call : /\ rec = [r EXCEPT !.stage = s, !.err = e, !.note = n] /\ rec.shaky = r.shaky
                              /\ Onward(rec, r, s, e, n, r.wrote)
      <3> HIDE DEF s, e, n, r
      <3> QED
        BY <1>1, <1>2, OnwardBoth
    <2>2. CASE Effective(o) /\ there
      <3>1. Overtakes(c, o, rec) /\ file' = restored
        BY <2>1, <2>2 DEF RestorePerm
      <3>2. Overtook(c, o, q) /\ Onward(q, r, s, e, n, r.wrote)
        <4> HIDE DEF s, e, n
        <4> QED
          BY <1>1, <2>1, <3>1, OvertakesIs
      <3> QED
        BY <2>2, <3>1, <3>2 DEF Overtook
    <2>3. CASE ~(Effective(o) /\ there)
      <3>1. Becomes(c, o, rec) /\ file' = file
        BY <2>1, <2>3 DEF RestorePerm
      <3>2. Leads(c, o, q) /\ Onward(q, r, s, e, n, r.wrote)
        <4> HIDE DEF s, e, n
        <4> QED
          BY <1>1, <2>1, <3>1, QuietIs
      <3> QED
        BY <2>3, <3>1, <3>2 DEF Leads
    <2> QED
      BY <2>2, <2>3
  <1>6. events' \in Nat
    BY <1>1 DEF TypeOK, RestorePerm, Ends
  <1>7. /\ q.stage = s /\ q.err = e /\ q.note = n /\ q.wrote = r.wrote /\ Carried(q, r) /\ ReadStays(q, r)
         /\ q.leg = r.leg /\ q.keep = r.keep /\ q.leaked = r.leaked
    BY <1>5 DEF Onward
  <1>8. file'.data = file.data /\ (s \in {"chmod", "rmLxc"})
    BY <1>5, <1>4
  <1>9. r.keep \cup file.perms \subseteq Own \/ r.keep = Lost
    BY <1>1 DEF TypeOK, Call, File, Perms
  <1>10. ~r.touched =>
            /\ r.keep # Lost /\ r.keep = r.before.perms
            /\ stage = "chown" => file.perms = {}
            /\ stage = "chmod" => r.note \/ file.perms = r.keep \cap {"owner"}
    BY <1>1, <1>3 DEF Fits, PermsFit, InFlight
  <1>11. ~r.touched /\ ~r.note =>
            restored.perms = IF stage = "chown" THEN r.keep \cap {"owner"} ELSE r.keep
    BY <1>4, <1>9, <1>10 DEF Own
  <1>12. ~e /\ ~n => ~r.note /\ Effective(o) /\ there /\ s = next
    BY DEF Effective, Throws, Outcomes
  <1>13. ~r.touched /\ ~q.err =>
            q.note \/ file'.perms = IF stage = "chown" THEN r.keep \cap {"owner"} ELSE r.keep
    BY <1>5, <1>7, <1>11, <1>12
  <1>14. ~q.err => s = next
    BY <1>7
  <1>15. TypeOK'
    BY <1>1, <1>5, <1>3, <1>4, <1>6, <1>7, <1>8 DEF TypeOK
  <1>16. Keeps(c)
    BY <1>1, <1>5, <1>3, <1>4, <1>6, <1>7, <1>8 DEF Keeps, Leads, Overtook
  <1>17. Fits(c)'
    <2>1. StageFits(c)'
      BY <1>1, <1>5, <1>3, <1>4, <1>6, <1>7, <1>8 DEF StageFits
    <2>2. TempsFit(c)'
      BY <1>1, <1>5, <1>3, <1>4, <1>6, <1>7, <1>8 DEF TempsFit
    <2>3. ReadFits(c)'
      BY <1>1, <1>5, <1>3, <1>4, <1>6, <1>7, <1>8, GuestFilesAssumption DEF ReadFits, ReadStays
    <2>4. WriteFits(c)'
      BY <1>1, <1>5, <1>3, <1>4, <1>6, <1>7, <1>8 DEF Fits, WriteFits, ReadStays, Carried
    <2>5. PermsFit(c)'
      BY <1>1, <1>3, <1>7, <1>10, <1>13, <1>14 DEF PermsFit, InFlight, Carried
    <2> QED
      BY <2>1, <2>2, <2>3, <2>4, <2>5 DEF Fits
  <1>18. Moves(c)
    BY <1>1, <1>5, <1>3, <1>4, <1>6, <1>7, <1>8, GuestFilesAssumption DEF Moves, Phase, Seen, Put, Leads, Carried, ReadStays, Dry
  <1> QED
    BY <1>15, <1>16, <1>17, <1>18 DEF Good

LEMMA AgentWriteIsGood ==
    ASSUME IInv, NEW c \in CallIds, NEW o \in Outcomes, AgentWrite(c, o)
    PROVE  Good(c)
  <1> DEFINE r == call[c]
             q == call'[c]
             s == IF o = "done" THEN "audit" ELSE "failed"
  <1>1. /\ r \in Call /\ TypeOK /\ Fits(c) /\ r.stage = "agentWrite"
        /\ UNCHANGED <<route, up, nodeTemp, lxcTemp>>
    BY DEF IInv, TypeOK, Fits, AgentWrite, At
  <1>2. s \in Stages
    BY DEF Stages
  <1>3. /\ ~r.err /\ ~r.wrote /\ r.got # Unread /\ r.leg = "out" /\ r.op \in {"write", "edit"}
        /\ route = "qm" /\ r.new \in Contents
        /\ nodeTemp[c] = Gone \/ r.leaked
        /\ lxcTemp[c] = Gone \/ r.leaked
    BY <1>1 DEF Fits, StageFits, TempsFit, ReadFits, WriteFits
  <1>4. /\ Carried(q, r) /\ ReadStays(q, r) /\ q.leg = r.leg /\ q.keep = r.keep /\ q.leaked = r.leaked
        /\ q \in Call /\ call' \in [CallIds -> Call] /\ (r.shaky => q.shaky)
        /\ q.stage = s /\ q.err = r.err /\ q.note = r.note
        /\ \/ Leads(c, o, q) /\ file' = file /\ q.wrote = r.wrote /\ s = "failed"
           \/ Overtook(c, o, q) /\ file' \in File /\ file'.data = r.new /\ q.wrote = TRUE
    <2>1. PICK rec \in Call : /\ rec = [r EXCEPT !.stage = s] /\ rec.shaky = r.shaky
                              /\ Onward(rec, r, s, r.err, r.note, r.wrote)
      <3> HIDE DEF s
      <3> QED
        BY <1>1, <1>2, OnwardStage
    <2>2. PICK wrote \in Call : /\ wrote = [rec EXCEPT !.wrote = TRUE] /\ wrote.shaky = r.shaky
                                /\ Onward(wrote, r, s, r.err, r.note, TRUE)
      <3> HIDE DEF s
      <3> QED
        BY <1>1, <2>1, OnwardWrote
    <2>3. CASE Effective(o)
      <3>1. PICK p \in Perms : Overtakes(c, o, wrote) /\ file' = [data |-> r.new, perms |-> p]
        BY <2>1, <2>2, <2>3 DEF AgentWrite, Lands
      <3>2. Overtook(c, o, q) /\ Onward(q, r, s, r.err, r.note, TRUE)
        <4> HIDE DEF s
        <4> QED
          BY <1>1, <2>2, <3>1, OvertakesIs
      <3>3. file' \in File /\ file'.data = r.new
        BY <1>3, <3>1 DEF File
      <3> QED
        BY <3>2, <3>3 DEF Overtook, Onward
    <2>4. CASE ~Effective(o)
      <3>1. Becomes(c, o, rec) /\ file' = file
        BY <2>1, <2>4 DEF AgentWrite
      <3>2. Leads(c, o, q) /\ Onward(q, r, s, r.err, r.note, r.wrote)
        <4> HIDE DEF s
        <4> QED
          BY <1>1, <2>1, <3>1, QuietIs
      <3>3. s = "failed"
        BY <2>4 DEF Effective
      <3> QED
        BY <3>1, <3>2, <3>3 DEF Leads, Onward
    <2> QED
      BY <2>3, <2>4
  <1>5. events' \in Nat
    BY <1>1 DEF TypeOK, AgentWrite, Ends
  <1>6. TypeOK'
    BY <1>1, <1>4, <1>3, <1>5 DEF TypeOK
  <1>7. Keeps(c)
    BY <1>1, <1>4, <1>3, <1>5 DEF Keeps, Leads, Overtook
  <1>8. Fits(c)'
    <2>1. StageFits(c)'
      BY <1>1, <1>4, <1>3, <1>5 DEF StageFits
    <2>2. TempsFit(c)'
      BY <1>1, <1>4, <1>3, <1>5 DEF TempsFit
    <2>3. ReadFits(c)'
      BY <1>1, <1>4, <1>3, <1>5, GuestFilesAssumption DEF ReadFits, ReadStays
    <2>4. WriteFits(c)'
      BY <1>1, <1>4, <1>3, <1>5 DEF Fits, WriteFits, ReadStays, Carried
    <2>5. PermsFit(c)'
      BY <1>1, <1>4, <1>3, <1>5 DEF Fits, PermsFit, InFlight, Carried
    <2> QED
      BY <2>1, <2>2, <2>3, <2>4, <2>5 DEF Fits
  <1>9. Moves(c)
    BY <1>1, <1>4, <1>3, <1>5, GuestFilesAssumption DEF Moves, Phase, Seen, Put, Leads, Carried, ReadStays, Dry
  <1> QED
    BY <1>6, <1>7, <1>8, <1>9 DEF Good

----------------------------------------------------------------------------
(* The beginning of a call, and the environment *)

LEMMA NoCallType == NoCall \in Call
  <1>1. Missing \in File
    BY DEF Missing, File, Own, Perms
  <1> HIDE DEF Missing
  <1> QED
    BY <1>1, SMT DEF NoCall, Call, Ops, Stages

LEMMA SetOp == ASSUME NEW r \in Call, NEW v \in Ops PROVE [r EXCEPT !.op = v] \in Call
  BY SMT DEF Call

LEMMA SetBefore == ASSUME NEW r \in Call, NEW v \in File PROVE [r EXCEPT !.before = v] \in Call
  BY SMT DEF Call

LEMMA SetNew == ASSUME NEW r \in Call, NEW v \in Contents \cup {Unread} PROVE [r EXCEPT !.new = v] \in Call
  BY SMT DEF Call

LEMMA BeginIsGood ==
    ASSUME IInv, NEW c \in CallIds, NEW routes, NEW op \in Ops, NEW new \in Contents \cup {Unread},
           op # "read" => new \in Contents, Begin(c, routes, op, new)
    PROVE  Good(c)
  <1> DEFINE r == call[c]
             q == call'[c]
  <1>1. /\ r \in Call /\ TypeOK /\ Fits(c) /\ r.stage = "idle" /\ r = NoCall
        /\ UNCHANGED <<route, up, file, nodeTemp, lxcTemp, events>> /\ file \in File
    BY DEF IInv, TypeOK, Fits, StageFits, Begin, At
  <1>2. PICK rec \in Call : rec = [NoCall EXCEPT !.op = op, !.stage = "check", !.before = file, !.new = new]
    <2>1. "check" \in Stages /\ NoCall \in Call
      BY NoCallType DEF Stages
    <2> HIDE DEF NoCall
    <2> QED
      BY <1>1, <2>1, SetOp, SetStage, SetBefore, SetNew
  <1>3. /\ rec.op = op /\ rec.stage = "check" /\ rec.before = file /\ rec.new = new /\ rec.leg = "in"
        /\ ~rec.err /\ rec.got = Unread /\ rec.sample = Unread /\ rec.keep = Lost /\ ~rec.wrote
        /\ rec.leaked = FALSE
    BY <1>2 DEF NoCall
  <1>4. call' = [call EXCEPT ![c] = rec]
    BY <1>2 DEF Begin
  <1>5. /\ q = rec /\ call' \in [CallIds -> Call] /\ \A d \in CallIds \ {c} : call'[d] = call[d]
    BY <1>1, <1>4 DEF TypeOK
  <1>6. nodeTemp[c] = Gone /\ lxcTemp[c] = Gone /\ r.got = Unread /\ r.sample = Unread /\ r.op = "read"
        /\ r.shaky = FALSE
    BY <1>1 DEF Fits, TempsFit, NoCall
  <1>7. TypeOK'
    BY <1>1, <1>5 DEF TypeOK
  <1>8. Keeps(c)
    BY <1>1, <1>5 DEF Keeps
  <1>9. Fits(c)'
    BY <1>1, <1>3, <1>5, <1>6
    DEF Fits, StageFits, TempsFit, ReadFits, WriteFits, PermsFit, InFlight
  <1>10. Moves(c)
    BY <1>1, <1>3, <1>5, <1>6 DEF Moves, Phase, Seen, Put
  <1> QED
    BY <1>7, <1>8, <1>9, <1>10 DEF Good

\* All but who overtook the call.
Carries(q, r) ==
    /\ q.op = r.op /\ q.new = r.new /\ q.before = r.before /\ WriteStays(q, r) /\ ReadStays(q, r)
    /\ q.stage = r.stage /\ q.err = r.err /\ q.leaked = r.leaked /\ q.shaky = r.shaky

\* A step of the environment is one of the channel when it leaves the calls where they are.
LEMMA OutOfBandIsGood ==
    ASSUME IInv, OutOfBand
    PROVE  IInv' /\ [Channel!Next]_Channel!vars
  <1> DEFINE over(c) == call[c].touched \/ InFlight(c)
  <1>1. TypeOK /\ UNCHANGED <<route, up, nodeTemp, lxcTemp>> /\ events' \in Nat
    BY DEF IInv, TypeOK, OutOfBand
  <1>2. call' = [c \in CallIds |-> [call[c] EXCEPT !.touched = over(c)]] /\ \A c \in CallIds : over(c) \in BOOLEAN
    BY <1>1 DEF OutOfBand, TypeOK, Call
  <1>3. ASSUME NEW c \in CallIds
        PROVE  /\ call'[c] \in Call /\ Carries(call'[c], call[c])
               /\ call'[c].touched = over(c)
    <2>1. PICK q \in Call : q = [call[c] EXCEPT !.touched = over(c)]
      <3> HIDE DEF over
      <3> QED
        BY <1>1, <1>2, SetTouched DEF TypeOK
    <2>2. PICK r \in Call : r = call[c]
      BY <1>1 DEF TypeOK
    <2>3. q.touched = over(c) /\ Carries(q, r)
      <3> HIDE DEF over
      <3> QED
        BY <1>2, <2>1, <2>2, SMT DEF Call, Carries, WriteStays, ReadStays
    <2> QED
      BY <1>2, <2>1, <2>2, <2>3
  <1>4. file' \in File
    BY DEF OutOfBand, File, Missing, Own, Perms
  <1>5. TypeOK'
    BY <1>1, <1>2, <1>3, <1>4 DEF TypeOK
  <1>6. ASSUME NEW c \in CallIds PROVE Fits(c)'
    <2>1. Fits(c)
      BY DEF IInv, Fits
    <2>2. CASE InFlight(c)
      <3>1. call'[c].touched /\ InFlight(c)'
        BY <1>3, <2>2 DEF InFlight, Carries
      <3>2. StageFits(c)'
        BY <1>1, <1>3, <2>1, <2>2 DEF Fits, StageFits, InFlight, Carries, WriteStays
      <3>3. TempsFit(c)' /\ ReadFits(c)' /\ WriteFits(c)'
        BY <1>1, <1>3, <2>1
        DEF Fits, TempsFit, ReadFits, WriteFits, Carries, WriteStays, ReadStays
      <3>4. PermsFit(c)'
        BY <3>1 DEF PermsFit
      <3> QED
        BY <3>2, <3>3, <3>4 DEF Fits
    <2>3. CASE ~InFlight(c)
      <3>1. call'[c] = call[c]
        <4>1. over(c) = call[c].touched
          BY <1>1, <2>3 DEF TypeOK, Call
        <4>2. call'[c] = [call[c] EXCEPT !.touched = call[c].touched]
          BY <1>2, <4>1
        <4>3. PICK r \in Call : r = call[c]
          BY <1>1 DEF TypeOK
        <4>4. [r EXCEPT !.touched = r.touched] = r
          BY SMT DEF Call
        <4> QED
          BY <4>2, <4>3, <4>4
      <3> QED
        BY <1>1, <2>1, <2>3, <3>1
        DEF Fits, StageFits, TempsFit, ReadFits, WriteFits, PermsFit, InFlight
    <2> QED
      BY <2>2, <2>3
  <1>7. IInv'
    BY <1>5, <1>6 DEF IInv, Fits
  <1>8. \A c \in CallIds : Seen(c)' = Seen(c) /\ Phase(c)' = Phase(c) /\ Put(c)' = Put(c)
                           /\ call'[c].shaky = call[c].shaky
    BY <1>3 DEF Seen, Phase, Put, Carries, WriteStays, ReadStays
  <1>9. Channel!Next
    <2>1. file'.data \in Contents \cup {None}
      BY <1>4 DEF File
    <2> QED
      BY <1>8, <2>1 DEF Channel!Next, Channel!OutOfBand
  <1> QED
    BY <1>7, <1>9

LEMMA PowerIsGood ==
    ASSUME IInv, Power
    PROVE  IInv' /\ [Channel!Next]_Channel!vars
  <1> DEFINE b(c) == call[c].shaky \/ InFlight(c)
  <1>1. TypeOK /\ UNCHANGED <<route, file, nodeTemp, lxcTemp>> /\ events' \in Nat /\ up' \in BOOLEAN
    BY DEF IInv, TypeOK, Power
  <1>2. call' = [c \in CallIds |-> [call[c] EXCEPT !.shaky = b(c)]] /\ \A c \in CallIds : b(c) \in BOOLEAN
    BY <1>1 DEF Power, TypeOK, Call
  <1>3. ASSUME NEW c \in CallIds
        PROVE  /\ call'[c] \in Call /\ Carried(call'[c], call[c]) /\ WriteStays(call'[c], call[c])
               /\ ReadStays(call'[c], call[c]) /\ call'[c].stage = call[c].stage
               /\ call'[c].err = call[c].err /\ call'[c].leaked = call[c].leaked
               /\ call'[c].shaky = b(c)
    <2>1. PICK r \in Call : r = call[c]
      BY <1>1 DEF TypeOK
    <2>2. PICK q \in Call : /\ q = [r EXCEPT !.shaky = b(c)] /\ Carried(q, r) /\ WriteStays(q, r)
                            /\ ReadStays(q, r) /\ q.stage = r.stage /\ q.err = r.err
                            /\ q.leaked = r.leaked /\ q.shaky = b(c)
      <3> HIDE DEF b
      <3> QED
        BY <1>2, ShakyIs
    <2>3. call'[c] = q
      BY <1>2, <2>1, <2>2
    <2> QED
      BY <2>1, <2>2, <2>3
  <1>4. TypeOK'
    BY <1>1, <1>2, <1>3 DEF TypeOK
  <1>5. ASSUME NEW c \in CallIds PROVE Fits(c)'
    <2>1. Fits(c)
      BY DEF IInv, Fits
    <2>2. CASE InFlight(c)
      BY <1>1, <1>3, <2>1, <2>2
      DEF Fits, StageFits, TempsFit, ReadFits, WriteFits, PermsFit, InFlight, Carried, WriteStays, ReadStays
    <2>3. CASE ~InFlight(c)
      <3>1. call'[c] = call[c]
        <4>1. b(c) = call[c].shaky
          BY <1>1, <2>3 DEF TypeOK, Call
        <4>2. call'[c] = [call[c] EXCEPT !.shaky = call[c].shaky]
          BY <1>2, <4>1
        <4>3. PICK r \in Call : r = call[c]
          BY <1>1 DEF TypeOK
        <4>4. [r EXCEPT !.shaky = r.shaky] = r
          BY SMT DEF Call
        <4> QED
          BY <4>2, <4>3, <4>4
      <3> QED
        BY <1>1, <2>1, <2>3, <3>1
        DEF Fits, StageFits, TempsFit, ReadFits, WriteFits, PermsFit, InFlight
    <2> QED
      BY <2>2, <2>3
  <1>6. IInv'
    BY <1>4, <1>5 DEF IInv, Fits
  <1>7. \A c \in CallIds : Seen(c)' = Seen(c) /\ Phase(c)' = Phase(c) /\ Put(c)' = Put(c)
                           /\ (call[c].shaky => call'[c].shaky)
    BY <1>3 DEF Seen, Phase, Put, Carried, WriteStays, ReadStays
  <1>8. Channel!Next
    <2>1. file'.data \in Contents \cup {None}
      BY <1>1 DEF TypeOK, File
    <2> QED
      BY <1>7, <2>1 DEF Channel!Next, Channel!OutOfBand
  <1> QED
    BY <1>6, <1>8

----------------------------------------------------------------------------
(* The theorems *)

LEMMA InitIInv == Init => IInv
  <1> SUFFICES ASSUME Init PROVE IInv
    OBVIOUS
  <1>1. file \in File
    BY DEF Init, File, Missing, Own, Perms
  <1>2. NoCall \in Call
    BY NoCallType
  <1>3. TypeOK
    BY <1>1, <1>2 DEF Init, TypeOK, Temp
  <1>4. ASSUME NEW c \in CallIds PROVE Fits(c)
    BY DEF Init, Fits, StageFits, TempsFit, ReadFits, WriteFits, PermsFit, InFlight, NoCall
  <1> QED
    BY <1>3, <1>4 DEF IInv, Fits

LEMMA InitChannel == Init => Channel!Init
  <1> SUFFICES ASSUME Init PROVE Channel!Init
    OBVIOUS
  <1>1. file.data \in Contents \cup {None}
    BY DEF Init, Missing
  <1>2. \A c \in CallIds : Seen(c) = Unread /\ Phase(c) = "idle" /\ Put(c) = Unread /\ call[c].shaky = FALSE
    BY DEF Init, Seen, Phase, Put, NoCall
  <1> QED
    BY <1>1, <1>2 DEF Channel!Init

LEMMA ToolsAreGood ==
    ASSUME IInv, NEW c \in CallIds, PctTools(c) \/ QmTools(c) \/ DockerTools(c)
    PROVE  Good(c)
  <1>1. CASE PctReadFile(c) \/ QmReadFile(c) \/ DockerReadFile(c)
    BY <1>1, BeginIsGood DEF PctReadFile, QmReadFile, DockerReadFile, Ops
  <1>2. ASSUME NEW dryRun \in BOOLEAN, NEW new \in Contents,
               \/ PctWriteFile(c, dryRun, new) \/ PctEditFile(c, dryRun, new)
               \/ QmWriteFile(c, dryRun, new) \/ QmEditFile(c, dryRun, new)
               \/ DockerWriteFile(c, dryRun, new) \/ DockerEditFile(c, dryRun, new)
        PROVE  Good(c)
    <2> DEFINE write == IF dryRun THEN "dryWrite" ELSE "write"
               edit == IF dryRun THEN "dryEdit" ELSE "edit"
    <2>1. write \in Ops /\ edit \in Ops
      BY DEF Ops, Dry
    <2>2. \/ Begin(c, {"pct"}, write, new) \/ Begin(c, {"pct"}, edit, new)
          \/ Begin(c, {"qm"}, write, new) \/ Begin(c, {"qm"}, edit, new)
          \/ Begin(c, Docker, write, new) \/ Begin(c, Docker, edit, new)
      BY <1>2 DEF PctWriteFile, PctEditFile, QmWriteFile, QmEditFile, DockerWriteFile, DockerEditFile
    <2> HIDE DEF write, edit
    <2> QED
      BY <2>1, <2>2, BeginIsGood
  <1> QED
    BY <1>1, <1>2 DEF PctTools, QmTools, DockerTools

LEMMA HandlerIsGood ==
    ASSUME IInv, NEW c \in CallIds, Handler(c)
    PROVE  Good(c)
  <1>1. ASSUME NEW o \in Outcomes, AssertContainerRunning(c, o) PROVE Good(c)
    <2>1. /\ call[c].stage = "check" /\ route \in Routes /\ route # "qm"
          /\ Passes(c, o, TRUE, IF route = "pct" THEN "probe" ELSE "inspect")
      BY <1>1 DEF AssertContainerRunning, At, IInv, TypeOK
    <2>2. CASE route = "pct"
      BY <2>1, <2>2, CheckIsGood DEF Stages
    <2>3. CASE route # "pct"
      BY <2>1, <2>3, CheckIsGood DEF Stages, Docker, Routes
    <2> QED
      BY <2>2, <2>3
  <1>2. ASSUME NEW o \in Outcomes, ResolveDockerContainer(c, o) PROVE Good(c)
    <2>1. /\ call[c].stage = "inspect" /\ route \in Routes /\ route \in Docker
          /\ Passes(c, o, TRUE, IF route = "relay" THEN "mkLxc" ELSE "probe")
      <3>1. call[c].stage = "inspect" /\ Passes(c, o, TRUE, IF route = "relay" THEN "mkLxc" ELSE "probe")
        BY <1>2 DEF ResolveDockerContainer, At
      <3>2. route \in Routes /\ StageFits(c)
        BY DEF IInv, TypeOK
      <3>3. route # "pct" /\ route # "qm"
        BY <3>1, <3>2 DEF StageFits, Docker
      <3> QED
        BY <3>1, <3>2, <3>3 DEF Routes, Docker
    <2>2. CASE route = "relay"
      BY <2>1, <2>2, CheckIsGood DEF Stages
    <2>3. CASE route # "relay"
      BY <2>1, <2>3, CheckIsGood DEF Stages, Docker, Routes
    <2> QED
      BY <2>2, <2>3
  <1>3. ASSUME NEW o \in Outcomes, AssertAgentAvailable(c, o) \/ ResolveNodeName(c, o) PROVE Good(c)
    <2>1. /\ call[c].stage \in {"check", "hostname"} /\ route = "qm"
          /\ \/ Passes(c, o, TRUE, "hostname") \/ Passes(c, o, FALSE, "agentRead")
      BY <1>3 DEF AssertAgentAvailable, ResolveNodeName, At, IInv, StageFits
    <2> QED
      BY <2>1, CheckIsGood DEF Stages
  <1>4. ASSUME Answer(c) \/ EditFails(c) \/ Refuse(c) \/ Audit(c) PROVE Good(c)
    BY <1>4, EndIsGood DEF Answer, EditFails, Refuse, Audit, At
  <1>5. ASSUME WriteResolvedPct(c) \/ WriteResolvedDocker(c) \/ WriteResolvedQm(c) PROVE Good(c)
    <2>1. PICK stage \in {"mkTemp", "mkLxc", "stat", "agentWrite"} :
             /\ Resolved(c) /\ Writes(c, stage)
             /\ \/ stage = "mkTemp" /\ route = "pct"
                \/ stage = "mkLxc" /\ route = "relay"
                \/ stage = "stat" /\ route # "qm"
                \/ stage = "agentWrite" /\ route = "qm"
      BY <1>5 DEF WriteResolvedPct, WriteResolvedDocker, WriteResolvedQm, Docker
    <2>2. CASE call[c].op \in Dry
      BY <2>1, <2>2, EndIsGood DEF Writes, Resolved, At
    <2>3. CASE call[c].op \notin Dry
      <3>1. Turns(c, "done", stage) /\ stage \in Stages
        BY <2>1, <2>3 DEF Writes, Turns, Stages
      <3> QED
        BY <2>1, <2>3, <3>1, LegIsGood
    <2> QED
      BY <2>2, <2>3
  <1>6. ASSUME NEW o \in Outcomes,
               \/ RestorePerm(c, o, "chown", "owner", "chmod")
               \/ RestorePerm(c, o, "chmod", "mode", "rmLxc")
        PROVE  Good(c)
    BY <1>6, RestorePermIsGood
  <1> QED
    BY <1>1, <1>2, <1>3, <1>4, <1>5, <1>6, AgentReadIsGood, DockerCpOutIsGood, PullIsGood,
       MakeLxcTempIsGood, ProbeIsGood, MakeNodeTempIsGood, SftpReadIsGood, RemoveNodeTempIsGood,
       RemoveLxcTempIsGood, StatIsGood, SftpWriteIsGood, PushIsGood, DockerCpInIsGood, AgentWriteIsGood
    DEF Handler

LEMMA NextIInv == IInv /\ [Next]_vars => IInv' /\ [Channel!Next]_Channel!vars
  <1> SUFFICES ASSUME IInv, [Next]_vars
               PROVE  IInv' /\ [Channel!Next]_Channel!vars
    OBVIOUS
  <1>1. ASSUME NEW c \in CallIds, Good(c)
        PROVE  IInv' /\ [Channel!Next]_Channel!vars
    BY <1>1, OthersStay, AStepOfTheChannel DEF Good, IInv
  <1>2. ASSUME NEW c \in CallIds, PctTools(c) \/ QmTools(c) \/ DockerTools(c) \/ Handler(c)
        PROVE  Good(c)
    BY <1>2, ToolsAreGood, HandlerIsGood
  <1>3. CASE UNCHANGED vars
    BY <1>3 DEF vars, IInv, TypeOK, StageFits, TempsFit, ReadFits, WriteFits, PermsFit, InFlight,
                Channel!vars, Seen, Phase, Put
  <1> QED
    BY <1>1, <1>2, <1>3, OutOfBandIsGood, PowerIsGood DEF Next

\* Every call is where its route, its leg and its failures say, and what it holds is what
\* it read or is to write.
THEOREM Invariance == Spec => []IInv
  BY InitIInv, NextIInv, PTL DEF Spec

\* The progress of every call is well-formed, whatever the commands answer.
THEOREM TypeCorrect == Spec => []TypeOK
  <1>1. IInv => TypeOK
    BY DEF IInv
  <1> QED
    BY <1>1, Invariance, PTL

\* However the commands of any number of calls interleave and fail, a call that has ended
\* leaves a temporary file only if the command that makes or removes one failed.
THEOREM NoTempLeft == Spec => []TempsAreGone
  <1>1. IInv => TempsAreGone
    BY DEF IInv, TempsFit, TempsAreGone
  <1> QED
    BY <1>1, Invariance, PTL

\* A write that nobody overtook keeps the owner and the mode of the file, or says so: the
\* perms found by the stat are the ones pushed, or restored by the chown and the chmod.
THEOREM PermsAreKept == Spec => []WriteKeepsPerms
  <1>1. IInv => WriteKeepsPerms
    BY DEF IInv, TypeOK, StageFits, WriteFits, PermsFit, InFlight, WriteKeepsPerms, At
  <1> QED
    BY <1>1, Invariance, PTL

\* Any number of file tools on one file implement the channel that WritePipeline uses: each
\* command is one of its steps, or none.
THEOREM Refinement == Spec => IsOneReadOneWrite
  BY InitIInv, InitChannel, NextIInv, PTL DEF Spec, IsOneReadOneWrite, Channel!Spec
=============================================================================
