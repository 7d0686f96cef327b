------------------------- MODULE SshTransport_proofs -----------------------
(***************************************************************************)
(* Proofs about SshTransport for every number of callers, connections and  *)
(* connect attempts: the single-flight connect and the handles that never  *)
(* outlive their connection.                                               *)
(***************************************************************************)
EXTENDS SshTransport, TLAPS

\* A fresh transport satisfies the inductive invariant.
LEMMA InitIInv == Init => IInv
  <1> SUFFICES ASSUME Init PROVE IInv
    OBVIOUS
  <1> USE TransportAssumption
  <1>1. Idle \in Call /\ NoDial \in Dial
    BY DEF Idle, Call, NoDial, Dial
  <1>2. TypeOK
    <2>1. conn \in [Conns -> ConnState] /\ ended \subseteq Conns
      BY DEF Init, ConnState
    <2>2. client \in 0 .. MaxConns /\ sftp \in 0 .. MaxConns
      BY DEF Init
    <2>3. stray \in 0 .. MaxCalls /\ calls \in 0 .. MaxCalls /\ faults \in 0 .. MaxFaults
      BY DEF Init
    <2>4. dial \in Dial /\ call \in [Callers -> Call] /\ down \in BOOLEAN
      BY <1>1 DEF Init
    <2> QED
      BY <2>1, <2>2, <2>3, <2>4 DEF TypeOK
  <1>3. \A c \in Callers : call[c].pc = "idle"
    BY DEF Init, Idle
  <1>4. DialIsSound /\ SingleFlight
    BY DEF Init, DialIsSound, SingleFlight, NoDial
  <1> QED
    BY <1>2, <1>3, <1>4 DEF Init, IInv, HandlesAreAlive, WaitersHaveAnAttempt,
                            EndedAreAlive, CallsAreLive

----------------------------------------------------------------------------
(* One lemma per action *)

\* A call that finds a client goes on with it at once.
LEMMA BeginConnectedStep ==
    ASSUME IInv, NEW c \in Callers, NEW op \in {"exec", "sftp"}, Begin(c, op), client # 0
    PROVE  IInv'
  <1> USE TransportAssumption
  <1>1. /\ calls < MaxCalls /\ calls' = calls + 1
        /\ call' = [call EXCEPT ![c] = Proceed(op, client)]
        /\ stray' = StrayAfter(op, client)
        /\ UNCHANGED <<conn, ended, client, sftp, dial, faults, down>>
    BY DEF Begin
  <1>2. client \in Conns /\ conn[client] \in Alive
    BY DEF IInv, TypeOK, HandlesAreAlive, Conns, Alive
  <1>3. /\ Proceed(op, client) \in Call
        /\ Proceed(op, client).pc # "connect"
        /\ Proceed(op, client).pc \in {"open", "run"} => Proceed(op, client).conn = client
    BY <1>2 DEF Proceed, Call, Idle, Conns
  <1>4. stray' \in Nat /\ stray' <= calls' /\ calls' \in 0 .. MaxCalls
    BY <1>1 DEF IInv, TypeOK, StrayAfter
  <1>5. TypeOK'
    BY <1>1, <1>3, <1>4 DEF IInv, TypeOK
  <1>6. CallsAreLive'
    BY <1>1, <1>2, <1>3 DEF IInv, TypeOK, CallsAreLive, Conns
  <1>7. WaitersHaveAnAttempt'
    BY <1>1, <1>3 DEF IInv, TypeOK, WaitersHaveAnAttempt
  <1> QED
    BY <1>1, <1>4, <1>5, <1>6, <1>7
       DEF IInv, SingleFlight, HandlesAreAlive, DialIsSound, EndedAreAlive

\* A call that finds none joins the attempt in flight or starts one.
LEMMA BeginWaitingStep ==
    ASSUME IInv, NEW c \in Callers, NEW op \in {"exec", "sftp"}, Begin(c, op), client = 0
    PROVE  IInv'
  <1> USE TransportAssumption
  <1> DEFINE waiting == [pc |-> "connect", op |-> op, conn |-> 0]
  <1>1. /\ calls < MaxCalls /\ calls' = calls + 1
        /\ call' = [call EXCEPT ![c] = waiting]
        /\ UNCHANGED <<ended, client, sftp, stray, faults, down>>
    BY DEF Begin
  <1>2. waiting \in Call
    BY DEF Call
  <1>3. CASE Joins /\ UNCHANGED <<conn, dial>>
    <2>1. dial.attempt > 0
      BY <1>3 DEF Joins
    <2>2. TypeOK' /\ stray' <= calls'
      BY <1>1, <1>2, <1>3 DEF IInv, TypeOK
    <2>3. CallsAreLive'
      BY <1>1, <1>3 DEF IInv, TypeOK, CallsAreLive
    <2> QED
      BY <1>1, <1>3, <2>1, <2>2, <2>3
         DEF IInv, SingleFlight, HandlesAreAlive, WaitersHaveAnAttempt, DialIsSound, EndedAreAlive
  <1>4. CASE ~Joins /\ \E i \in Conns : /\ Fresh(i)
                                        /\ conn' = [conn EXCEPT ![i] = "dialing"]
                                        /\ dial' = [attempt |-> 1, conn |-> i]
    <2>1. PICK i \in Conns : /\ conn[i] = "none"
                             /\ conn' = [conn EXCEPT ![i] = "dialing"]
                             /\ dial' = [attempt |-> 1, conn |-> i]
      BY <1>4 DEF Fresh
    <2>2. dial.attempt = 0 /\ conn \in [Conns -> ConnState]
      BY <1>4 DEF Joins, IInv, TypeOK, Dial
    <2>3. i # 0 /\ conn'[i] = "dialing" /\ \A j \in Conns \ {i} : conn'[j] = conn[j]
      BY <2>1, <2>2 DEF Conns
    <2>4. TypeOK' /\ stray' <= calls'
      BY <1>1, <1>2, <2>1, <2>2 DEF IInv, TypeOK, ConnState, Dial, Conns
    <2>5. SingleFlight' /\ DialIsSound' /\ WaitersHaveAnAttempt'
      BY <1>1, <2>1, <2>2, <2>3 DEF IInv, SingleFlight, DialIsSound, WaitersHaveAnAttempt
    <2>6. HandlesAreAlive'
      BY <1>1, <2>1, <2>2, <2>3 DEF IInv, TypeOK, HandlesAreAlive, Conns
    <2>7. EndedAreAlive'
      BY <1>1, <2>1, <2>3 DEF IInv, TypeOK, EndedAreAlive, Alive
    <2>8. CallsAreLive'
      <3> SUFFICES ASSUME NEW d \in Callers, call'[d].pc \in {"open", "run"}
                   PROVE  call'[d].conn # 0 /\ conn'[call'[d].conn] \in Alive
        BY DEF CallsAreLive
      <3>1. call'[d] = call[d]
        BY <1>1, <1>2 DEF IInv, TypeOK
      <3>2. call[d].conn # 0 /\ conn[call[d].conn] \in Alive /\ call[d].conn \in Conns
        BY <3>1 DEF IInv, TypeOK, CallsAreLive, Call, Conns
      <3> QED
        BY <2>1, <2>3, <3>1, <3>2 DEF Alive
    <2> QED
      BY <2>4, <2>5, <2>6, <2>7, <2>8 DEF IInv
  <1> QED
    BY <1>3, <1>4 DEF Begin

\* A call that only moves on within its connection, or ends, keeps the invariant.
LEMMA CallOnlyStep ==
    ASSUME IInv, NEW c \in Callers, NEW r \in Call, call' = [call EXCEPT ![c] = r],
           r.pc # "connect",
           r.pc \in {"open", "run"} => r.conn # 0 /\ conn[r.conn] \in Alive,
           sftp' # 0 => conn[sftp'] \in Alive,
           sftp' \in 0 .. MaxConns, calls' \in 0 .. MaxCalls, calls <= calls',
           UNCHANGED <<conn, ended, client, dial, stray, faults, down>>
    PROVE  IInv'
  <1>1. TypeOK' /\ stray' <= calls'
    BY DEF IInv, TypeOK
  <1>2. CallsAreLive' /\ WaitersHaveAnAttempt'
    BY DEF IInv, TypeOK, CallsAreLive, WaitersHaveAnAttempt
  <1>3. HandlesAreAlive'
    BY DEF IInv, HandlesAreAlive, Alive
  <1> QED
    BY <1>1, <1>2, <1>3 DEF IInv, SingleFlight, DialIsSound, EndedAreAlive

\* The empty slot is a call.
LEMMA IdleIsACall == Idle \in Call /\ Idle.pc = "idle"
  BY TransportAssumption DEF Idle, Call

\* A cached SFTP handle is alive, so the call that uses it runs.
LEMMA BeginCachedStep ==
    ASSUME IInv, NEW c \in Callers, BeginCached(c)
    PROVE  IInv'
  <1> USE TransportAssumption
  <1> DEFINE r == [pc |-> "run", op |-> "sftp", conn |-> sftp]
  <1>1. /\ sftp # 0 /\ calls < MaxCalls /\ calls' = calls + 1
        /\ call' = [call EXCEPT ![c] = r]
        /\ UNCHANGED <<conn, ended, client, sftp, dial, stray, faults, down>>
    BY DEF BeginCached
  <1>2. r \in Call /\ r.pc = "run" /\ r.conn = sftp
    BY DEF IInv, TypeOK, Call
  <1>3. conn[sftp] \in Alive
    BY <1>1 DEF IInv, HandlesAreAlive, Alive
  <1>4. sftp \in 0 .. MaxConns /\ calls' \in 0 .. MaxCalls /\ calls <= calls'
    BY <1>1 DEF IInv, TypeOK
  <1> HIDE DEF r
  <1> QED
    BY <1>1, <1>2, <1>3, <1>4, CallOnlyStep

\* The handle that gets cached belongs to a connection that is open.
LEMMA SftpOpenedStep ==
    ASSUME IInv, NEW c \in Callers, SftpOpened(c)
    PROVE  IInv'
  <1> USE TransportAssumption
  <1>1. PICK q \in Call : q = call[c]
    BY DEF IInv, TypeOK
  <1>2. /\ q.pc = "open" /\ conn[q.conn] = "open"
        /\ UNCHANGED <<conn, ended, client, dial, stray, calls, faults, down>>
        /\ q.conn # 0 /\ q.conn \in 0 .. MaxConns /\ calls \in 0 .. MaxCalls /\ calls <= calls
    BY <1>1 DEF SftpOpened, IInv, TypeOK, CallsAreLive, Call
  <1>3. CASE sftp' = q.conn /\ call' = [call EXCEPT ![c].pc = "run"]
    <2>1. PICK r \in Call : r = [q EXCEPT !.pc = "run"]
      BY DEF Call
    <2>2. r.pc = "run" /\ r.conn = q.conn /\ call' = [call EXCEPT ![c] = r]
      BY <1>1, <1>3, <2>1 DEF Call, IInv, TypeOK
    <2>3. conn[q.conn] \in Alive
      BY <1>2 DEF Alive
    <2> QED
      BY <1>2, <1>3, <2>2, <2>3, CallOnlyStep
  <1>4. CASE call' = [call EXCEPT ![c] = Idle] /\ sftp' = sftp
    <2>1. sftp' # 0 => conn[sftp'] \in Alive
      BY <1>4 DEF IInv, HandlesAreAlive, Alive
    <2>2. sftp' \in 0 .. MaxConns
      BY <1>4 DEF IInv, TypeOK
    <2> QED
      BY <1>2, <1>4, <2>1, <2>2, IdleIsACall, CallOnlyStep
  <1> QED
    BY <1>1, <1>3, <1>4 DEF SftpOpened

\* An answer ends the call.
LEMMA AnsweredStep ==
    ASSUME IInv, NEW c \in Callers, Answered(c)
    PROVE  IInv'
  <1>1. /\ call' = [call EXCEPT ![c] = Idle]
        /\ UNCHANGED <<conn, ended, client, sftp, dial, stray, calls, faults, down>>
    BY DEF Answered
  <1>2. (sftp' # 0 => conn[sftp'] \in Alive) /\ sftp' \in 0 .. MaxConns
    BY <1>1 DEF IInv, TypeOK, HandlesAreAlive, Alive
  <1>3. calls' \in 0 .. MaxCalls /\ calls <= calls'
    BY <1>1, TransportAssumption DEF IInv, TypeOK
  <1> QED
    BY <1>1, <1>2, <1>3, IdleIsACall, CallOnlyStep

\* 'ready' hands the new connection to everyone who waited.
LEMMA DialReadyStep ==
    ASSUME IInv, DialReady
    PROVE  IInv'
  <1> USE TransportAssumption
  <1>1. PICK i \in Conns : i = dial.conn
    BY DEF DialReady, IInv, TypeOK, Dial, Conns
  <1>2. /\ i # 0 /\ conn[i] = "dialing"
        /\ conn' = [conn EXCEPT ![i] = "open"]
        /\ client' = i
        /\ dial' = NoDial
        /\ call' = [c \in Callers |-> IF call[c].pc = "connect" THEN Proceed(call[c].op, i)
                                      ELSE call[c]]
        /\ UNCHANGED <<ended, sftp, stray, calls, faults, down>>
    BY <1>1 DEF DialReady
  <1>3. /\ conn[i] = "dialing" /\ conn'[i] = "open"
        /\ \A j \in Conns \ {i} : conn'[j] = conn[j] /\ conn[j] # "dialing"
    BY <1>1, <1>2 DEF IInv, TypeOK, DialIsSound, SingleFlight
  <1>4. ASSUME NEW c \in Callers
        PROVE  /\ call'[c] \in Call /\ call'[c].pc # "connect"
               /\ call'[c].pc \in {"open", "run"} =>
                    call'[c].conn \in Conns /\ conn'[call'[c].conn] \in Alive
    <2>1. CASE call[c].pc = "connect"
      <3>1. call'[c] = [pc |-> IF call[c].op = "exec" THEN "run" ELSE "open",
                        op |-> call[c].op, conn |-> i]
        BY <1>2, <1>3, <2>1 DEF Proceed
      <3>2. call[c].op \in {"exec", "sftp"}
        BY DEF IInv, TypeOK, Call
      <3> QED
        BY <1>3, <3>1, <3>2 DEF Call, Conns, Alive
    <2>2. CASE call[c].pc # "connect"
      <3>1. call'[c] = call[c] /\ call[c] \in Call
        BY <1>2, <2>2 DEF IInv, TypeOK
      <3>2. call[c].pc \in {"open", "run"} => call[c].conn \in Conns /\ conn[call[c].conn] \in Alive
        BY <3>1 DEF IInv, CallsAreLive, Call, Conns
      <3> QED
        BY <1>3, <2>2, <3>1, <3>2 DEF Alive
    <2> QED
      BY <2>1, <2>2
  <1>5. TypeOK' /\ stray' <= calls'
    <2>1. call' \in [Callers -> Call]
      BY <1>2, <1>4
    <2>2. conn' \in [Conns -> ConnState] /\ NoDial \in Dial /\ i \in 0 .. MaxConns
      BY <1>2 DEF IInv, TypeOK, ConnState, NoDial, Dial, Conns
    <2> QED
      BY <1>2, <2>1, <2>2 DEF IInv, TypeOK
  <1>6. SingleFlight' /\ DialIsSound' /\ WaitersHaveAnAttempt'
    BY <1>2, <1>3, <1>4 DEF SingleFlight, DialIsSound, WaitersHaveAnAttempt, NoDial
  <1>7. HandlesAreAlive' /\ EndedAreAlive'
    <2>1. i \notin ended
      BY <1>3 DEF IInv, EndedAreAlive, Alive
    <2>2. EndedAreAlive'
      BY <1>2, <1>3, <2>1 DEF IInv, TypeOK, EndedAreAlive
    <2>3. sftp # 0 => sftp \in Conns /\ conn[sftp] \in {"open", "wedged", "half"}
      BY DEF IInv, TypeOK, HandlesAreAlive, Conns
    <2>4. sftp' # 0 => conn'[sftp'] \in {"open", "wedged", "half"}
      BY <1>2, <1>3, <2>3
    <2> QED
      BY <1>2, <1>3, <2>1, <2>2, <2>4 DEF HandlesAreAlive
  <1>8. CallsAreLive'
    BY <1>4 DEF CallsAreLive, Conns
  <1> QED
    BY <1>5, <1>6, <1>7, <1>8 DEF IInv

\* A failed attempt is followed by another, or everyone who waited is rejected.
LEMMA DialFailsStep ==
    ASSUME IInv, DialFails
    PROVE  IInv'
  <1> USE TransportAssumption
  <1>1. PICK i \in Conns : i = dial.conn
    BY DEF DialFails, IInv, TypeOK, Dial, Conns
  <1>2. /\ dial.attempt > 0 /\ i # 0 /\ conn[i] = "dialing"
        /\ conn' = [conn EXCEPT ![i] = "failed"]
        /\ UNCHANGED <<ended, client, sftp, stray, calls, faults, down>>
        /\ \/ /\ dial.attempt < MaxConnectAttempts
              /\ dial' = [dial EXCEPT !.conn = 0]
              /\ call' = call
           \/ /\ dial.attempt = MaxConnectAttempts
              /\ dial' = NoDial
              /\ call' = [c \in Callers |-> IF call[c].pc = "connect" THEN Idle ELSE call[c]]
    BY <1>1 DEF DialFails, IInv, SingleFlight
  <1>3. /\ conn[i] = "dialing" /\ conn'[i] = "failed"
        /\ \A j \in Conns \ {i} : conn'[j] = conn[j] /\ conn[j] # "dialing"
    BY <1>1, <1>2 DEF IInv, TypeOK, DialIsSound, SingleFlight
  <1>4. /\ dial' \in Dial /\ dial'.conn = 0
        /\ dial'.attempt \in {0, dial.attempt} /\ dial'.attempt < MaxConnectAttempts
        /\ dial'.attempt = 0 => dial.attempt = MaxConnectAttempts
    BY <1>2 DEF IInv, TypeOK, Dial, NoDial
  <1>5. \A c \in Callers :
          /\ call'[c] \in Call /\ call'[c] \in {call[c], Idle}
          /\ dial'.attempt = 0 => call'[c].pc # "connect"
    BY <1>2, <1>4, IdleIsACall DEF IInv, TypeOK
  <1>6. TypeOK' /\ stray' <= calls'
    <2>1. call' \in [Callers -> Call]
      BY <1>2, <1>5 DEF IInv, TypeOK
    <2>2. conn' \in [Conns -> ConnState]
      BY <1>2 DEF IInv, TypeOK, ConnState
    <2> QED
      BY <1>2, <1>4, <2>1, <2>2 DEF IInv, TypeOK
  <1>7. SingleFlight' /\ DialIsSound'
    BY <1>2, <1>3, <1>4 DEF IInv, SingleFlight, DialIsSound
  <1>8. WaitersHaveAnAttempt'
    BY <1>2, <1>4, <1>5 DEF WaitersHaveAnAttempt
  <1>9. HandlesAreAlive' /\ EndedAreAlive'
    <2>1. EndedAreAlive'
      BY <1>2, <1>3 DEF IInv, TypeOK, EndedAreAlive, Alive
    <2>2. sftp # 0 => sftp \in Conns \ {i} /\ conn[sftp] \in {"open", "wedged", "half"}
      BY <1>3 DEF IInv, TypeOK, HandlesAreAlive, Conns
    <2>3. client = 0
      BY <1>2 DEF IInv, SingleFlight
    <2> QED
      BY <1>2, <1>3, <2>1, <2>2, <2>3 DEF HandlesAreAlive
  <1>10. CallsAreLive'
    <2> SUFFICES ASSUME NEW c \in Callers, call'[c].pc \in {"open", "run"}
                 PROVE  call'[c].conn # 0 /\ conn'[call'[c].conn] \in Alive
      BY DEF CallsAreLive
    <2>1. call'[c] = call[c] /\ call[c] \in Call
      BY <1>5, IdleIsACall DEF IInv, TypeOK
    <2>2. call[c].conn \in Conns /\ call[c].conn # 0 /\ conn[call[c].conn] \in Alive
      BY <2>1 DEF IInv, CallsAreLive, Call, Conns
    <2> QED
      BY <1>3, <2>1, <2>2 DEF Alive
  <1> QED
    BY <1>6, <1>7, <1>8, <1>9, <1>10 DEF IInv

\* 'close' before 'ready' or 'error' leaves the attempt where it is, and no handle.
LEMMA DialLostStep ==
    ASSUME IInv, DialLost
    PROVE  IInv'
  <1> USE TransportAssumption
  <1>1. PICK i \in Conns : i = dial.conn
    BY DEF DialLost, IInv, TypeOK, Dial, Conns
  <1>2. /\ conn[i] = "dialing" /\ conn' = [conn EXCEPT ![i] = "lost"]
        /\ client' = 0 /\ sftp' = 0
        /\ UNCHANGED <<ended, dial, call, stray, calls, faults, down>>
    BY <1>1 DEF DialLost
  <1>3. conn'[i] = "lost" /\ \A j \in Conns \ {i} : conn'[j] = conn[j] /\ conn[j] # "dialing"
    BY <1>1, <1>2 DEF IInv, TypeOK, SingleFlight
  <1>4. TypeOK' /\ stray' <= calls'
    BY <1>2 DEF IInv, TypeOK, ConnState
  <1>5. SingleFlight' /\ DialIsSound' /\ WaitersHaveAnAttempt'
    BY <1>1, <1>2, <1>3 DEF IInv, SingleFlight, DialIsSound, WaitersHaveAnAttempt
  <1>6. HandlesAreAlive' /\ EndedAreAlive'
    BY <1>2, <1>3 DEF IInv, TypeOK, HandlesAreAlive, EndedAreAlive, Alive
  <1>7. CallsAreLive'
    <2> SUFFICES ASSUME NEW c \in Callers, call[c].pc \in {"open", "run"}
                 PROVE  call[c].conn # 0 /\ conn'[call[c].conn] \in Alive
      BY <1>2 DEF CallsAreLive
    <2>1. call[c].conn \in Conns /\ call[c].conn # 0 /\ conn[call[c].conn] \in Alive
      BY DEF IInv, TypeOK, CallsAreLive, Call, Conns
    <2> QED
      BY <1>2, <1>3, <2>1 DEF Alive
  <1> QED
    BY <1>4, <1>5, <1>6, <1>7 DEF IInv

\* After the sleep the same attempt loop sets up one new connection.
LEMMA DialAgainStep ==
    ASSUME IInv, DialAgain
    PROVE  IInv'
  <1> USE TransportAssumption
  <1>1. PICK i \in Conns : /\ conn[i] = "none"
                           /\ conn' = [conn EXCEPT ![i] = "dialing"]
                           /\ dial' = [attempt |-> dial.attempt + 1, conn |-> i]
    BY DEF DialAgain, Fresh
  <1>2. /\ dial.attempt > 0 /\ dial.conn = 0 /\ i # 0
        /\ UNCHANGED <<ended, client, sftp, call, stray, calls, faults, down>>
    BY DEF DialAgain, Conns
  <1>3. dial.attempt + 1 \in 1 .. MaxConnectAttempts /\ dial' \in Dial /\ dial'.conn = i
        /\ dial'.attempt > 0
    BY <1>1, <1>2 DEF IInv, TypeOK, DialIsSound, Dial, Conns
  <1>4. conn'[i] = "dialing" /\ \A j \in Conns \ {i} : conn'[j] = conn[j] /\ conn[j] # "dialing"
    BY <1>1, <1>2 DEF IInv, TypeOK, SingleFlight, Conns
  <1>5. TypeOK' /\ stray' <= calls'
    BY <1>1, <1>2, <1>3 DEF IInv, TypeOK, ConnState
  <1>6. SingleFlight' /\ DialIsSound' /\ WaitersHaveAnAttempt'
    BY <1>2, <1>3, <1>4 DEF IInv, SingleFlight, DialIsSound, WaitersHaveAnAttempt
  <1>7. HandlesAreAlive' /\ EndedAreAlive'
    <2>1. EndedAreAlive'
      BY <1>1, <1>2, <1>4 DEF IInv, TypeOK, EndedAreAlive, Alive
    <2>2. sftp # 0 => sftp \in Conns \ {i} /\ conn[sftp] \in {"open", "wedged", "half"}
      BY <1>1 DEF IInv, TypeOK, HandlesAreAlive, Conns
    <2>3. client = 0
      BY <1>2 DEF IInv, SingleFlight
    <2> QED
      BY <1>2, <1>4, <2>1, <2>2, <2>3 DEF HandlesAreAlive
  <1>8. CallsAreLive'
    <2> SUFFICES ASSUME NEW c \in Callers, call[c].pc \in {"open", "run"}
                 PROVE  call[c].conn # 0 /\ conn'[call[c].conn] \in Alive
      BY <1>2 DEF CallsAreLive
    <2>1. call[c].conn \in Conns /\ call[c].conn # 0 /\ conn[call[c].conn] \in Alive
      BY DEF IInv, TypeOK, CallsAreLive, Call, Conns
    <2> QED
      BY <1>1, <1>4, <2>1 DEF Alive
  <1> QED
    BY <1>5, <1>6, <1>7, <1>8 DEF IInv

\* 'close' of any connection, the current one or an old one, leaves no handle and
\* no call behind on it.
LEMMA ConnClosedStep ==
    ASSUME IInv, NEW i \in Conns, ConnClosed(i)
    PROVE  IInv'
  <1> USE TransportAssumption
  <1>1. /\ conn' = [conn EXCEPT ![i] = "none"]
        /\ ended' = ended \ {i} /\ client' = 0 /\ sftp' = 0
        /\ call' = [c \in Callers |-> IF call[c].conn = i THEN Idle ELSE call[c]]
        /\ UNCHANGED <<dial, stray, calls, faults, down>>
    BY DEF ConnClosed
  <1>2. conn[i] \notin {"dialing", "lost"} /\ conn'[i] = "none" /\ \A j \in Conns \ {i} : conn'[j] = conn[j]
    BY <1>1 DEF ConnClosed, Closing, IInv, TypeOK
  <1>3. \A c \in Callers :
          /\ call'[c] \in Call /\ call'[c] \in {call[c], Idle}
          /\ call'[c] = call[c] => call[c].conn # i \/ call[c] = Idle
    BY <1>1, IdleIsACall DEF IInv, TypeOK
  <1>4. TypeOK' /\ stray' <= calls'
    <2>1. call' \in [Callers -> Call]
      BY <1>1, <1>3
    <2> QED
      BY <1>1, <2>1 DEF IInv, TypeOK, ConnState
  <1>5. SingleFlight' /\ HandlesAreAlive'
    BY <1>1, <1>2 DEF IInv, SingleFlight, HandlesAreAlive
  <1>6. DialIsSound'
    BY <1>1, <1>2 DEF IInv, TypeOK, Dial, DialIsSound, Conns
  <1>7. WaitersHaveAnAttempt'
    BY <1>1, <1>3, IdleIsACall DEF IInv, WaitersHaveAnAttempt
  <1>8. EndedAreAlive'
    BY <1>1, <1>2 DEF IInv, TypeOK, EndedAreAlive
  <1>9. CallsAreLive'
    <2> SUFFICES ASSUME NEW c \in Callers, call'[c].pc \in {"open", "run"}
                 PROVE  call'[c].conn # 0 /\ conn'[call'[c].conn] \in Alive
      BY DEF CallsAreLive
    <2>1. call'[c] = call[c] /\ call[c] \in Call /\ call[c].conn # i
      BY <1>3, IdleIsACall DEF IInv, TypeOK
    <2>2. call[c].conn \in Conns /\ call[c].conn # 0 /\ conn[call[c].conn] \in Alive
      BY <2>1 DEF IInv, CallsAreLive, Call, Conns
    <2> QED
      BY <1>2, <2>1, <2>2
  <1> QED
    BY <1>4, <1>5, <1>6, <1>7, <1>8, <1>9 DEF IInv

\* Dropping the client, whoever asks for it, marks an alive connection as ended.
LEMMA DropClientStep ==
    ASSUME IInv, DropClient, UNCHANGED <<conn, dial, calls, faults>>,
           stray' \in 0 .. MaxCalls, stray' <= calls, down' \in BOOLEAN,
           \/ call' = call
           \/ \E c \in Callers : call' = [call EXCEPT ![c] = Idle]
    PROVE  IInv'
  <1> USE TransportAssumption
  <1>1. /\ sftp' = 0 /\ client' = 0
        /\ ended' = IF client = 0 THEN ended ELSE ended \cup {client}
    BY DEF DropClient
  <1>2. \A c \in Callers : call'[c] \in {call[c], Idle}
    BY DEF IInv, TypeOK
  <1>3. client # 0 => client \in Conns /\ conn[client] \in Alive
    BY DEF IInv, TypeOK, HandlesAreAlive, Conns, Alive
  <1>4. call' \in [Callers -> Call]
    BY IdleIsACall DEF IInv, TypeOK
  <1>5. TypeOK' /\ stray' <= calls'
    BY <1>1, <1>3, <1>4 DEF IInv, TypeOK
  <1>6. EndedAreAlive'
    BY <1>1, <1>3 DEF IInv, EndedAreAlive
  <1>7. CallsAreLive' /\ WaitersHaveAnAttempt'
    BY <1>2, IdleIsACall DEF IInv, CallsAreLive, WaitersHaveAnAttempt
  <1>8. SingleFlight' /\ HandlesAreAlive' /\ DialIsSound'
    BY <1>1 DEF IInv, SingleFlight, HandlesAreAlive, DialIsSound
  <1> QED
    BY <1>5, <1>6, <1>7, <1>8 DEF IInv

\* A backstop, an orphaned one and close only drop the client.
LEMMA DropSteps ==
    ASSUME IInv, (\E c \in Callers : Backstop(c)) \/ StrayBackstop \/ Close
    PROVE  IInv'
  <1> USE TransportAssumption
  <1>1. stray \in 0 .. MaxCalls /\ stray <= calls /\ down \in BOOLEAN /\ calls \in 0 .. MaxCalls
    BY DEF IInv, TypeOK
  <1>2. CASE \E c \in Callers : Backstop(c)
    BY <1>1, <1>2, DropClientStep DEF Backstop
  <1>3. CASE StrayBackstop
    <2>1. stray' \in 0 .. MaxCalls /\ stray' <= calls
      BY <1>1, <1>3 DEF StrayBackstop
    <2> QED
      BY <1>1, <1>3, <2>1, DropClientStep DEF StrayBackstop
  <1>4. CASE Close
    BY <1>1, <1>4, DropClientStep DEF Close
  <1> QED
    BY <1>2, <1>3, <1>4

\* A connection that wedges or loses its peer is still alive to the transport.
LEMMA LoseStep ==
    ASSUME IInv, NEW i \in Conns, Lose(i)
    PROVE  IInv'
  <1> USE TransportAssumption
  <1>1. PICK s \in {"wedged", "half"} : conn' = [conn EXCEPT ![i] = s]
    BY DEF Lose
  <1>2. /\ conn[i] = "open" /\ faults' \in 0 .. MaxFaults
        /\ UNCHANGED <<ended, client, sftp, dial, call, stray, calls, down>>
    BY DEF Lose, IInv, TypeOK
  <1>3. conn'[i] \in Alive /\ conn'[i] # "dialing" /\ \A j \in Conns \ {i} : conn'[j] = conn[j]
    BY <1>1 DEF IInv, TypeOK, Alive
  <1>4. TypeOK' /\ stray' <= calls'
    BY <1>1, <1>2 DEF IInv, TypeOK, ConnState
  <1>5. SingleFlight' /\ WaitersHaveAnAttempt'
    BY <1>2, <1>3 DEF IInv, SingleFlight, WaitersHaveAnAttempt
  <1>6. DialIsSound'
    BY <1>2, <1>3 DEF IInv, TypeOK, Dial, DialIsSound, Conns
  <1>7. HandlesAreAlive'
    BY <1>2, <1>3 DEF IInv, TypeOK, HandlesAreAlive, Conns, Alive
  <1>8. EndedAreAlive'
    BY <1>2, <1>3 DEF IInv, TypeOK, EndedAreAlive
  <1>9. CallsAreLive'
    <2> SUFFICES ASSUME NEW c \in Callers, call[c].pc \in {"open", "run"}
                 PROVE  call[c].conn # 0 /\ conn'[call[c].conn] \in Alive
      BY <1>2 DEF CallsAreLive
    <2>1. call[c].conn \in Conns /\ call[c].conn # 0 /\ conn[call[c].conn] \in Alive
      BY DEF IInv, TypeOK, CallsAreLive, Call, Conns
    <2> QED
      BY <1>3, <2>1
  <1> QED
    BY <1>4, <1>5, <1>6, <1>7, <1>8, <1>9 DEF IInv

----------------------------------------------------------------------------
(* The invariant and what follows from it *)

\* Every event of the transport, and a step that changes nothing, keeps IInv.
LEMMA NextIInv == IInv /\ [Next]_vars => IInv'
  <1> SUFFICES ASSUME IInv, [Next]_vars PROVE IInv'
    OBVIOUS
  <1>1. CASE \E c \in Callers, op \in {"exec", "sftp"} : Begin(c, op)
    BY <1>1, BeginConnectedStep, BeginWaitingStep
  <1>2. CASE \E c \in Callers : BeginCached(c) \/ SftpOpened(c) \/ Answered(c)
    BY <1>2, BeginCachedStep, SftpOpenedStep, AnsweredStep
  <1>3. CASE (\E c \in Callers : Backstop(c)) \/ StrayBackstop \/ Close
    BY <1>3, DropSteps
  <1>4. CASE DialReady \/ DialFails \/ DialLost \/ DialAgain
    BY <1>4, DialReadyStep, DialFailsStep, DialLostStep, DialAgainStep
  <1>5. CASE \E i \in Conns : ConnClosed(i) \/ Lose(i)
    BY <1>5, ConnClosedStep, LoseStep
  <1>6. CASE UNCHANGED vars
    BY <1>6 DEF vars, IInv, TypeOK, SingleFlight, HandlesAreAlive, WaitersHaveAnAttempt,
                DialIsSound, EndedAreAlive, CallsAreLive
  <1> QED
    BY <1>1, <1>2, <1>3, <1>4, <1>5, <1>6 DEF Next

\* IInv holds in every reachable state of Ssh2Transport.
THEOREM Invariance == Spec => []IInv
  BY InitIInv, NextIInv, PTL DEF Spec

\* The transport's fields, timers and calls always have their types; in
\* particular connectWithBackoff never makes more than its attempts.
THEOREM TypeCorrect == Spec => []TypeOK
  <1>1. IInv => TypeOK
    BY DEF IInv
  <1> QED
    BY <1>1, Invariance, PTL

\* connect is single-flight for every number of callers and every order of events.
THEOREM ConnectIsSingleFlight == Spec => []SingleFlight
  <1>1. IInv => SingleFlight
    BY DEF IInv
  <1> QED
    BY <1>1, Invariance, PTL

\* this.client and this.sftp never refer to a connection whose close has fired.
THEOREM NoDeadHandle == Spec => []HandlesAreAlive
  <1>1. IInv => HandlesAreAlive
    BY DEF IInv
  <1> QED
    BY <1>1, Invariance, PTL

\* Whoever waits in connect waits for an attempt that connectingPromise still holds.
THEOREM NoOrphanWaiter == Spec => []WaitersHaveAnAttempt
  <1>1. IInv => WaitersHaveAnAttempt
    BY DEF IInv
  <1> QED
    BY <1>1, Invariance, PTL
=============================================================================
