---------------------------- MODULE SshTransport ---------------------------
(***************************************************************************)
(* The shared SSH connection, ssh/ssh2Client.ts: one client and one SFTP   *)
(* handle that every tool call uses, a single-flight connect with retries, *)
(* the per-command backstop timer, and the event handlers of the ssh2      *)
(* client objects, each of which may fire long after its connection was    *)
(* replaced.  One action is one event of the Node loop with the microtasks *)
(* it runs.                                                                *)
(*                                                                         *)
(* A connection is one ssh2 Client object; its number is free again once   *)
(* its close event has fired.                                              *)
(***************************************************************************)
EXTENDS Naturals, FiniteSets

CONSTANTS
    Callers,             \* transport calls that can be in flight together
    MaxConnectAttempts,  \* MAX_CONNECT_ATTEMPTS
    MaxConns,            \* BOUND: ssh2 clients alive together
    MaxCalls,            \* BOUND: transport calls in a behaviour
    MaxFaults            \* BOUND: connections lost or wedged in a behaviour

ASSUME TransportAssumption ==
    /\ MaxConnectAttempts \in Nat \ {0}
    /\ MaxConns \in Nat /\ MaxCalls \in Nat /\ MaxFaults \in Nat

Conns == 1 .. MaxConns

VARIABLES
    conn,     \* connection -> its state
    ended,    \* connections on which end() was called
    client,   \* this.client: a connection, or 0 for null
    sftp,     \* this.sftp: the connection of the SFTP handle, or 0 for null
    dial,     \* connectingPromise: the attempt (0 for null) and its connection
    call,     \* caller -> the transport call in flight
    stray,    \* backstop timers whose exec has already thrown
    calls,    \* transport calls begun so far
    faults,   \* faults so far
    down      \* close() was called: the process is shutting down

vars == <<conn, ended, client, sftp, dial, call, stray, calls, faults, down>>

\* "half": the peer has closed, the socket is not writable, 'close' is to come.
\* "wedged": nothing gets through, and nobody has noticed.
\* "lost": it closed before 'ready' or 'error', and its attempt is never settled.
ConnState == {"none", "dialing", "lost", "failed", "open", "wedged", "half"}

Dial == [attempt : 0 .. MaxConnectAttempts, conn : 0 .. MaxConns]

Call == [pc : {"idle", "connect", "open", "run"}, op : {"exec", "sftp"}, conn : 0 .. MaxConns]

NoDial == [attempt |-> 0, conn |-> 0]
Idle   == [pc |-> "idle", op |-> "exec", conn |-> 0]

Init ==
    /\ conn = [i \in Conns |-> "none"]
    /\ ended = {}
    /\ client = 0 /\ sftp = 0
    /\ dial = NoDial
    /\ call = [c \in Callers |-> Idle]
    /\ stray = 0 /\ calls = 0 /\ faults = 0
    /\ down = FALSE

\* The next new Client(): the lowest number that is free.
Fresh(i) == conn[i] = "none" /\ \A j \in Conns : j < i => conn[j] # "none"

----------------------------------------------------------------------------
(* Tool calls *)

\* What follows ensureConnected: client.exec opens a stream, client.sftp a handle;
\* both throw "Not connected" on a socket that is not writable.
Proceed(op, i) ==
    IF conn[i] = "half" THEN Idle
    ELSE [pc |-> IF op = "exec" THEN "run" ELSE "open", op |-> op, conn |-> i]

\* exec arms its timer before client.exec, and only its callbacks clear it.
StrayAfter(op, i) == IF op = "exec" /\ conn[i] = "half" THEN stray + 1 ELSE stray

\* Mutant: connect without the connectingPromise.
JoinsNothing == dial.attempt > MaxConnectAttempts

\* connect: concurrent callers wait for the attempt in flight.
Joins == dial.attempt > 0

\* exec, or an SFTP operation without a handle: ensureConnected, then proceed.
Begin(c, op) ==
    /\ call[c].pc = "idle" /\ calls < MaxCalls /\ ~down
    /\ op = "sftp" => sftp = 0
    /\ calls' = calls + 1
    /\ \/ /\ client # 0
          /\ call' = [call EXCEPT ![c] = Proceed(op, client)]
          /\ stray' = StrayAfter(op, client)
          /\ UNCHANGED <<conn, dial>>
       \/ /\ client = 0
          /\ call' = [call EXCEPT ![c] = [pc |-> "connect", op |-> op, conn |-> 0]]
          /\ \/ Joins /\ UNCHANGED <<conn, dial>>
             \/ ~Joins /\ \E i \in Conns :
                   /\ Fresh(i)
                   /\ conn' = [conn EXCEPT ![i] = "dialing"]
                   /\ dial' = [attempt |-> 1, conn |-> i]
          /\ UNCHANGED stray
    /\ UNCHANGED <<ended, client, sftp, faults, down>>

\* An SFTP operation with a cached handle, whatever client is by now.
BeginCached(c) ==
    /\ call[c].pc = "idle" /\ calls < MaxCalls /\ ~down
    /\ sftp # 0
    /\ calls' = calls + 1
    /\ call' = [call EXCEPT ![c] = [pc |-> "run", op |-> "sftp", conn |-> sftp]]
    /\ UNCHANGED <<conn, ended, client, sftp, dial, stray, faults, down>>

\* The callback of client.sftp: the handle is cached, or the call fails.
SftpOpened(c) ==
    /\ call[c].pc = "open" /\ conn[call[c].conn] = "open"
    /\ \/ /\ sftp' = call[c].conn
          /\ call' = [call EXCEPT ![c].pc = "run"]
       \/ /\ call' = [call EXCEPT ![c] = Idle]
          /\ UNCHANGED sftp
    /\ UNCHANGED <<conn, ended, client, dial, stray, calls, faults, down>>

\* The remote end answers a command or an SFTP operation.
Answered(c) ==
    /\ call[c].pc = "run" /\ conn[call[c].conn] = "open"
    /\ call' = [call EXCEPT ![c] = Idle]
    /\ UNCHANGED <<conn, ended, client, sftp, dial, stray, calls, faults, down>>

----------------------------------------------------------------------------
(* Connecting *)

\* 'ready': the client is set, and everyone who waited goes on with it.
DialReady ==
    LET i == dial.conn
    IN  /\ i # 0 /\ conn[i] = "dialing"
        /\ conn' = [conn EXCEPT ![i] = "open"]
        /\ client' = i
        /\ dial' = NoDial
        /\ call' = [c \in Callers |-> IF call[c].pc = "connect" THEN Proceed(call[c].op, i)
                                      ELSE call[c]]
        /\ UNCHANGED <<ended, sftp, stray, calls, faults, down>>

\* Mutant: the last failure is swallowed and the waiters are not rejected.
DialFailsSilently ==
    /\ dial.conn # 0 /\ conn[dial.conn] = "dialing"
    /\ conn' = [conn EXCEPT ![dial.conn] = "failed"]
    /\ dial' = IF dial.attempt < MaxConnectAttempts THEN [dial EXCEPT !.conn = 0] ELSE NoDial
    /\ UNCHANGED <<ended, client, sftp, call, stray, calls, faults, down>>

\* 'error' before 'ready': refused, timed out, host key not accepted, no key file.
\* Sleep before the next attempt, or reject everyone who waited.
DialFails ==
    /\ dial.conn # 0 /\ conn[dial.conn] = "dialing"
    /\ conn' = [conn EXCEPT ![dial.conn] = "failed"]
    /\ \/ /\ dial.attempt < MaxConnectAttempts
          /\ dial' = [dial EXCEPT !.conn = 0]
          /\ UNCHANGED call
       \/ /\ dial.attempt = MaxConnectAttempts
          /\ dial' = NoDial
          /\ call' = [c \in Callers |-> IF call[c].pc = "connect" THEN Idle ELSE call[c]]
    /\ UNCHANGED <<ended, client, sftp, stray, calls, faults, down>>

\* 'close' before 'ready' or 'error': client and sftp are cleared as by any close,
\* and the promise of the attempt is neither resolved nor rejected.
DialLost ==
    /\ dial.conn # 0 /\ conn[dial.conn] = "dialing"
    /\ conn' = [conn EXCEPT ![dial.conn] = "lost"]
    /\ client' = 0 /\ sftp' = 0
    /\ UNCHANGED <<ended, dial, call, stray, calls, faults, down>>

\* The backoff sleep is over: the next attempt.
DialAgain ==
    /\ dial.attempt > 0 /\ dial.conn = 0
    /\ \E i \in Conns :
         /\ Fresh(i)
         /\ conn' = [conn EXCEPT ![i] = "dialing"]
         /\ dial' = [attempt |-> dial.attempt + 1, conn |-> i]
    /\ UNCHANGED <<ended, client, sftp, call, stray, calls, faults, down>>

----------------------------------------------------------------------------
(* Losing a connection *)

\* A 'close' that is due: after an error or end(), or when ssh2's keepalive gives up.
\* (The close of a connection still being set up is DialLost.)
Closing(i) == conn[i] \in {"failed", "half", "wedged"} \/ (conn[i] = "open" /\ i \in ended)

\* Mutant: the handle of a closed connection stays cached.
ConnClosedKeepsSftp(i) ==
    /\ Closing(i)
    /\ conn' = [conn EXCEPT ![i] = "none"]
    /\ ended' = ended \ {i}
    /\ client' = 0
    /\ call' = [c \in Callers |-> IF call[c].conn = i THEN Idle ELSE call[c]]
    /\ UNCHANGED <<sftp, dial, stray, calls, faults, down>>

\* 'close' of any connection clears client and sftp, whichever they are; the calls
\* on that connection end.
ConnClosed(i) ==
    /\ Closing(i)
    /\ conn' = [conn EXCEPT ![i] = "none"]
    /\ ended' = ended \ {i}
    /\ client' = 0 /\ sftp' = 0
    /\ call' = [c \in Callers |-> IF call[c].conn = i THEN Idle ELSE call[c]]
    /\ UNCHANGED <<dial, stray, calls, faults, down>>

\* What the backstop does: drop this.client, be it the command's or not.
DropClient ==
    /\ sftp' = 0
    /\ ended' = IF client = 0 THEN ended ELSE ended \cup {client}
    /\ client' = 0

\* The backstop timer of a command that was not answered.
Backstop(c) ==
    /\ call[c].pc = "run" /\ call[c].op = "exec"
    /\ DropClient
    /\ call' = [call EXCEPT ![c] = Idle]
    /\ UNCHANGED <<conn, dial, stray, calls, faults, down>>

\* The backstop timer of a command that had thrown.
StrayBackstop ==
    /\ stray > 0
    /\ DropClient
    /\ stray' = stray - 1
    /\ UNCHANGED <<conn, dial, call, calls, faults, down>>

\* close, at shutdown.
Close ==
    /\ ~down
    /\ down' = TRUE
    /\ DropClient
    /\ UNCHANGED <<conn, dial, call, stray, calls, faults>>

\* The network: a connection wedges, or the peer closes it.
Lose(i) ==
    /\ faults < MaxFaults /\ conn[i] = "open"
    /\ faults' = faults + 1
    /\ \E s \in {"wedged", "half"} : conn' = [conn EXCEPT ![i] = s]
    /\ UNCHANGED <<ended, client, sftp, dial, call, stray, calls, down>>

----------------------------------------------------------------------------
Next ==
    \/ \E c \in Callers :
         \/ \E op \in {"exec", "sftp"} : Begin(c, op)
         \/ BeginCached(c) \/ SftpOpened(c) \/ Answered(c) \/ Backstop(c)
    \/ DialReady \/ DialFails \/ DialLost \/ DialAgain
    \/ StrayBackstop \/ Close
    \/ \E i \in Conns : ConnClosed(i) \/ Lose(i)

\* Timers fire; a handshake ends in some event, be it only a close, and ssh2's keepalive
\* closes a connection that does not answer; a connection that answers at all
\* answers SFTP requests.  No fairness for answers to commands: the backstop is
\* there for those.
Fairness ==
    /\ WF_vars(DialReady \/ DialFails \/ DialLost)
    /\ WF_vars(DialAgain)
    /\ \A i \in Conns : WF_vars(ConnClosed(i))
    /\ \A c \in Callers : WF_vars(Backstop(c))
    /\ \A c \in Callers : WF_vars(SftpOpened(c) \/ (call[c].op = "sftp" /\ Answered(c)))

Spec == Init /\ [][Next]_vars /\ Fairness

----------------------------------------------------------------------------
(* Properties *)

TypeOK ==
    /\ conn \in [Conns -> ConnState]
    /\ ended \subseteq Conns
    /\ client \in 0 .. MaxConns /\ sftp \in 0 .. MaxConns
    /\ dial \in Dial
    /\ call \in [Callers -> Call]
    /\ stray \in 0 .. MaxCalls /\ calls \in 0 .. MaxCalls /\ faults \in 0 .. MaxFaults
    /\ down \in BOOLEAN

\* "Single in-flight connect promise": however calls, retries, stale events and
\* backstops interleave, at most one connection is being set up, it is the
\* attempt's own, and no attempt runs while a client is set.
SingleFlight ==
    /\ \A i \in Conns : conn[i] = "dialing" => dial.attempt > 0 /\ dial.conn = i
    /\ dial.attempt > 0 => client = 0

\* Neither handle outlives its connection: what a call picks up is a connection
\* whose close event has not fired yet.
HandlesAreAlive ==
    /\ client # 0 => conn[client] \in {"open", "wedged", "half"} /\ client \notin ended
    /\ sftp # 0 => conn[sftp] \in {"open", "wedged", "half"}

\* Nobody waits for a connection that nobody is setting up.
WaitersHaveAnAttempt ==
    (\E c \in Callers : call[c].pc = "connect") => dial.attempt > 0

\* The attempt in flight is one that nothing will settle: connectingPromise stays
\* set, and whoever waits for it, now or later, waits for ever.
Abandoned == dial.conn # 0 /\ conn[dial.conn] = "lost"

\* Every transport call ends, although SFTP operations have no timer of their own
\* and a caller may wait for an attempt another caller started.  One thing alone
\* keeps a call for ever, and only while it connects: an attempt whose connection
\* closed before 'ready' or 'error'.
EveryCallEnds ==
    \A c \in Callers :
        call[c].pc # "idle" ~> \/ call[c].pc = "idle"
                               \/ Abandoned /\ call[c].pc = "connect"

----------------------------------------------------------------------------
(* The inductive invariant *)

Alive == {"open", "wedged", "half"}

\* An attempt is setting up its own connection, or sleeping before the next one.
DialIsSound ==
    /\ dial.conn # 0 => dial.attempt > 0 /\ conn[dial.conn] \in {"dialing", "lost"}
    /\ dial.conn = 0 => dial.attempt < MaxConnectAttempts

EndedAreAlive == \A i \in ended : conn[i] \in Alive

\* A call past the connect runs on a connection whose close has not fired.
CallsAreLive ==
    \A c \in Callers : call[c].pc \in {"open", "run"} =>
        call[c].conn # 0 /\ conn[call[c].conn] \in Alive

IInv ==
    /\ TypeOK /\ SingleFlight /\ HandlesAreAlive /\ WaitersHaveAnAttempt
    /\ DialIsSound /\ EndedAreAlive /\ CallsAreLive /\ stray <= calls

----------------------------------------------------------------------------
(* What a comment says and the code does not do *)

\* "backstop only for a wedged connection": the connection a backstop drops is
\* the one the command was running on.
BackstopDropsItsOwn ==
    [][\A c \in Callers :
         call[c].pc = "run" /\ call[c].op = "exec" /\ call'[c].pc = "idle" =>
             ended' \subseteq ended \cup {call[c].conn}]_vars
=============================================================================
