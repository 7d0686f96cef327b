---------------------------- MODULE FileChannel ----------------------------
(***************************************************************************)
(* What the file tools take a file in a guest for: a call reads it once,   *)
(* as a whole, and may then replace it once, as a whole; a call that ends  *)
(* well has done both.  A read may show a missing file only when the file  *)
(* is missing, or when the guest did not answer the call as it should.     *)
(* The remote reads and writes of WritePipeline are steps of this module;  *)
(* GuestFiles shows how the server makes them out of commands.             *)
(***************************************************************************)
CONSTANTS
    CallIds,   \* the calls of a behaviour
    Contents,  \* what a file can hold
    None,      \* a missing file
    Unread     \* a call that has not read yet

VARIABLES
    data,      \* the file: content, or None
    got,       \* call -> what it read
    phase,     \* call -> "idle", "reading", "written", "ok" or "failed"
    new,       \* call -> what it writes, Unread for a call that only reads
    shaky      \* calls whose guest stopped, or refused a command

vars == <<data, got, phase, new, shaky>>

Init ==
    /\ data \in Contents \cup {None}
    /\ got = [c \in CallIds |-> Unread]
    /\ phase = [c \in CallIds |-> "idle"]
    /\ new = [c \in CallIds |-> Unread]
    /\ shaky = {}

Begin(c) ==
    /\ phase[c] = "idle"
    /\ phase' = [phase EXCEPT ![c] = "reading"]
    /\ \E v \in Contents \cup {Unread} : new' = [new EXCEPT ![c] = v]
    /\ UNCHANGED <<data, got>>

\* The moment at which the call sees the file.
Sample(c) ==
    /\ phase[c] = "reading" /\ got[c] = Unread
    /\ got' = [got EXCEPT ![c] = data]
    /\ UNCHANGED <<data, phase, new>>

\* A guest that failed the call may look like one without the file.
Miss(c) ==
    /\ phase[c] = "reading" /\ c \in shaky'
    /\ got' = [got EXCEPT ![c] = None]
    /\ UNCHANGED <<data, phase, new>>

\* The moment at which the call replaces the file; its answer may be lost.
Replace(c) ==
    /\ phase[c] = "reading" /\ got[c] # Unread /\ new[c] # Unread
    /\ data' = new[c]
    /\ phase' \in {[phase EXCEPT ![c] = p] : p \in {"written", "failed"}}
    /\ UNCHANGED <<got, new>>

\* Well: a reader has read the file, a writer has replaced it.
Succeed(c) ==
    /\ phase[c] = (IF new[c] = Unread THEN "reading" ELSE "written") /\ got[c] # Unread
    /\ phase' = [phase EXCEPT ![c] = "ok"]
    /\ UNCHANGED <<data, got, new>>

Fail(c) ==
    /\ phase[c] \in {"reading", "written"}
    /\ phase' = [phase EXCEPT ![c] = "failed"]
    /\ UNCHANGED <<data, got, new>>

OutOfBand ==
    /\ data' \in Contents \cup {None}
    /\ UNCHANGED <<got, phase, new>>

Next ==
    /\ shaky \subseteq shaky'
    /\ \/ \E c \in CallIds : Begin(c) \/ Sample(c) \/ Miss(c) \/ Replace(c) \/ Succeed(c) \/ Fail(c)
       \/ OutOfBand

Spec == Init /\ [][Next]_vars
=============================================================================
