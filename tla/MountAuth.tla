----------------------------- MODULE MountAuth -----------------------------
(***************************************************************************)
(* The mount authorization file and its users (src/pam/mount.rs from line  *)
(* 246, src/pam/disk.rs): MountAuthDBus::authorize and ::check, on one     *)
(* D-Bus connection, and the test of open_user_session on another, share   *)
(* the file through one tokio RwLock and access it step by step: test for  *)
(* existence, create, truncate, write.                                     *)
(*                                                                         *)
(* The process may be killed between any two steps; the file stays as it   *)
(* is and the service is started again.                                    *)
(***************************************************************************)
EXTENDS Naturals, FiniteSets

CONSTANTS
    Tasks,        \* D-Bus calls in progress at a time
    Grants,       \* (user, digest) pairs
    Faults,       \* the faults that can happen
    MaxCrashes,   \* bound: number of crashes
    TokioTimer,   \* whether the handlers run in a tokio runtime, as the tests run
                  \*   them; the service leaves them to zbus's own executor
    Missing,      \* the file does not exist
    Torn          \* the file is empty or cut short: it does not parse

ASSUME MountAuthAssumption ==
    /\ Faults \subseteq {"read_error", "write_error", "short_write", "crash"}
    /\ MaxCrashes \in Nat
    /\ TokioTimer \in BOOLEAN
    /\ Missing # Torn
    /\ \A S \in SUBSET Grants : S \notin {Missing, Torn}

VARIABLES
    file,      \* Missing, Torn or the set of authorizations it holds
    pc,        \* task -> where it stands
    call,      \* task -> [op, grant] of its last call
    result,    \* task -> what its last call returned
    read,      \* task -> the authorizations it has parsed
    asked,     \* history: authorizations some `authorize` call asked for
    acked,     \* history: authorizations whose `authorize` returned Ok
    crashes    \* history: number of crashes

vars == <<file, pc, call, result, read, asked, acked, crashes>>

Ops == {"authorize", "check", "open"}
Calls == [op : Ops, grant : Grants]
Results == {"none", "Ok", "IOError", "true", "false"}

\* Inside read_file_or_create_default, and inside write_auth_file.
Reading == {"exists", "read", "create", "default"}
Writing == {"truncate", "write"}

Init ==
    /\ file = Missing
    /\ pc = [p \in Tasks |-> "idle"]
    /\ call \in [Tasks -> Calls]
    /\ result = [p \in Tasks |-> "none"]
    /\ read = [p \in Tasks |-> {}]
    /\ asked = {} /\ acked = {}
    /\ crashes = 0

-----------------------------------------------------------------------------
Goto(p, from, to) == pc[p] = from /\ pc' = [pc EXCEPT ![p] = to]

\* A client calls.
Request(p, c) ==
    /\ Goto(p, "idle", "called")
    /\ call' = [call EXCEPT ![p] = c]
    /\ result' = [result EXCEPT ![p] = "none"]
    /\ asked' = asked \cup (IF c.op = "authorize" THEN {c.grant} ELSE {})
    /\ UNCHANGED <<file, read, acked, crashes>>

\* zbus starts the handler under the lock of its object. The object of
\* `authorize` (&mut self) and `check` (&self) is MountAuthDBus; `open` runs
\* in the Sessions object, one at a time.
Excludes(op) ==
    CASE op = "authorize" -> {"authorize", "check"}
      [] op = "check"     -> {"authorize"}
      [] op = "open"      -> {"open"}

Inside(p) == pc[p] \notin {"idle", "called", "panicked"}

Enter(p) ==
    /\ \A q \in Tasks : Inside(q) => call[q].op \notin Excludes(call[p].op)
    /\ Goto(p, "called", IF call[p].op = "check" THEN "sleep" ELSE "lock")
    /\ UNCHANGED <<file, call, result, read, asked, acked, crashes>>

\* The delay of `check`. Outside a tokio runtime tokio::time::sleep panics, which
\* ends the task of this call: it frees the object and is never answered.
Sleep(p) ==
    /\ Goto(p, "sleep", IF TokioTimer THEN "lock" ELSE "panicked")
    /\ UNCHANGED <<file, call, result, read, asked, acked, crashes>>

\* The lock of MountAuthOperations: `authorize` writes, the others read.
Holds(p) == pc[p] \in Reading \cup Writing

\* Mutant: `authorize` takes the lock for reading.
AcquireShared(p) ==
    /\ Goto(p, "lock", "exists")
    /\ UNCHANGED <<file, call, result, read, asked, acked, crashes>>

Acquire(p) ==
    /\ \A q \in Tasks : Holds(q) =>
          call[q].op # "authorize" /\ call[p].op # "authorize"
    /\ Goto(p, "lock", "exists")
    /\ UNCHANGED <<file, call, result, read, asked, acked, crashes>>

-----------------------------------------------------------------------------
(* read_auth_file: read_file_or_create_default, then parse.                *)

\* Return r, which releases the lock.
Finish(p, from, r) ==
    /\ Goto(p, from, "done")
    /\ result' = [result EXCEPT ![p] = r]
    /\ UNCHANGED <<call, asked, crashes>>

\* Mutants: `authorize` reports success after an error; a query that cannot read
\* the file says yes.
FailureIgnored(p) == IF call[p].op = "authorize" THEN "Ok" ELSE "false"
FailureGrants(p) == IF call[p].op = "authorize" THEN "IOError" ELSE "true"

Failure(p) == IF call[p].op = "authorize" THEN "IOError" ELSE "false"

\* The file has been read and parsed as `contents`: a query is answered, an
\* authorization goes on to write_auth_file.
Parsed(p, from, contents) ==
    IF call[p].op = "authorize"
    THEN /\ Goto(p, from, "truncate")
         /\ read' = [read EXCEPT ![p] = contents]
         /\ UNCHANGED <<call, result, asked, crashes>>
    ELSE /\ Finish(p, from, IF call[p].grant \in contents THEN "true" ELSE "false")
         /\ UNCHANGED read

Exists(p) ==
    /\ Goto(p, "exists", IF file = Missing THEN "create" ELSE "read")
    /\ UNCHANGED <<file, call, result, read, asked, acked, crashes>>

Read(p) ==
    /\ file \notin {Missing, Torn}
    /\ Parsed(p, "read", file)
    /\ UNCHANGED <<file, acked>>

\* Mutants: a file that does not parse is read again until it does; it is kept
\* as an entry of its own.
ReadFailsRetry(p) ==
    /\ file = Torn \/ "read_error" \in Faults
    /\ Goto(p, "read", "exists")
    /\ UNCHANGED <<file, call, result, read, asked, acked, crashes>>

ReadFailsUnparsed(p) ==
    /\ file = Torn
    /\ call[p].op = "authorize"
    /\ Goto(p, "read", "truncate")
    /\ read' = [read EXCEPT ![p] = {file}]
    /\ UNCHANGED <<file, call, result, asked, acked, crashes>>

ReadFails(p) ==
    /\ file = Torn \/ "read_error" \in Faults
    /\ Finish(p, "read", Failure(p))
    /\ UNCHANGED <<file, read, acked>>

\* File::create makes the file, or empties the one another reader just made.
Create(p) ==
    /\ Goto(p, "create", "default")
    /\ file' = Torn
    /\ UNCHANGED <<call, result, read, asked, acked, crashes>>

\* write_all of the default, no authorizations.
WriteDefault(p) ==
    /\ file' = {}
    /\ Parsed(p, "default", {})
    /\ UNCHANGED acked

CreateFails(p) ==
    /\ "write_error" \in Faults
    /\ \E from \in {"create", "default"} : Finish(p, from, Failure(p))
    /\ UNCHANGED <<file, read, acked>>

-----------------------------------------------------------------------------
(* write_auth_file                                                         *)

Truncate(p) ==
    /\ Goto(p, "truncate", "write")
    /\ file' = Torn
    /\ UNCHANGED <<call, result, read, asked, acked, crashes>>

\* Mutant: the authorizations that were read are not written back.
WriteOne(p) ==
    /\ file' = {call[p].grant}
    /\ Finish(p, "write", "Ok")
    /\ acked' = acked \cup {call[p].grant}
    /\ UNCHANGED read

Write(p) ==
    /\ file' = read[p] \cup {call[p].grant}
    /\ Finish(p, "write", "Ok")
    /\ acked' = acked \cup {call[p].grant}
    /\ UNCHANGED read

\* File::write stores fewer bytes than it was given, which is not noticed.
WriteShort(p) ==
    /\ "short_write" \in Faults
    /\ Finish(p, "write", "Ok")
    /\ acked' = acked \cup {call[p].grant}
    /\ UNCHANGED <<file, read>>

WriteFails(p) ==
    /\ "write_error" \in Faults
    /\ \E from \in {"truncate", "write"} : Finish(p, from, "IOError")
    /\ UNCHANGED <<file, read, acked>>

-----------------------------------------------------------------------------
\* The reply is sent.
Answer(p) ==
    /\ Goto(p, "done", "idle")
    /\ read' = [read EXCEPT ![p] = {}]
    /\ UNCHANGED <<file, call, result, asked, acked, crashes>>

\* The caller of a call that is never answered goes away.
Leave(p) ==
    /\ Goto(p, "panicked", "idle")
    /\ UNCHANGED <<file, call, result, read, asked, acked, crashes>>

\* The process dies and is started again; whoever waits gets a bus error.
Crash ==
    /\ "crash" \in Faults
    /\ crashes < MaxCrashes
    /\ crashes' = crashes + 1
    /\ pc' = [p \in Tasks |-> "idle"]
    /\ read' = [p \in Tasks |-> {}]
    /\ UNCHANGED <<file, call, result, asked, acked>>

Serve(p) ==
    \/ Enter(p) \/ Sleep(p) \/ Acquire(p)
    \/ Exists(p) \/ Read(p) \/ ReadFails(p)
    \/ Create(p) \/ WriteDefault(p) \/ CreateFails(p)
    \/ Truncate(p) \/ Write(p) \/ WriteShort(p) \/ WriteFails(p)
    \/ Answer(p)

Next ==
    \/ \E p \in Tasks, c \in Calls : Request(p, c)
    \/ \E p \in Tasks : Serve(p) \/ Leave(p)
    \/ Crash

Spec == Init /\ [][Next]_vars

\* Handlers that can go on do; the locks are queues, so no waiting call is
\* overtaken forever.
Fairness == \A p \in Tasks : SF_vars(Serve(p))

FairSpec == Spec /\ Fairness

-----------------------------------------------------------------------------
(* Properties.                                                             *)

\* Every variable keeps its type.
TypeOK ==
    /\ file \in {Missing, Torn} \cup SUBSET Grants
    /\ pc \in [Tasks -> {"idle", "called", "sleep", "lock", "done", "panicked"}
                        \cup Reading \cup Writing]
    /\ call \in [Tasks -> Calls]
    /\ result \in [Tasks -> Results]
    /\ read \in [Tasks -> SUBSET Grants]
    /\ asked \subseteq Grants /\ acked \subseteq asked
    /\ crashes \in Nat

\* The authorizations the file stands for: while `authorize` rewrites it, the
\* ones it held before; a file that is missing or being created holds none.
Stored ==
    IF \E p \in Tasks : pc[p] = "write"
    THEN read[CHOOSE p \in Tasks : pc[p] = "write"]
    ELSE IF file \in {Missing, Torn} THEN {} ELSE file

\* Manual/README.md:369: "This authorization persists across reboots". An
\* authorization that was acknowledged stays: neither concurrent calls nor the
\* creation of the default file by a reader undo it.
AcknowledgedKept == acked \subseteq Stored

\* pam/mount.rs:269: nobody is told of an authorization that no `authorize`
\* call asked for, whatever a crash or a failed write left of the file. (One
\* that was asked for may show: a crash can come before the answer.)
NoPhantomGrant ==
    \A p \in Tasks :
        call[p].op # "authorize" /\ result[p] = "true" => call[p].grant \in asked

\* pam/mount.rs:342, 370: `authorize` has the file for itself while it changes
\* it: nobody reads or creates it between the truncation and the write.
WriterAlone ==
    \A p, q \in Tasks : pc[p] \in Writing /\ Holds(q) => p = q

\* pam/mount.rs:342, session.rs:243: every `authorize` and every test of an open is
\* answered: the two levels of locks never block each other, and a `check` that
\* panics does not keep the object locked. A `check` that can sleep is answered too.
EveryCallAnswered ==
    \A p \in Tasks :
        pc[p] = "called" /\ (call[p].op = "check" => TokioTimer) ~> pc[p] = "idle"

\* pam/mount.rs:338: to its callers the store is atomic.
Store ==
    INSTANCE AuthStore
    WITH authorizations <- Stored,
         state <- [p \in Tasks |-> IF pc[p] \in {"idle", "done"} THEN pc[p]
                                   ELSE "called"],
         MayFail <- "read_error" \in Faults

Atomic == Store!Spec
============================================================================
