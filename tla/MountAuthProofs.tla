-------------------------- MODULE MountAuthProofs --------------------------
(***************************************************************************)
(* Theorems about MountAuth, for every set of tasks and of grants.         *)
(***************************************************************************)
EXTENDS MountAuth, TLAPS

(* What holds under every fault.                                           *)

\* The lock: two that hold it are both readers, and only `authorize` writes.
LockInv ==
    /\ \A p, q \in Tasks : Holds(p) /\ Holds(q) /\ p # q => call[p].op # "authorize"
    /\ \A p \in Tasks : pc[p] \in Writing => call[p].op = "authorize"

\* What is in the file, was read from it or is about to be written was asked for.
GrantInv ==
    /\ file \in {Missing, Torn} \/ file \subseteq asked
    /\ \A p \in Tasks : read[p] \subseteq asked
    /\ \A p \in Tasks : pc[p] # "idle" /\ call[p].op = "authorize" =>
                            call[p].grant \in asked
    /\ NoPhantomGrant

SafeInv == TypeOK /\ LockInv /\ GrantInv

\* The empty store and no request satisfy the invariant.
LEMMA SafeInit == Init => SafeInv
  BY DEF Init, SafeInv, TypeOK, LockInv, GrantInv, NoPhantomGrant, Holds,
         Reading, Writing, Calls, Results

\* No step leaves the types.
LEMMA TypeStep == SafeInv /\ [Next]_vars => TypeOK'
<1> SUFFICES ASSUME SafeInv, [Next]_vars PROVE TypeOK'
  OBVIOUS
<1> USE DEF SafeInv, TypeOK, Calls, Results, Reading, Writing, Goto
<1>1. CASE UNCHANGED vars
  BY <1>1 DEF vars
<1>2. ASSUME NEW p \in Tasks, NEW c \in Calls, Request(p, c) PROVE TypeOK'
  BY <1>2 DEF Request, Ops
<1>3. ASSUME NEW p \in Tasks, Serve(p) PROVE TypeOK'
  <2>1. CASE Enter(p) \/ Sleep(p) \/ Acquire(p) \/ Exists(p)
    BY <2>1 DEF Enter, Sleep, Acquire, Exists
  <2>2. CASE Read(p)
    BY <2>2 DEF Read, Parsed, Finish
  <2>3. CASE ReadFails(p)
    BY <2>3 DEF ReadFails, Finish, Failure
  <2>4. CASE Create(p) \/ Truncate(p)
    BY <2>4 DEF Create, Truncate
  <2>5. CASE WriteDefault(p)
    BY <2>5 DEF WriteDefault, Parsed, Finish
  <2>6. CASE CreateFails(p)
    BY <2>6 DEF CreateFails, Finish, Failure
  <2>7. CASE Write(p)
    <3>1. pc[p] = "write" /\ call[p].op = "authorize"
      BY <2>7 DEF Write, Finish, LockInv
    <3>2. call[p].grant \in asked /\ read[p] \subseteq asked
      BY <3>1 DEF GrantInv
    <3> QED
      BY <2>7, <3>2 DEF Write, Finish
  <2>8. CASE WriteShort(p)
    <3>1. pc[p] = "write" /\ call[p].op = "authorize"
      BY <2>8 DEF WriteShort, Finish, LockInv
    <3>2. call[p].grant \in asked
      BY <3>1 DEF GrantInv
    <3> QED
      BY <2>8, <3>2 DEF WriteShort, Finish
  <2>9. CASE WriteFails(p)
    BY <2>9 DEF WriteFails, Finish
  <2>10. CASE Answer(p)
    BY <2>10 DEF Answer
  <2> QED
    BY <1>3, <2>1, <2>2, <2>3, <2>4, <2>5, <2>6, <2>7, <2>8, <2>9, <2>10 DEF Serve
<1>4. CASE Crash
  BY <1>4 DEF Crash
<1>5. ASSUME NEW p \in Tasks, Leave(p) PROVE TypeOK'
  BY <1>5 DEF Leave
<1> QED
  BY <1>1, <1>2, <1>3, <1>4, <1>5 DEF Next

\* The lock keeps writers apart from everybody.
LEMMA LockStep == SafeInv /\ [Next]_vars => LockInv'
<1> SUFFICES ASSUME SafeInv, [Next]_vars PROVE LockInv'
  OBVIOUS
<1> USE DEF SafeInv, TypeOK, Reading, Writing, Holds, Goto
<1>1. CASE UNCHANGED vars
  BY <1>1 DEF vars, LockInv
<1>2. ASSUME NEW p \in Tasks, NEW c \in Calls, Request(p, c) PROVE LockInv'
  BY <1>2 DEF Request, LockInv
<1>3. ASSUME NEW p \in Tasks, Serve(p) PROVE LockInv'
  \* A step of p other than Acquire does not begin to hold the lock.
  <2>1. ASSUME call' = call, NEW to, pc' = [pc EXCEPT ![p] = to],
               to \in Reading \cup Writing => pc[p] \in Reading \cup Writing,
               to \in Writing => call[p].op = "authorize"
        PROVE  LockInv'
    <3>1. \A q \in Tasks : q # p => pc'[q] = pc[q]
      BY <2>1
    <3>2. pc'[p] = to
      BY <2>1
    <3>3. \A q \in Tasks : Holds(q)' => Holds(q)
      BY <2>1, <3>1, <3>2
    <3>4. \A q \in Tasks : pc'[q] \in Writing => call[q].op = "authorize"
      BY <2>1, <3>1, <3>2 DEF LockInv
    <3> QED
      BY <2>1, <3>3, <3>4 DEF LockInv
  <2>2. CASE Enter(p) \/ Sleep(p) \/ Exists(p) \/ Create(p) \/ Answer(p)
    BY <2>1, <2>2 DEF Enter, Sleep, Exists, Create, Answer
  <2>3. CASE Acquire(p)
    BY <2>3 DEF Acquire, LockInv
  <2>4. CASE Read(p) \/ WriteDefault(p)
    BY <2>1, <2>4 DEF Read, WriteDefault, Parsed, Finish
  <2>5. CASE ReadFails(p) \/ CreateFails(p) \/ WriteFails(p)
    BY <2>1, <2>5 DEF ReadFails, CreateFails, WriteFails, Finish
  <2>6. CASE Truncate(p)
    BY <2>1, <2>6 DEF Truncate, LockInv
  <2>7. CASE Write(p) \/ WriteShort(p)
    BY <2>1, <2>7 DEF Write, WriteShort, Finish
  <2> QED
    BY <1>3, <2>2, <2>3, <2>4, <2>5, <2>6, <2>7 DEF Serve
<1>4. CASE Crash
  BY <1>4 DEF Crash, LockInv
<1>5. ASSUME NEW p \in Tasks, Leave(p) PROVE LockInv'
  BY <1>5 DEF Leave, LockInv
<1> QED
  BY <1>1, <1>2, <1>3, <1>4, <1>5 DEF Next

\* Nothing is stored or reported that was not asked for.
LEMMA GrantStep == SafeInv /\ [Next]_vars => GrantInv'
<1> SUFFICES ASSUME SafeInv, [Next]_vars PROVE GrantInv'
  OBVIOUS
<1> USE DEF SafeInv, TypeOK, GrantInv, NoPhantomGrant, Goto
<1>1. CASE UNCHANGED vars
  BY <1>1 DEF vars
<1>2. ASSUME NEW p \in Tasks, NEW c \in Calls, Request(p, c) PROVE GrantInv'
  BY <1>2 DEF Request
<1>3. ASSUME NEW p \in Tasks, Serve(p) PROVE GrantInv'
  <2>1. CASE Enter(p) \/ Sleep(p) \/ Acquire(p) \/ Exists(p)
    BY <2>1 DEF Enter, Sleep, Acquire, Exists
  <2>2. CASE Read(p)
    <3>1. file \subseteq asked
      BY <2>2 DEF Read
    <3> QED
      BY <2>2, <3>1 DEF Read, Parsed, Finish
  <2>3. CASE ReadFails(p)
    BY <2>3 DEF ReadFails, Finish, Failure
  <2>4. CASE Create(p) \/ Truncate(p)
    BY <2>4 DEF Create, Truncate
  <2>5. CASE WriteDefault(p)
    BY <2>5 DEF WriteDefault, Parsed, Finish
  <2>6. CASE CreateFails(p)
    BY <2>6 DEF CreateFails, Finish, Failure
  <2>7. CASE Write(p)
    <3>1. pc[p] = "write" /\ call[p].op = "authorize"
      BY <2>7 DEF Write, Finish, LockInv, Writing
    <3>2. call[p].grant \in asked /\ read[p] \subseteq asked
      BY <3>1
    <3> QED
      BY <2>7, <3>1, <3>2 DEF Write, Finish
  <2>8. CASE WriteShort(p)
    BY <2>8 DEF WriteShort, Finish
  <2>9. CASE WriteFails(p)
    BY <2>9 DEF WriteFails, Finish
  <2>10. CASE Answer(p)
    BY <2>10 DEF Answer
  <2> QED
    BY <1>3, <2>1, <2>2, <2>3, <2>4, <2>5, <2>6, <2>7, <2>8, <2>9, <2>10 DEF Serve
<1>4. CASE Crash
  BY <1>4 DEF Crash
<1>5. ASSUME NEW p \in Tasks, Leave(p) PROVE GrantInv'
  BY <1>5 DEF Leave
<1> QED
  BY <1>1, <1>2, <1>3, <1>4, <1>5 DEF Next

\* The invariant holds throughout, whatever is written, lost or restarted.
LEMMA SafeInvariance == Spec => []SafeInv
<1>1. SafeInv /\ [Next]_vars => SafeInv'
  BY TypeStep, LockStep, GrantStep DEF SafeInv
<1> QED
  BY SafeInit, <1>1, PTL DEF Spec

\* Every variable of the store keeps its type, whatever fails or crashes.
THEOREM TypeCorrect == Spec => []TypeOK
<1>1. SafeInv => TypeOK
  BY DEF SafeInv
<1> QED
  BY SafeInvariance, <1>1, PTL

\* `authorize` (pam/mount.rs:342) has the file for itself from the truncation to
\* the write.
THEOREM WritersAlone == Spec => []WriterAlone
<1>1. SafeInv => WriterAlone
  BY DEF SafeInv, LockInv, WriterAlone, Holds
<1> QED
  BY SafeInvariance, <1>1, PTL

\* Neither `check` nor open_user_session is ever told of an authorization that
\* nobody asked for, under all faults (pam/mount.rs:269).
THEOREM NoPhantomGrants == Spec => []NoPhantomGrant
<1>1. SafeInv => NoPhantomGrant
  BY DEF SafeInv, GrantInv
<1> QED
  BY SafeInvariance, <1>1, PTL

-----------------------------------------------------------------------------
(* What holds when files can be written and the process does not die;      *)
(* reading may fail.                                                       *)

Reliable == Faults \subseteq {"read_error"}

\* Where the file stands at each step, and what it has of `acked`: whoever
\* creates the file does so before the first authorization, and whoever
\* rewrites it has read all of it.
StoreInv ==
    /\ \A p \in Tasks : pc[p] \in {"create", "default"} =>
                            file \in {Missing, Torn, {}} /\ acked = {}
    /\ file = Missing => acked = {}
    /\ file = Torn => \E p \in Tasks : pc[p] \in {"default", "write"}
    /\ file \in SUBSET Grants => acked \subseteq file
    /\ \A p \in Tasks : pc[p] = "truncate" => file = read[p]
    /\ \A p \in Tasks : pc[p] = "write" => file = Torn /\ acked \subseteq read[p]

\* Every step of a store that does not fail or crash keeps what was acknowledged.
LEMMA StoreStep ==
  ASSUME Reliable
  PROVE  SafeInv /\ StoreInv /\ [Next]_vars => StoreInv'
<1> SUFFICES ASSUME SafeInv, StoreInv, [Next]_vars PROVE StoreInv'
  OBVIOUS
<1> USE MountAuthAssumption DEF SafeInv, TypeOK, Goto, Reading, Writing
<1>0. /\ "crash" \notin Faults /\ "write_error" \notin Faults
      /\ "short_write" \notin Faults
  BY Reliable DEF Reliable
<1>1. CASE UNCHANGED vars
  BY <1>1 DEF vars, StoreInv
<1>2. ASSUME NEW p \in Tasks, NEW c \in Calls, Request(p, c) PROVE StoreInv'
  BY <1>2 DEF Request, StoreInv
<1>3. ASSUME NEW p \in Tasks, Serve(p) PROVE StoreInv'
  <2>1. CASE Enter(p) \/ Sleep(p) \/ Acquire(p) \/ Exists(p)
    BY <2>1 DEF Enter, Sleep, Acquire, Exists, StoreInv
  <2>2. CASE Read(p)
    BY <2>2 DEF Read, Parsed, Finish, StoreInv
  <2>3. CASE ReadFails(p)
    BY <2>3 DEF ReadFails, Finish, StoreInv
  <2>4. CASE Create(p)
    <3>1. \A q \in Tasks : pc[q] \notin Writing
      BY <2>4 DEF Create, LockInv, Holds
    <3> QED
      BY <2>4, <3>1 DEF Create, StoreInv
  <2>5. CASE WriteDefault(p)
    <3>1. \A q \in Tasks : pc[q] \notin Writing
      BY <2>5 DEF WriteDefault, Parsed, Finish, LockInv, Holds
    <3> QED
      BY <2>5, <3>1 DEF WriteDefault, Parsed, Finish, StoreInv
  <2>6. CASE Truncate(p)
    <3>1. \A q \in Tasks : Holds(q) => q = p
      BY <2>6 DEF Truncate, LockInv, Holds
    <3> QED
      BY <2>6, <3>1 DEF Truncate, StoreInv, Holds
  <2>7. CASE Write(p)
    <3>1. \A q \in Tasks : Holds(q) => q = p
      BY <2>7 DEF Write, Finish, LockInv, Holds
    <3>2. /\ pc[p] = "write" /\ pc' = [pc EXCEPT ![p] = "done"] /\ read' = read
          /\ file' = read[p] \cup {call[p].grant} /\ acked' = acked \cup {call[p].grant}
      BY <2>7 DEF Write, Finish
    <3>3. acked' \subseteq file' /\ file' \notin {Missing, Torn}
      BY <3>2 DEF StoreInv, Calls
    <3>4. \A q \in Tasks : pc'[q] \notin Reading \cup Writing
      BY <3>1, <3>2 DEF Holds
    <3> QED
      BY <3>3, <3>4 DEF StoreInv
  <2>8. CASE Answer(p)
    BY <2>8 DEF Answer, StoreInv
  <2> QED
    BY <1>0, <1>3, <2>1, <2>2, <2>3, <2>4, <2>5, <2>6, <2>7, <2>8
       DEF Serve, CreateFails, WriteShort, WriteFails
<1>4. ASSUME NEW p \in Tasks, Leave(p) PROVE StoreInv'
  BY <1>4 DEF Leave, StoreInv
<1> QED
  BY <1>0, <1>1, <1>2, <1>3, <1>4 DEF Next, Crash

\* Without crashes and failed writes, what was acknowledged is in the file or about to
\* be written back.
LEMMA StoreInvariance ==
  ASSUME Reliable
  PROVE  Spec => [](SafeInv /\ StoreInv)
<1>1. Init => StoreInv
  BY MountAuthAssumption DEF Init, StoreInv
<1>2. SafeInv /\ StoreInv /\ [Next]_vars => StoreInv'
  BY Reliable, StoreStep
<1> QED
  BY SafeInvariance, <1>1, <1>2, PTL DEF Spec

\* What the file stands for, before and after a step.
LEMMA StoredIs ==
  ASSUME SafeInv
  PROVE  /\ \A p \in Tasks : pc[p] = "write" => Stored = read[p]
         /\ (\A p \in Tasks : pc[p] # "write") =>
                Stored = IF file \in {Missing, Torn} THEN {} ELSE file
  BY DEF SafeInv, LockInv, Stored, Holds, Writing

\* The same of the state after a step.
LEMMA StoredBecomes ==
  ASSUME SafeInv'
  PROVE  /\ \A p \in Tasks : pc'[p] = "write" => Stored' = read'[p]
         /\ (\A p \in Tasks : pc'[p] # "write") =>
                Stored' = IF file' \in {Missing, Torn} THEN {} ELSE file'
  BY DEF SafeInv, LockInv, Stored, Holds, Writing

\* An authorization that was acknowledged is kept (Manual/README.md:369), by
\* concurrent calls and by readers that create the file, as long as the file
\* can be written and the process lives.
THEOREM AuthorizationsKept ==
  ASSUME Reliable
  PROVE  Spec => []AcknowledgedKept
<1>1. SafeInv /\ StoreInv => AcknowledgedKept
  <2> SUFFICES ASSUME SafeInv, StoreInv PROVE acked \subseteq Stored
    BY DEF AcknowledgedKept
  <2>1. CASE \E p \in Tasks : pc[p] = "write"
    BY <2>1, StoredIs DEF StoreInv
  <2>2. CASE \A p \in Tasks : pc[p] # "write"
    BY <2>2, StoredIs DEF StoreInv, SafeInv, TypeOK
  <2> QED
    BY <2>1, <2>2
<1> QED
  BY Reliable, StoreInvariance, <1>1, PTL

-----------------------------------------------------------------------------
(* The refinement of AuthStore.                                            *)

\* The state AuthStore sees of a task.
State == [p \in Tasks |-> IF pc[p] \in {"idle", "done"} THEN pc[p] ELSE "called"]

\* Steps before the one at which a call takes effect are invisible: the file
\* stands for the same authorizations.
LEMMA Invisible ==
  ASSUME SafeInv, SafeInv', StoreInv, StoreInv',
         NEW p \in Tasks,
         \/ Enter(p) \/ Sleep(p) \/ Acquire(p) \/ Exists(p) \/ Create(p) \/ Truncate(p)
         \/ call[p].op = "authorize" /\ (Read(p) \/ WriteDefault(p))
  PROVE  /\ Stored' = Stored /\ State' = State
         /\ call' = call /\ result' = result
<1> USE MountAuthAssumption DEF SafeInv, TypeOK, Goto, Reading, Writing
<1>1. State' = State /\ call' = call /\ result' = result
  BY DEF State, Enter, Sleep, Acquire, Exists, Create, Truncate, Read, WriteDefault, Parsed
<1>2. CASE Enter(p) \/ Sleep(p) \/ Acquire(p) \/ Exists(p) \/ Read(p)
  <2>1. /\ file' = file
        /\ \A q \in Tasks : pc'[q] = "write" <=> pc[q] = "write"
        /\ \A q \in Tasks : pc[q] = "write" => read'[q] = read[q]
    BY <1>1, <1>2 DEF Enter, Sleep, Acquire, Exists, Read, Parsed, Finish
  <2> QED
    BY <1>1, <2>1, StoredIs, StoredBecomes
<1>3. CASE Create(p) \/ WriteDefault(p)
  <2>1. /\ pc[p] \in {"create", "default"} /\ file' \in {Torn, {}}
        /\ \A q \in Tasks : pc[q] # "write" /\ pc'[q] # "write"
    BY <1>1, <1>3 DEF Create, WriteDefault, Parsed, Finish, LockInv, Holds
  <2>2. file \in {Missing, Torn, {}}
    BY <2>1 DEF StoreInv
  <2> QED
    BY <1>1, <2>1, <2>2, StoredIs, StoredBecomes
<1>4. CASE Truncate(p)
  <2>1. /\ pc[p] = "truncate" /\ pc'[p] = "write" /\ read' = read
        /\ \A q \in Tasks : pc[q] # "write"
    BY <1>4 DEF Truncate, LockInv, Holds
  <2>2. file = read[p] /\ file \notin {Missing, Torn}
    BY <2>1 DEF StoreInv
  <2> QED
    BY <1>1, <2>1, <2>2, StoredIs, StoredBecomes
<1> QED
  BY <1>2, <1>3, <1>4

\* A query takes effect when it has read the file, or found none, or given up.
LEMMA QueryStep ==
  ASSUME Reliable, SafeInv, SafeInv', StoreInv, StoreInv',
         NEW p \in Tasks, call[p].op # "authorize",
         Read(p) \/ ReadFails(p) \/ WriteDefault(p)
  PROVE  Store!Query(p) \/ Store!GiveUp(p)
<1> USE MountAuthAssumption DEF SafeInv, TypeOK, Goto, Reading, Writing
<1>1. \A q \in Tasks : pc[q] # "write" /\ pc'[q] # "write"
  BY DEF Read, ReadFails, WriteDefault, Parsed, Finish, LockInv, Holds
<1>2. /\ State[p] = "called" /\ State' = [State EXCEPT ![p] = "done"]
      /\ call' = call
  BY DEF State, Read, ReadFails, WriteDefault, Parsed, Finish
<1>3. CASE Read(p)
  <2>1. /\ file' = file /\ file \notin {Missing, Torn}
        /\ result' = [result EXCEPT ![p] = IF call[p].grant \in file THEN "true" ELSE "false"]
    BY <1>3 DEF Read, Parsed, Finish
  <2> QED
    BY <1>1, <1>2, <2>1, StoredIs, StoredBecomes DEF Store!Query, Store!Perform, State
<1>4. CASE ReadFails(p)
  <2>1. file' = file /\ result' = [result EXCEPT ![p] = "false"]
    BY <1>4 DEF ReadFails, Finish, Failure
  <2>2. Stored' = Stored
    BY <1>1, <2>1, StoredIs, StoredBecomes
  <2>3. CASE file = Torn
    BY <1>1, <1>2, <2>1, <2>2, <2>3, StoredIs DEF Store!Query, Store!Perform, State
  <2>4. CASE "read_error" \in Faults
    BY <1>2, <2>1, <2>2, <2>4 DEF Store!GiveUp, Store!Perform, Store!Failure, State
  <2> QED
    BY <1>4, <2>3, <2>4 DEF ReadFails
<1>5. CASE WriteDefault(p)
  <2>1. /\ pc[p] = "default" /\ file' = {}
        /\ result' = [result EXCEPT ![p] = "false"]
    BY <1>5 DEF WriteDefault, Parsed, Finish
  <2>2. file \in {Missing, Torn, {}}
    BY <2>1 DEF StoreInv
  <2> QED
    BY <1>1, <1>2, <2>1, <2>2, StoredIs, StoredBecomes DEF Store!Query, Store!Perform, State
<1> QED
  BY <1>3, <1>4, <1>5

\* An authorization takes effect when it is written, or gives up when the file
\* cannot be read: it never meets one that is being written.
LEMMA AuthorizeStep ==
  ASSUME Reliable, SafeInv, SafeInv', StoreInv, StoreInv',
         NEW p \in Tasks, call[p].op = "authorize",
         Write(p) \/ ReadFails(p)
  PROVE  Store!Authorize(p) \/ Store!GiveUp(p)
<1> USE MountAuthAssumption DEF SafeInv, TypeOK, Goto, Reading, Writing
<1>1. \A q \in Tasks : q # p => pc[q] # "write" /\ pc[q] # "default"
  BY DEF Write, ReadFails, Finish, LockInv, Holds
<1>2. /\ State[p] = "called" /\ State' = [State EXCEPT ![p] = "done"]
      /\ call' = call /\ \A q \in Tasks : pc'[q] # "write"
  BY <1>1 DEF State, Write, ReadFails, Finish
<1>3. CASE Write(p)
  <2>1. /\ pc[p] = "write" /\ file' = read[p] \cup {call[p].grant}
        /\ result' = [result EXCEPT ![p] = "Ok"]
    BY <1>3 DEF Write, Finish
  <2>2. Stored = read[p]
    BY <2>1, StoredIs
  <2>3. file' \notin {Missing, Torn}
    BY <2>1 DEF Calls
  <2>4. Stored' = file'
    BY <1>2, <2>3, StoredBecomes
  <2> QED
    BY <1>2, <2>1, <2>2, <2>4 DEF Store!Authorize, Store!Perform, State
<1>4. CASE ReadFails(p)
  <2>1. /\ pc[p] = "read" /\ file' = file
        /\ result' = [result EXCEPT ![p] = "IOError"]
    BY <1>4 DEF ReadFails, Finish, Failure
  <2>2. file # Torn
    BY <1>1, <2>1 DEF StoreInv
  <2>3. "read_error" \in Faults
    BY <1>4, <2>2 DEF ReadFails
  <2>4. Stored' = Stored
    BY <1>1, <1>2, <2>1, StoredIs, StoredBecomes
  <2> QED
    BY <1>2, <2>1, <2>3, <2>4 DEF Store!GiveUp, Store!Perform, Store!Failure, State
<1> QED
  BY <1>3, <1>4

\* To its callers the store is the atomic AuthStore (pam/mount.rs:338), although
\* it takes the lock, looks for the file, creates, reads, truncates and writes it
\* in separate steps, as long as the file can be written and the process lives.
THEOREM StoreIsAtomic ==
  ASSUME Reliable
  PROVE  Spec => Atomic
<1> USE DEF Store!vars, Store!Calls, Store!Ops
<1>1. Init => Store!Init
  BY MountAuthAssumption DEF Init, Store!Init, Stored, Calls, Ops
<1>2. SafeInv /\ StoreInv /\ SafeInv' /\ StoreInv' /\ [Next]_vars
        => [Store!Next]_(Store!vars)
  <2> SUFFICES ASSUME SafeInv, StoreInv, SafeInv', StoreInv', [Next]_vars
               PROVE  [Store!Next]_(Store!vars)
    OBVIOUS
  <2>0. /\ "crash" \notin Faults /\ "write_error" \notin Faults
        /\ "short_write" \notin Faults
    BY Reliable DEF Reliable
  <2>1. CASE UNCHANGED vars
    BY <2>1 DEF vars, Stored
  <2>2. ASSUME NEW p \in Tasks, NEW c \in Calls, Request(p, c)
        PROVE  Store!Request(p, c)
    <3>1. /\ pc[p] = "idle" /\ pc' = [pc EXCEPT ![p] = "called"]
          /\ file' = file /\ read' = read
      BY <2>2 DEF Request, Goto
    <3>2. \A q \in Tasks : pc'[q] = "write" <=> pc[q] = "write"
      BY <3>1 DEF SafeInv, TypeOK
    <3>3. Stored' = Stored
      BY <3>1, <3>2, StoredIs, StoredBecomes
    <3> QED
      BY <2>2, <3>1, <3>3 DEF Request, Store!Request, SafeInv, TypeOK
  <2>3. ASSUME NEW p \in Tasks, Serve(p)
        PROVE  [Store!Next]_(Store!vars)
    <3>1. CASE \/ Enter(p) \/ Sleep(p) \/ Acquire(p) \/ Exists(p) \/ Create(p) \/ Truncate(p)
               \/ call[p].op = "authorize" /\ (Read(p) \/ WriteDefault(p))
      BY <3>1, Invisible DEF State
    <3>2. CASE call[p].op # "authorize" /\ (Read(p) \/ ReadFails(p) \/ WriteDefault(p))
      BY <3>2, Reliable, QueryStep DEF Store!Next
    <3>3. CASE Write(p) \/ (call[p].op = "authorize" /\ ReadFails(p))
      <4>1. call[p].op = "authorize"
        BY <3>3 DEF Write, Finish, Goto, SafeInv, LockInv, Writing
      <4> QED
        BY <3>3, <4>1, Reliable, AuthorizeStep DEF Store!Next
    <3>4. CASE Answer(p)
      <4>1. /\ pc[p] = "done" /\ pc' = [pc EXCEPT ![p] = "idle"]
            /\ file' = file
            /\ \A q \in Tasks : q # p => read'[q] = read[q]
        BY <3>4 DEF Answer, Goto, SafeInv, TypeOK
      <4>2. \A q \in Tasks : pc'[q] = "write" <=> pc[q] = "write"
        BY <4>1 DEF SafeInv, TypeOK
      <4>3. Stored' = Stored
        BY <4>1, <4>2, StoredIs, StoredBecomes
      <4>4. Store!Answer(p)
        BY <3>4, <4>1, <4>3 DEF Answer, Store!Answer, SafeInv, TypeOK
      <4> QED
        BY <4>4 DEF Store!Next
    <3>5. ~ CreateFails(p) /\ ~ WriteShort(p) /\ ~ WriteFails(p)
      BY <2>0 DEF CreateFails, WriteShort, WriteFails
    <3> QED
      BY <2>3, <3>1, <3>2, <3>3, <3>4, <3>5 DEF Serve
  <2>4. Calls = Store!Calls
    BY DEF Calls, Ops
  <2>5. ASSUME NEW p \in Tasks, Leave(p)
        PROVE  Store!Leave(p)
    <3>1. /\ pc[p] = "panicked" /\ pc' = [pc EXCEPT ![p] = "idle"]
          /\ file' = file /\ read' = read
      BY <2>5 DEF Leave, Goto
    <3>2. \A q \in Tasks : pc'[q] = "write" <=> pc[q] = "write"
      BY <3>1 DEF SafeInv, TypeOK
    <3>3. Stored' = Stored
      BY <3>1, <3>2, StoredIs, StoredBecomes
    <3> QED
      BY <2>5, <3>1, <3>3 DEF Leave, Store!Leave, SafeInv, TypeOK
  <2> QED
    BY <2>0, <2>1, <2>2, <2>3, <2>4, <2>5 DEF Next, Crash, Store!Next
<1> QED
  BY Reliable, StoreInvariance, <1>1, <1>2, PTL DEF Spec, Atomic, Store!Spec
============================================================================
