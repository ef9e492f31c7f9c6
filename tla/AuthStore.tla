----------------------------- MODULE AuthStore -----------------------------
(***************************************************************************)
(* What the mount authorization store promises its callers: `authorize`    *)
(* adds one authorization and the queries (`check` on the D-Bus, the test  *)
(* open_user_session makes) read all of them, each at one instant between  *)
(* the call and its answer. A store that MayFail may also give up on a     *)
(* call without any effect.                                                *)
(***************************************************************************)
CONSTANTS
    Tasks,      \* callers, each with at most one call outstanding
    Grants,     \* (user, digest) pairs
    MayFail     \* whether the store may give up on a call

VARIABLES
    authorizations,   \* the authorizations given so far
    state,            \* task -> "idle", "called" or "done"
    call,             \* task -> [op, grant] of its last call
    result            \* task -> what its last call returned

vars == <<authorizations, state, call, result>>

Ops == {"authorize", "check", "open"}
Calls == [op : Ops, grant : Grants]

\* What an operation returns when it gives up.
Failure(op) == IF op = "authorize" THEN "IOError" ELSE "false"

Init ==
    /\ authorizations = {}
    /\ state = [p \in Tasks |-> "idle"]
    /\ call \in [Tasks -> Calls]
    /\ result = [p \in Tasks |-> "none"]

Request(p, c) ==
    /\ state[p] = "idle"
    /\ state' = [state EXCEPT ![p] = "called"]
    /\ call' = [call EXCEPT ![p] = c]
    /\ result' = [result EXCEPT ![p] = "none"]
    /\ UNCHANGED authorizations

Perform(p, r) ==
    /\ state[p] = "called"
    /\ state' = [state EXCEPT ![p] = "done"]
    /\ result' = [result EXCEPT ![p] = r]
    /\ UNCHANGED call

Authorize(p) ==
    /\ call[p].op = "authorize"
    /\ authorizations' = authorizations \cup {call[p].grant}
    /\ Perform(p, "Ok")

Query(p) ==
    /\ call[p].op # "authorize"
    /\ Perform(p, IF call[p].grant \in authorizations THEN "true" ELSE "false")
    /\ UNCHANGED authorizations

GiveUp(p) ==
    /\ MayFail
    /\ Perform(p, Failure(call[p].op))
    /\ UNCHANGED authorizations

Answer(p) ==
    /\ state[p] = "done"
    /\ state' = [state EXCEPT ![p] = "idle"]
    /\ UNCHANGED <<authorizations, call, result>>

\* A caller goes away that was not answered; its call has had no effect.
Leave(p) ==
    /\ state[p] = "called"
    /\ state' = [state EXCEPT ![p] = "idle"]
    /\ UNCHANGED <<authorizations, call, result>>

Next ==
    \E p \in Tasks :
        \/ \E c \in Calls : Request(p, c)
        \/ Authorize(p) \/ Query(p) \/ GiveUp(p) \/ Answer(p) \/ Leave(p)

Spec == Init /\ [][Next]_vars
============================================================================
