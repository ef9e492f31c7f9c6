---------------------------- MODULE PamSessions ----------------------------
(***************************************************************************)
(* Logins through the PAM module (src/lib.rs) at the session service, and  *)
(* the key file (src/pam/disk.rs) the service loads its RSA key from.      *)
(*                                                                         *)
(* Sessions lets a client call any method at any time. Here a client is a  *)
(* login: a PAM application with one handle, which authenticates a user,   *)
(* may set credentials, opens the session, closes it and ends. It gives up *)
(* when authentication or setting credentials fails; when opening fails it *)
(* ends or, the module being optional in its stack, goes on and closes all *)
(* the same. A hook blocks in block_on until its calls are answered; it    *)
(* may fail before it has sent its call, or lose its connection while it   *)
(* waits. An application may be killed at any time. A call that has been   *)
(* sent is served in any case.                                             *)
(***************************************************************************)
EXTENDS Sessions

CONSTANTS
    Missing,     \* there is no key file
    Torn,        \* the key file is empty or cut short
    PamFaults    \* the faults of this module that can happen

ASSUME PamAssumption ==
    /\ Missing \notin Nat /\ Torn \notin Nat /\ None \notin Nat
    /\ Missing # Torn
    /\ PamFaults \subseteq {"killed", "encrypt", "bus"}
    /\ "crash" \in Faults => "key" \in Faults   \* a crash may tear the key file

\* An RSA key, named by the process that generated it: 0 the first, 1 the one
\* after the first crash.
Keys == 0 .. MaxCrashes

VARIABLES
    pam,         \* client -> the hook its application is in, and the user
    key_file,    \* contents of the key file
    key_pc,      \* where the key task stands in read_file_or_create_default
    key,         \* the key the key task has generated or read
    served,      \* history: keys of the preludes handed out
    strays       \* history: users for whom a close was sent after a failed open

login == <<pam, served, strays>>
keyfile == <<key_file, key_pc, key>>
pamvars == <<vars, login, keyfile>>

\* "in": the service has granted the open, whether or not the application has
\* been told; "failed": sm_open_session has reported an error; "stray": the close
\* after that waits; "dead": killed, or gone without waiting for an answer or
\* without having closed.
Phases == {"out", "authenticated", "setcred", "initiate", "open", "in", "close",
           "failed", "stray", "dead"}

PamInit ==
    /\ Init
    /\ pam = [c \in Clients |-> [at |-> "out", user |-> None]]
    /\ key_file = Missing /\ key_pc = "exists" /\ key = None
    /\ served = {} /\ strays = {}

-----------------------------------------------------------------------------
(* The hooks. Each waits in its phase for the answer to the call it made.  *)

Goes(c, from, to) ==
    /\ pam[c].at = from
    /\ pam' = [pam EXCEPT ![c].at = to]
    /\ UNCHANGED <<served, strays, keyfile>>

Answered(c, from) == pam[c].at = from /\ calls[c] = NoCall

\* sm_authenticate succeeds and leaves the main password in the handle. Which
\* passwords do is the subject of UserAuth.
sm_authenticate(c, u) ==
    /\ pam[c].at = "out"
    /\ pam' = [pam EXCEPT ![c] = [at |-> "authenticated", user |-> u]]
    /\ UNCHANGED <<vars, served, strays, keyfile>>

sm_setcred(c) ==
    /\ Goes(c, "authenticated", "setcred")
    /\ CallEnabled(c, pam[c].user)

SetcredAnswered(c) ==
    /\ Answered(c, "setcred")
    /\ Goes(c, "setcred", IF replies[c] = "Ok" THEN "authenticated" ELSE "out")
    /\ UNCHANGED vars

\* sm_open_session finds the main password in the handle and asks for a prelude.
sm_open_session(c) ==
    /\ Goes(c, "authenticated", "initiate")
    /\ CallInitiate(c)

\* Mutant: the prelude is not checked.
PreludeReceivedAny(c) ==
    /\ Answered(c, "initiate")
    /\ Goes(c, "initiate", "open")
    /\ CallOpen(c, pam[c].user, replies[c])

\* It encrypts the password and the token of the prelude and sends them.
PreludeReceived(c) ==
    /\ Answered(c, "initiate")
    /\ replies[c] \in Tokens
    /\ Goes(c, "initiate", "open")
    /\ CallOpen(c, pam[c].user, replies[c])

\* A bus error, the empty string, or a password that cannot be encrypted.
NoPrelude(c) ==
    /\ Answered(c, "initiate")
    /\ replies[c] \notin Tokens \/ PamFaults \cap {"encrypt", "bus"} # {}
    /\ Goes(c, "initiate", "failed")
    /\ UNCHANGED vars

\* Mutant: the answer of the service is not looked at.
OpenAnsweredAny(c) ==
    /\ Answered(c, "open")
    /\ Goes(c, "open", "in")
    /\ UNCHANGED vars

OpenAnswered(c) ==
    /\ Answered(c, "open")
    /\ Goes(c, "open", IF replies[c] = "Ok" THEN "in" ELSE "failed")
    /\ UNCHANGED vars

sm_close_session(c) ==
    /\ Goes(c, "in", "close")
    /\ CallClose(c, pam[c].user)

\* sm_close_session does not know whether sm_open_session succeeded.
CloseAfterFailedOpen(c) ==
    /\ pam[c].at = "failed"
    /\ pam' = [pam EXCEPT ![c].at = "stray"]
    /\ strays' = strays \cup {pam[c].user}
    /\ CallClose(c, pam[c].user)
    /\ UNCHANGED <<served, keyfile>>

\* The application ends, whatever sm_close_session reports.
CloseAnswered(c) ==
    /\ Answered(c, pam[c].at)
    /\ \/ Goes(c, "close", "out")
       \/ Goes(c, "stray", "out")
    /\ UNCHANGED vars

EndAfterFailedOpen(c) == Goes(c, "failed", "out") /\ UNCHANGED vars

\* get_user, Connection::session or SessionsProxy::new fails: the hook reports an
\* error and has sent nothing.
NotSent(c) ==
    /\ "bus" \in PamFaults
    /\ \/ Goes(c, "authenticated", "out")      \* sm_setcred
       \/ Goes(c, "authenticated", "failed")   \* sm_open_session
       \/ Goes(c, "in", "dead")                \* sm_close_session
    /\ UNCHANGED vars

\* The connection breaks while the hook waits; nobody will see the answer.
Disconnected(c) ==
    /\ "bus" \in PamFaults
    /\ pam[c].at # "dead" /\ calls[c] # NoCall
    /\ Goes(c, pam[c].at, "dead")
    /\ UNCHANGED vars

\* The application is killed. Its handle and its answers are gone; one that has
\* nothing at the service is as if it had not begun.
Killed(c) ==
    /\ "killed" \in PamFaults
    /\ pam[c].at \notin {"out", "dead"}
    /\ Goes(c, pam[c].at,
            IF pam[c].at \in {"authenticated", "failed"} THEN "out" ELSE "dead")
    /\ UNCHANGED vars

\* What a hook does once it has been answered.
Hook(c) ==
    \/ SetcredAnswered(c) \/ PreludeReceived(c) \/ NoPrelude(c)
    \/ OpenAnswered(c) \/ CloseAnswered(c)

Application(c) ==
    \/ \E u \in Users : sm_authenticate(c, u)
    \/ sm_setcred(c) \/ sm_open_session(c) \/ sm_close_session(c)
    \/ CloseAfterFailedOpen(c) \/ EndAfterFailedOpen(c)
    \/ Hook(c)
    \/ NotSent(c) \/ Disconnected(c) \/ Killed(c)

-----------------------------------------------------------------------------
(* The key task of Sessions::new: read_file_or_create_default, and the     *)
(* parsing of what it returns.                                             *)

KeyAt(pc) == service = "Up" /\ key_task = "Running" /\ key_pc = pc

KeyEnds(result) == KeyTaskEnds /\ key_task' = result

\* Mutant: a key is generated without looking for the file.
KeyExistsIgnored ==
    /\ KeyAt("exists")
    /\ key_pc' = "create"
    /\ UNCHANGED <<vars, login, key_file, key>>

KeyExists ==
    /\ KeyAt("exists")
    /\ key_pc' = IF key_file = Missing THEN "create" ELSE "read"
    /\ UNCHANGED <<vars, login, key_file, key>>

\* A file that is torn does not parse.
KeyRead ==
    /\ KeyAt("read")
    /\ key_file \in Keys
    /\ key' = key_file
    /\ KeyEnds("Ok")
    /\ UNCHANGED <<login, key_file, key_pc>>

KeyUnreadable ==
    /\ KeyAt("read")
    /\ KeyEnds("Err")
    /\ UNCHANGED <<login, keyfile>>

\* A key is generated; File::create leaves an empty file.
KeyCreate ==
    /\ KeyAt("create")
    /\ key' = crashes
    /\ key_file' = Torn
    /\ key_pc' = "write"
    /\ UNCHANGED <<vars, login>>

KeyWrite ==
    /\ KeyAt("write")
    /\ key_file' = key
    /\ KeyEnds("Ok")
    /\ UNCHANGED <<login, key_pc, key>>

\* Creating the file, its permissions or writing it fails.
KeyWriteFails ==
    /\ KeyAt("create") \/ KeyAt("write")
    /\ KeyEnds("Err")
    /\ UNCHANGED <<login, keyfile>>

KeyTask ==
    \/ KeyExists \/ KeyRead \/ KeyUnreadable
    \/ KeyCreate \/ KeyWrite \/ KeyWriteFails

-----------------------------------------------------------------------------
(* The service, as in Sessions.                                            *)

HandleCall(c) == Handle(c) /\ UNCHANGED <<login, keyfile>>

\* Handing out a prelude is the only step that shows the key.
ResumeHandler ==
    /\ Resume
    /\ served' = IF issued' # issued THEN served \cup {key} ELSE served
    /\ UNCHANGED <<pam, strays, keyfile>>

LoseCall(c) == CallLost(c) /\ UNCHANGED <<login, keyfile>>

StopService == (Crash \/ Sigterm) /\ UNCHANGED <<login, keyfile>>

\* The service starts again, with a new key task.
StartService ==
    /\ Start
    /\ key_pc' = "exists"
    /\ UNCHANGED <<login, key_file, key>>

Administration ==
    /\ \/ \E u \in Users, m \in Configs \cup {None, Unreadable} : ChangeConfig(u, m)
       \/ \E u \in Users, digest \in Digests : Authorize(u, digest)
    /\ UNCHANGED <<login, keyfile>>

PamNext ==
    \/ \E c \in Clients : Application(c) \/ HandleCall(c) \/ LoseCall(c)
    \/ ResumeHandler
    \/ KeyTask
    \/ StopService \/ StartService
    \/ Administration

PamSpec == PamInit /\ [][PamNext]_pamvars

\* The executor runs a handler that can go on and the key task, systemd restarts
\* the service, a hook that has its answer goes on, and the object's lock, a
\* queue, reaches every waiting call.
PamFairness ==
    /\ WF_pamvars(KeyTask)
    /\ WF_pamvars(ResumeHandler)
    /\ WF_pamvars(StartService)
    /\ \A c \in Clients :
          WF_pamvars(Hook(c)) /\ SF_pamvars(HandleCall(c)) /\ WF_pamvars(LoseCall(c))

FairPamSpec == PamSpec /\ PamFairness

-----------------------------------------------------------------------------
(* Properties.                                                             *)

\* Every variable keeps its type.
PamTypeOK ==
    /\ TypeOK
    /\ pam \in [Clients -> [at : Phases, user : Users \cup {None}]]
    /\ key_file \in Keys \cup {Missing, Torn}
    /\ key_pc \in {"exists", "read", "create", "write"}
    /\ key \in Keys \cup {None}
    /\ served \subseteq Keys
    /\ strays \subseteq Users

\* The logins of u whose open the service has granted and whose close it has
\* not served.
Logins(u) ==
    {c \in Clients :
        /\ pam[c].user = u
        /\ \/ pam[c].at = "in"
           \/ pam[c].at = "open" /\ calls[c] = NoCall /\ replies[c] = "Ok"
           \/ pam[c].at = "close" /\ calls[c] # NoCall}

DeadLogins(u) == {c \in Clients : pam[c].user = u /\ pam[c].at = "dead"}

\* lib.rs:144, 155 with session.rs:194, 308: a session never counts more than the
\* user's logins and the applications that went without their close being served,
\* also when logins from before a restart, which the new process has not counted,
\* close after it; as long as the service has not been restarted and no login of
\* the user has closed after a failed open, it counts every login.
LoginsCounted ==
    \A u \in Users :
        /\ Count(u) <= Cardinality(Logins(u)) + Cardinality(DeadLogins(u))
        /\ crashes = 0 /\ u \notin strays => Cardinality(Logins(u)) <= Count(u)

\* session.rs:271, 311: under the same conditions a login that is in has its user's
\* run-time directory mounted. When no login is left, none has gone without its
\* close and no hook that opens or closes is at work, this process of the service
\* has nothing mounted but where an unmount has failed, whatever logins earlier
\* processes had counted.
MountsFollowLogins ==
    /\ crashes = 0 => \A c \in Clients :
          pam[c].at = "in" /\ pam[c].user \notin strays =>
              pam[c].user \in Range(mtab[XdgPath[pam[c].user]])
    /\ (\A c \in Clients : pam[c].at \in {"out", "authenticated", "setcred", "failed"}) =>
          \A t \in Targets :
              /\ Cardinality({i \in DOMAIN mtab[t] : mtab[t][i] # Leftover}) = stuck[t]
              /\ crashes = 0 => Leftover \notin Range(mtab[t])

\* disk.rs:42: the key outlives the process: every prelude, of this and of
\* earlier processes, was made with one key, so that restarting never turns a
\* password under way into one that does not decrypt.
OneKey == Cardinality(served) <= 1

\* A hook is waiting for the service.
Waiting(c) == pam[c].at \in {"setcred", "initiate", "open", "close", "stray"}

\* lib.rs:328, 220, 423: block_on has no timeout, so every hook must be answered,
\* also when the service is stopped and restarted under it.
HooksReturn == \A c \in Clients : []<>~ Waiting(c)

\* The same where the service can load its key, at least from some time on: a
\* call whose handler has panicked before is given up when that process ends.
HooksReturnGivenKey == <>[](key_task # "Err") => HooksReturn
============================================================================
