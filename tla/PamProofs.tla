----------------------------- MODULE PamProofs -----------------------------
(***************************************************************************)
(* Proofs about PamSessions: logins through the PAM module are a special   *)
(* case of the clients of Sessions, so that what is proved of the service  *)
(* holds for them; the service never hands out a second key; a session     *)
(* counts no more than the logins of its user and the applications that    *)
(* went without their close being served, and in the first process, as     *)
(* long as no login closes after a failed open, every login; and what is   *)
(* mounted follows the logins.                                             *)
(***************************************************************************)
EXTENDS PamSessions, MountProofs

\* Every handle in a hook that calls the service names an account, a token a
\* client has been told has been issued, and a close after a failed open is
\* remembered.
LoginInv ==
    /\ pam \in [Clients -> [at : Phases, user : Users \cup {None}]]
    /\ \A c \in Clients : pam[c].at \notin {"out", "dead"} => pam[c].user \in Users
    /\ \A c \in Clients : replies[c] \in Tokens => replies[c] \in issued
    /\ strays \subseteq Users
    /\ \A c \in Clients : pam[c].at = "stray" => pam[c].user \in strays

\* What the steps of the key task have established. A key in use is in the file;
\* a file that is missing or torn has never been served from.
KeyInv ==
    /\ key_file \in Keys \cup {Missing, Torn}
    /\ key_pc \in {"exists", "read", "create", "write"}
    /\ key \in Keys \cup {None}
    /\ crashes <= MaxCrashes
    /\ key_task = "Ok" \/ priv_key = "Ready" => key \in Keys /\ key_file = key
    /\ \A k \in served : k \in Keys /\ k = key_file
    /\ key_task = "Running" /\ key_pc = "create" => key_file = Missing
    /\ key_task = "Running" /\ key_pc = "write" => key_file = Torn /\ key \in Keys

\* The inductive invariant.
PInv == IInv /\ LoginInv /\ KeyInv

-----------------------------------------------------------------------------
(* Every step is a step of Sessions.                                       *)

\* The key task, the service and its surroundings take the steps they take there.
LEMMA ServiceStep ==
    ASSUME PamNext, \A c \in Clients : ~ Application(c)
    PROVE  [Next]_vars
<1>1. ASSUME NEW c \in Clients, HandleCall(c) \/ LoseCall(c) PROVE Next
  BY <1>1 DEF HandleCall, LoseCall, Next
<1>2. CASE ResumeHandler
  BY <1>2 DEF ResumeHandler, Next
<1>3. CASE KeyTask
  <2>1. UNCHANGED vars \/ KeyTaskEnds
    BY <1>3
       DEF KeyTask, KeyExists, KeyRead, KeyUnreadable, KeyCreate, KeyWrite,
           KeyWriteFails, KeyEnds
  <2>2. QED
    BY <2>1 DEF Next, Surroundings
<1>4. CASE StopService \/ StartService \/ Administration
  BY <1>4 DEF StopService, StartService, Administration, Next, Surroundings
<1>5. QED
  BY <1>1, <1>2, <1>3, <1>4 DEF PamNext

\* A hook of lib.rs calls as a client of the service may, with a token that has
\* been issued, or leaves the service alone.
LEMMA ApplicationStep ==
    ASSUME LoginInv, NEW c \in Clients, Application(c)
    PROVE  ClientStep(c) \/ UNCHANGED vars
<1>1. Users \subseteq Names
  BY SessionsAssumption
<1>2. CASE sm_setcred(c)
  <2>1. pam[c].user \in Names /\ CallEnabled(c, pam[c].user)
    BY <1>1, <1>2 DEF sm_setcred, Goes, LoginInv
  <2>2. QED
    BY <2>1 DEF ClientStep
<1>3. CASE sm_open_session(c)
  BY <1>3 DEF sm_open_session, ClientStep
<1>4. CASE sm_close_session(c)
  <2>1. pam[c].user \in Names /\ CallClose(c, pam[c].user)
    BY <1>1, <1>4 DEF sm_close_session, Goes, LoginInv
  <2>2. QED
    BY <2>1 DEF ClientStep
<1>9. CASE CloseAfterFailedOpen(c)
  <2>1. pam[c].user \in Names /\ CallClose(c, pam[c].user)
    BY <1>1, <1>9 DEF CloseAfterFailedOpen, LoginInv
  <2>2. QED
    BY <2>1 DEF ClientStep
<1>5. CASE PreludeReceived(c)
  <2>1. pam[c].user \in Names /\ replies[c] \in issued
    BY <1>1, <1>5 DEF PreludeReceived, Goes, LoginInv
  <2>2. CallOpen(c, pam[c].user, replies[c])
    BY <1>5 DEF PreludeReceived
  <2>3. QED
    BY <2>1, <2>2 DEF ClientStep
<1>6. ASSUME NEW u \in Users, sm_authenticate(c, u) PROVE UNCHANGED vars
  BY <1>6 DEF sm_authenticate
<1>7. CASE SetcredAnswered(c) \/ NoPrelude(c) \/ OpenAnswered(c)
              \/ CloseAnswered(c) \/ EndAfterFailedOpen(c) \/ NotSent(c)
              \/ Disconnected(c) \/ Killed(c)
  BY <1>7
     DEF SetcredAnswered, NoPrelude, OpenAnswered, CloseAnswered,
         EndAfterFailedOpen, NotSent, Disconnected, Killed
<1>8. QED
  BY <1>2, <1>3, <1>4, <1>5, <1>6, <1>7, <1>9 DEF Application, Hook

\* Both together.
LEMMA StepRefines ==
    ASSUME LoginInv, [PamNext]_pamvars
    PROVE  [Next]_vars
<1>1. CASE UNCHANGED pamvars
  BY <1>1 DEF pamvars
<1>2. QED
  BY <1>1, ServiceStep, ApplicationStep DEF Next

-----------------------------------------------------------------------------
(* LoginInv.                                                               *)

\* Tokens are never withdrawn, and an answer is a result or an issued token.
LEMMA RepliesStep ==
    ASSUME IInv, [Next]_vars, NEW d \in Clients
    PROVE  /\ issued \subseteq issued'
           /\ \/ replies'[d] = replies[d]
              \/ replies'[d] \in Results \cup {NoReply}
              \/ replies'[d] \in issued'
<1> USE DEF Results
<1>1. replies \in [Clients -> Results \cup Tokens \cup {NoReply}]
  BY DEF IInv, TypeOK
<1>2. ASSUME NEW c, NEW r \in Results, Answer(c, r)
      PROVE  replies'[d] = replies[d] \/ replies'[d] \in Results
  BY <1>1, <1>2 DEF Answer
<1>3. ASSUME NEW c \in Clients, ClientStep(c)
      PROVE  /\ issued' = issued
             /\ replies'[d] \in {replies[d], NoReply}
  BY <1>1, <1>3
     DEF ClientStep, CallInitiate, CallOpen, CallClose, CallEnabled, Call, tokens
<1>4. ASSUME NEW c \in Clients, Handle(c) \/ CallLost(c)
      PROVE  /\ issued' = issued
             /\ UNCHANGED replies \/ \E r \in Results : Answer(c, r)
  BY <1>4
     DEF Handle, InitiateSession, OpenUnknownUser, OpenAgain, OpenFirst,
         CloseNone, CloseOne, CloseLast, IsUserPolyauthEnabled, CallLost, tokens,
         clients
<1>5. ASSUME NEW t \in Tokens \ issued, InitiateToken(t)
      PROVE  /\ issued \subseteq issued'
             /\ replies'[d] = replies[d] \/ replies'[d] \in issued'
  BY <1>1, <1>5 DEF InitiateToken, Return, Answer
<1>6. ASSUME Resume
      PROVE  \/ /\ issued' = issued
                /\ UNCHANGED replies \/ \E c : \E r \in Results : Answer(c, r)
             \/ \E t \in Tokens \ issued : InitiateToken(t)
  <2>1. CASE InitiateEmpty \/ OpenNoKey \/ OpenBadOtp \/ OpenRefused \/ MountFails
    BY <2>1
       DEF InitiateEmpty, OpenNoKey, OpenBadOtp, OpenRefused, MountFails, Return,
           tokens
  <2>2. CASE OpenBadConfig \/ MountLast
    BY <2>2 DEF OpenBadConfig, MountLast, MountOne, UseToken, Return, tokens
  <2>3. CASE FetchPanic \/ OpenNoMounts \/ OpenLoad \/ OpenAuthorized \/ MountNext
    BY <2>3
       DEF FetchPanic, OpenNoMounts, OpenLoad, OpenAuthorized, MountNext,
           MountOne, UseToken, tokens, clients
  <2>4. QED
    BY <1>6, <2>1, <2>2, <2>3 DEF Resume
<1>7. ASSUME Surroundings PROVE UNCHANGED <<issued, replies>>
  BY <1>7
     DEF Surroundings, KeyTaskEnds, ChangeConfig, Authorize, Crash, Sigterm,
         Stop, Start, tokens, clients
<1>8. CASE UNCHANGED vars
  BY <1>8 DEF vars
<1> HIDE DEF Results
<1>9. QED
  BY <1>2, <1>3, <1>4, <1>5, <1>6, <1>7, <1>8 DEF Next

\* LoginInv is inductive.
LEMMA LoginStep ==
    ASSUME IInv, LoginInv, [PamNext]_pamvars
    PROVE  LoginInv'
<1>1. \A c \in Clients : replies'[c] \in Tokens => replies'[c] \in issued'
  BY StepRefines, RepliesStep, SessionsAssumption DEF LoginInv
<1>2. ASSUME NEW c \in Clients, Application(c)
      PROVE  /\ strays' = IF pam'[c].at = "stray" THEN strays \cup {pam[c].user}
                          ELSE strays
             /\ \/ \E at \in Phases :
                      /\ pam' = [pam EXCEPT ![c].at = at]
                      /\ at \in {"out", "dead"} \/ pam[c].at # "out"
                      /\ at = "dead" \/ pam[c].at # "dead"
                \/ \E u \in Users :
                      pam' = [pam EXCEPT ![c] = [at |-> "authenticated", user |-> u]]
  <2>1. ASSUME NEW from, NEW to, Goes(c, from, to)
        PROVE  /\ pam[c].at = from /\ pam'[c].at = to /\ strays' = strays
               /\ pam' = [pam EXCEPT ![c].at = to]
    BY <2>1 DEF Goes, LoginInv
  <2>2. CASE \E u \in Users : sm_authenticate(c, u)
    <3>1. PICK u \in Users :
             pam' = [pam EXCEPT ![c] = [at |-> "authenticated", user |-> u]]
      BY <2>2 DEF sm_authenticate
    <3>2. pam'[c].at = "authenticated" /\ strays' = strays
      BY <2>2, <3>1 DEF sm_authenticate, LoginInv
    <3>3. QED
      BY <3>1, <3>2
  <2>3. CASE CloseAfterFailedOpen(c)
    <3>1. /\ pam[c].at = "failed" /\ pam' = [pam EXCEPT ![c].at = "stray"]
          /\ strays' = strays \cup {pam[c].user}
      BY <2>3 DEF CloseAfterFailedOpen
    <3>2. pam'[c].at = "stray" /\ "stray" \in Phases
      BY <3>1 DEF LoginInv, Phases
    <3>3. QED
      BY <3>1, <3>2
  <2>4. CASE Disconnected(c) \/ Killed(c)
    <3>1. \/ Goes(c, pam[c].at, "dead")
          \/ pam[c].at \notin {"out", "dead"} /\ Goes(c, pam[c].at, "out")
      BY <2>4 DEF Disconnected, Killed
    <3>2. QED
      BY <2>1, <3>1 DEF Phases
  <2>5. CASE /\ ~ \E u \in Users : sm_authenticate(c, u)
             /\ ~ (CloseAfterFailedOpen(c) \/ Disconnected(c) \/ Killed(c))
    <3>1. \E from \in Phases \ {"out", "dead"}, to \in Phases \ {"stray"} :
             Goes(c, from, to)
      BY <1>2, <2>5
         DEF Application, Hook, sm_setcred, SetcredAnswered, sm_open_session,
             PreludeReceived, NoPrelude, OpenAnswered, sm_close_session,
             CloseAnswered, EndAfterFailedOpen, NotSent, Phases
    <3>2. QED
      BY <2>1, <3>1
  <2>6. QED
    BY <2>2, <2>3, <2>4, <2>5
<1>3. ASSUME NEW c \in Clients, Application(c)
      PROVE  /\ pam' \in [Clients -> [at : Phases, user : Users \cup {None}]]
             /\ \A d \in Clients :
                   pam'[d].at \notin {"out", "dead"} => pam'[d].user \in Users
             /\ strays' \subseteq Users
             /\ \A d \in Clients : pam'[d].at = "stray" => pam'[d].user \in strays'
  <2>1. /\ pam' \in [Clients -> [at : Phases, user : Users \cup {None}]]
        /\ \A d \in Clients :
              pam'[d].at \notin {"out", "dead"} => pam'[d].user \in Users
    BY <1>2, <1>3 DEF LoginInv, Phases
  <2>2. \A d \in Clients : d # c => pam'[d] = pam[d]
    BY <1>2, <1>3 DEF LoginInv
  <2>3. pam'[c].at = "stray" => pam'[c].user = pam[c].user
    BY <1>2, <1>3 DEF LoginInv
  <2>4. QED
    BY <1>2, <1>3, <2>1, <2>2, <2>3 DEF LoginInv
<1>4. ASSUME \A c \in Clients : ~ Application(c) PROVE UNCHANGED <<pam, strays>>
  BY <1>4
     DEF PamNext, pamvars, login, HandleCall, LoseCall, ResumeHandler, KeyTask,
         KeyExists, KeyRead, KeyUnreadable, KeyCreate, KeyWrite, KeyWriteFails,
         StopService, StartService, Administration
<1>5. QED
  BY <1>1, <1>3, <1>4 DEF LoginInv

-----------------------------------------------------------------------------
(* KeyInv.                                                                 *)

\* The steps that are not about the key task.
OtherStep ==
    \/ \E c \in Clients : ClientStep(c) \/ Handle(c) \/ CallLost(c)
    \/ Resume
    \/ \E u \in Users, m \in Configs \cup {None, Unreadable} : ChangeConfig(u, m)
    \/ \E u \in Users, digest \in Digests : Authorize(u, digest)
    \/ Crash \/ Sigterm
    \/ UNCHANGED vars

\* What the handlers and the surroundings do with the key (session.rs:109): a
\* fetch makes it Ready only if the task has loaded it, and no token is issued
\* without a fetch.
LEMMA FetchStep ==
    ASSUME OtherStep
    PROVE  /\ key_task' = key_task
           /\ priv_key' = "Ready" => priv_key = "Ready" \/ key_task = "Ok"
           /\ issued' # issued => priv_key = "Ready" \/ key_task = "Ok"
           /\ crashes' = crashes \/ (crashes < MaxCrashes /\ crashes' = crashes + 1)
<1>1. ASSUME NEW c \in Clients, ClientStep(c) \/ Handle(c) \/ CallLost(c)
      PROVE  UNCHANGED <<key_task, priv_key, issued, crashes>>
  BY <1>1
     DEF ClientStep, CallInitiate, CallOpen, CallClose, CallEnabled, Call, Handle,
         InitiateSession, OpenUnknownUser, OpenAgain, OpenFirst, CloseNone,
         CloseOne, CloseLast, IsUserPolyauthEnabled, CallLost, tokens, outside,
         object
<1>2. ASSUME Resume
      PROVE  /\ UNCHANGED <<key_task, crashes>>
             /\ priv_key' = "Ready" => priv_key = "Ready" \/ key_task = "Ok"
             /\ issued' # issued => priv_key = "Ready" \/ key_task = "Ok"
  <2>1. UNCHANGED <<key_task, crashes>>
    BY <1>2
       DEF Resume, InitiateToken, InitiateEmpty, FetchPanic, OpenNoKey,
           OpenBadOtp, OpenBadConfig, OpenNoMounts, OpenLoad, OpenAuthorized,
           OpenRefused, MountNext, MountLast, MountFails, MountOne, outside
  <2>2. FetchOk \/ FetchErr \/ UNCHANGED <<priv_key, issued>>
    BY <1>2
       DEF Resume, InitiateToken, InitiateEmpty, FetchPanic, OpenNoKey,
           OpenBadOtp, OpenBadConfig, OpenNoMounts, OpenLoad, OpenAuthorized,
           OpenRefused, MountNext, MountLast, MountFails, MountOne, tokens
  <2>3. FetchErr => priv_key' # "Ready"
    BY DEF FetchErr
  <2>4. FetchErr => issued' = issued \/ FetchOk
    BY <1>2
       DEF Resume, InitiateToken, InitiateEmpty, FetchPanic, OpenNoKey,
           OpenBadOtp, OpenBadConfig, OpenNoMounts, OpenLoad, OpenAuthorized,
           OpenRefused, MountNext, MountLast, MountFails, MountOne, tokens
  <2>5. QED
    BY <2>1, <2>2, <2>3, <2>4 DEF FetchOk
<1>3. CASE \/ \E u \in Users, m \in Configs \cup {None, Unreadable} : ChangeConfig(u, m)
           \/ \E u \in Users, digest \in Digests : Authorize(u, digest)
           \/ UNCHANGED vars
  BY <1>3 DEF ChangeConfig, Authorize, tokens, object, vars
<1>4. CASE Crash \/ Sigterm
  BY <1>4 DEF Crash, Sigterm, Stop
<1>5. QED
  BY <1>1, <1>2, <1>3, <1>4 DEF OtherStep

\* KeyInv is inductive: disk.rs:42 writes a key only where there was no file.
LEMMA KeyStep ==
    ASSUME IInv, LoginInv, KeyInv, [PamNext]_pamvars
    PROVE  KeyInv'
<1>1. /\ MaxCrashes \in Nat /\ crashes \in Nat
      /\ Missing \notin Keys /\ Torn \notin Keys /\ Missing # Torn
  BY SessionsAssumption, PamAssumption DEF IInv, TypeOK, Keys
<1>2. CASE KeyTask
  <2>1. CASE KeyExists
    <3>1. UNCHANGED <<key_file, key, served, key_task, priv_key, crashes>>
      BY <2>1 DEF KeyExists, vars, login
    <3>2. /\ key_task = "Running"
          /\ key_pc' = IF key_file = Missing THEN "create" ELSE "read"
      BY <2>1 DEF KeyExists, KeyAt
    <3>3. QED
      BY <3>1, <3>2 DEF KeyInv, Keys
  <2>2. CASE KeyCreate
    <3>1. /\ UNCHANGED <<served, key_task, priv_key, crashes>>
          /\ key' = crashes /\ key_file' = Torn /\ key_pc' = "write"
          /\ key_task = "Running" /\ key_pc = "create"
      BY <2>2 DEF KeyCreate, KeyAt, vars, login
    <3>2. key_file = Missing /\ served = {} /\ priv_key # "Ready"
      BY <1>1, <3>1 DEF KeyInv
    <3>3. key' \in Keys
      BY <1>1, <3>1 DEF KeyInv, Keys
    <3>4. QED
      BY <1>1, <3>1, <3>2, <3>3 DEF KeyInv, Keys
  <2>3. CASE KeyRead
    <3>1. /\ UNCHANGED <<served, priv_key, crashes, key_file, key_pc>>
          /\ key_task' = "Ok" /\ key' = key_file /\ key_file \in Keys
      BY <2>3 DEF KeyRead, KeyEnds, KeyTaskEnds, object, login
    <3>2. QED
      BY <3>1 DEF KeyInv, Keys
  <2>4. CASE KeyWrite
    <3>1. /\ UNCHANGED <<served, priv_key, crashes, key, key_pc>>
          /\ key_task' = "Ok" /\ key_file' = key
          /\ key_task = "Running" /\ key_pc = "write"
      BY <2>4 DEF KeyWrite, KeyAt, KeyEnds, KeyTaskEnds, object, login
    <3>2. key \in Keys /\ served = {}
      BY <1>1, <3>1 DEF KeyInv
    <3>3. QED
      BY <3>1, <3>2 DEF KeyInv, Keys
  <2>5. CASE KeyUnreadable \/ KeyWriteFails
    <3>1. /\ UNCHANGED <<served, priv_key, crashes, key, key_file, key_pc>>
          /\ key_task' = "Err"
      BY <2>5
         DEF KeyUnreadable, KeyWriteFails, KeyEnds, KeyTaskEnds, object, login,
             keyfile
    <3>2. QED
      BY <3>1 DEF KeyInv, Keys
  <2>6. QED
    BY <1>2, <2>1, <2>2, <2>3, <2>4, <2>5 DEF KeyTask
<1>3. CASE StartService
  <2>1. /\ UNCHANGED <<served, crashes, key, key_file>>
        /\ key_task' = "Running" /\ priv_key' = "InProgress" /\ key_pc' = "exists"
    BY <1>3 DEF StartService, Start, login
  <2>2. QED
    BY <2>1 DEF KeyInv, Keys
<1>4. CASE ~ KeyTask /\ ~ StartService
  <2>1. /\ OtherStep
        /\ UNCHANGED <<key, key_file, key_pc>>
        /\ served' = served \/ (served' = served \cup {key} /\ issued' # issued)
    <3>1. ASSUME NEW c \in Clients, Application(c)
          PROVE  OtherStep /\ UNCHANGED <<served, keyfile>>
      <4>1. OtherStep
        BY <3>1, ApplicationStep DEF OtherStep
      <4>2. UNCHANGED <<served, keyfile>>
        BY <3>1
           DEF Application, Hook, sm_authenticate, sm_setcred, SetcredAnswered,
               sm_open_session, PreludeReceived, NoPrelude, OpenAnswered,
               sm_close_session, CloseAfterFailedOpen, EndAfterFailedOpen,
               CloseAnswered, NotSent, Disconnected, Killed, Goes
      <4>3. QED
        BY <4>1, <4>2
    <3>2. ASSUME NEW c \in Clients, HandleCall(c) \/ LoseCall(c)
          PROVE  OtherStep /\ UNCHANGED <<served, keyfile>>
      BY <3>2 DEF HandleCall, LoseCall, OtherStep, login
    <3>3. CASE ResumeHandler
      BY <3>3 DEF ResumeHandler, OtherStep, keyfile
    <3>4. CASE StopService \/ Administration
      BY <3>4 DEF StopService, Administration, OtherStep, login, keyfile
    <3>5. CASE UNCHANGED pamvars
      BY <3>5 DEF pamvars, OtherStep, login, keyfile
    <3>6. QED
      BY <1>4, <3>1, <3>2, <3>3, <3>4, <3>5 DEF PamNext, keyfile
  <2>2. /\ key_task' = key_task
        /\ priv_key' = "Ready" => priv_key = "Ready" \/ key_task = "Ok"
        /\ issued' # issued => priv_key = "Ready" \/ key_task = "Ok"
    BY <2>1, FetchStep
  <2>3. crashes' <= MaxCrashes
    BY <1>1, <2>1, FetchStep DEF KeyInv
  <2>4. served' # served => key \in Keys /\ key_file = key
    BY <2>1, <2>2 DEF KeyInv
  <2>5. QED
    BY <2>1, <2>2, <2>3, <2>4 DEF KeyInv, Keys
<1>5. QED
  BY <1>2, <1>3, <1>4

-----------------------------------------------------------------------------
(* The theorems.                                                           *)

\* The inductive invariant holds in every behaviour.
LEMMA PInvariance == PamSpec => []PInv
<1>1. PamInit => PInv
  <2>1. ASSUME PamInit PROVE IInv
    BY <2>1, InitIInv DEF PamInit
  <2>2. ASSUME PamInit PROVE LoginInv
    BY <2>2, SessionsAssumption DEF PamInit, Init, LoginInv, Phases
  <2>3. ASSUME PamInit PROVE KeyInv
    BY <2>3, SessionsAssumption DEF PamInit, Init, KeyInv, Keys
  <2>4. QED
    BY <2>1, <2>2, <2>3 DEF PInv
<1>2. PInv /\ [PamNext]_pamvars => PInv'
  BY StepRefines, IInvStep, LoginStep, KeyStep DEF PInv
<1>3. QED
  BY <1>1, <1>2, PTL DEF PamSpec

\* lib.rs:120-166: logins through the PAM module, with the key task step by step,
\* are behaviours of Sessions.
THEOREM PamImplementsSessions == PamSpec => Spec
<1>1. PamInit => Init
  BY DEF PamInit
<1>2. PInv /\ [PamNext]_pamvars => [Next]_vars
  BY StepRefines DEF PInv
<1>3. QED
  BY <1>1, <1>2, PInvariance, PTL DEF PamSpec, Spec

\* Hence a login mounts what was authorized and nothing else (session.rs:243).
THEOREM LoginMountsAuthorized == PamSpec => []AuthorizedMountsOnly
  BY PamImplementsSessions, MountsAuthorized, PTL

\* disk.rs:42: all preludes, of this and of earlier processes, show one key.
THEOREM KeyNeverChanges == PamSpec => []OneKey
<1>1. PInv => OneKey
  <2>1. SUFFICES ASSUME PInv PROVE Cardinality(served) <= 1
    BY DEF OneKey
  <2>2. served \subseteq {key_file}
    BY <2>1 DEF PInv, KeyInv
  <2>3. IsFiniteSet({key_file}) /\ Cardinality({key_file}) = 1
    BY FS_Singleton
  <2>4. QED
    BY <2>2, <2>3, FS_Subset
<1>2. QED
  BY <1>1, PInvariance, PTL

\* Every variable keeps its type.
THEOREM PamTypeCorrect == PamSpec => []PamTypeOK
<1>1. PInv => PamTypeOK
  BY DEF PInv, IInv, LoginInv, KeyInv, PamTypeOK
<1>2. QED
  BY <1>1, PInvariance, PTL

-----------------------------------------------------------------------------
(* The count of a session against the logins that go through the PAM       *)
(* module.                                                                 *)


\* What a hook has asked the service while it waits in its phase (lib.rs).
HookCalls(at) ==
    CASE at = "setcred"  -> {"is_user_polyauth_enabled"}
      [] at = "initiate" -> {"initiate_session", "panicked"}
      [] at = "open"     -> {"open_user_session", "panicked"}
      [] at \in {"close", "stray"} -> {"close_user_session"}
      [] at = "dead"     -> {"is_user_polyauth_enabled", "initiate_session",
                             "open_user_session", "close_user_session", "panicked"}
      [] OTHER           -> {}

\* A call that is under way is the one of the hook its application is in, or was
\* in when it went, and is about the user of that login.
CallInv ==
    \A c \in Clients : calls[c] # NoCall =>
        /\ calls[c].op \in HookCalls(pam[c].at)
        /\ calls[c].op \in {"open_user_session", "close_user_session"} =>
              calls[c].user = pam[c].user /\ pam[c].user \in Users

\* The client is a login that the count includes: open has been granted and close
\* has not been served, whether the application is still there or not.
Counted(c) ==
    \/ pam[c].at = "in"
    \/ pam[c].at = "open" /\ calls[c] = NoCall /\ replies[c] = "Ok"
    \/ /\ pam[c].at \in {"close", "dead"}
       /\ calls[c] # NoCall /\ calls[c].op = "close_user_session"

\* An application that is gone and waits for nothing: it may have left a login
\* open, which nobody will close.
Abandoned(c) == pam[c].at = "dead" /\ calls[c] = NoCall

CountedFor(u) == {c \in Clients : pam[c].user = u /\ Counted(c)}
AbandonedFor(u) == {c \in Clients : pam[c].user = u /\ Abandoned(c)}

\* The count of u's session, between what it may include and, in the first process,
\* what it must.
Balanced(u) ==
    /\ Count(u) <= Cardinality(CountedFor(u)) + Cardinality(AbandonedFor(u))
    /\ crashes = 0 /\ u \notin strays => Cardinality(CountedFor(u)) <= Count(u)

\* The counts of the process that runs; one that has stopped counts nobody.
CountInv ==
    /\ service = "Down" => sessions = NoSessions
    /\ \A u \in Users : Balanced(u)

\* As long as the service has not been stopped it is up and all mounts are its own.
FirstRunInv ==
    crashes = 0 =>
        /\ service = "Up"
        /\ \A t \in Targets : \A i \in 1 .. Len(mtab[t]) : mtab[t][i] # Leftover
-----------------------------------------------------------------------------
(* What the steps of the service do to calls and counts.                   *)

\* Answering c concerns no other client.
LEMMA AnswerEffect ==
    ASSUME TypeOK, NEW c \in Clients, NEW r, Answer(c, r)
    PROVE  /\ calls'[c] = NoCall /\ replies'[c] = r
           /\ \A d \in Clients : d # c => calls'[d] = calls[d] /\ replies'[d] = replies[d]
  BY DEF TypeOK, Answer

\* A call is answered without any effect on the sessions: initiate_session,
\* is_user_polyauth_enabled, and an open_user_session that fails.
AnswerOnly(c, r) ==
    /\ Answer(c, r)
    /\ calls[c] \in Calls
    /\ calls[c].op \notin {"close_user_session", "panicked"}
    /\ calls[c].op = "open_user_session" => r # "Ok"
    /\ sessions' = sessions

\* An open_user_session is granted (session.rs:194, 271).
Granted(c) ==
    /\ Answer(c, "Ok")
    /\ calls[c] \in Calls /\ calls[c].op = "open_user_session"
    /\ \A u \in Users : Count(u)' = Count(u) + (IF calls[c].user = u THEN 1 ELSE 0)

\* The handler of a call that needs the key panics (session.rs:113).
Panicked(c) ==
    /\ calls[c] \in Calls /\ calls[c].op \in {"initiate_session", "open_user_session"}
    /\ calls' = [calls EXCEPT ![c] = [op |-> "panicked"]]
    /\ UNCHANGED <<replies, sessions>>

\* The effects a handler of session.rs can have on calls and counts, one by one.
LEMMA HandleEffects ==
    ASSUME IInv, NEW c \in Clients, Handle(c)
    PROVE  \/ UNCHANGED <<clients, sessions>>
           \/ \E r : AnswerOnly(c, r)
           \/ Granted(c)
           \/ CloseNone(c) \/ CloseOne(c) \/ CloseLast(c)
<1>1. TypeOK /\ HandlerInv /\ SessionsCounted
  BY DEF IInv
<1>2. ASSUME NEW op, Dispatch(c, op) PROVE calls[c] \in Calls /\ calls[c].op = op
  BY <1>1, <1>2 DEF Dispatch, Pending, TypeOK
<1>3. CASE InitiateSession(c) \/ OpenFirst(c)
  BY <1>3 DEF InitiateSession, OpenFirst, clients
<1>4. CASE OpenUnknownUser(c)
  <2>1. Dispatch(c, "open_user_session") /\ Answer(c, "CannotIdentifyUser")
        /\ sessions' = sessions
    BY <1>4 DEF OpenUnknownUser
  <2>2. AnswerOnly(c, "CannotIdentifyUser")
    BY <1>2, <2>1 DEF AnswerOnly
  <2>3. QED
    BY <2>2
<1>5. CASE OpenAgain(c)
  <2>1. Dispatch(c, "open_user_session") /\ Answer(c, "Ok")
    BY <1>5 DEF OpenAgain
  <2>2. \A u \in Users : Count(u)' = Count(u) + (IF calls[c].user = u THEN 1 ELSE 0)
    BY <1>1, <1>5, CountChanges
  <2>3. QED
    BY <1>2, <2>1, <2>2 DEF Granted
<1>6. CASE IsUserPolyauthEnabled(c)
  <2>1. /\ Dispatch(c, "is_user_polyauth_enabled")
        /\ \E r : Answer(c, r)
        /\ sessions' = sessions
    BY <1>6 DEF IsUserPolyauthEnabled
  <2>2. QED
    BY <1>2, <2>1 DEF AnswerOnly
<1>7. QED
  BY <1>3, <1>4, <1>5, <1>6 DEF Handle

\* What a step of the handler that is under way means for the clients: it answers
\* one, grants an open, panics, or leaves them alone.
LEMMA ResumeEffects ==
    ASSUME IInv, Resume
    PROVE  \/ UNCHANGED <<clients, sessions>>
           \/ \E c \in Clients : Granted(c) \/ Panicked(c) \/ \E r : AnswerOnly(c, r)
<1> DEFINE c == handler.client
<1>1. TypeOK /\ HandlerInv /\ SessionsCounted
  BY DEF IInv
<1>2. ASSUME handler.step = "initiate_key"
      PROVE  c \in Clients /\ calls[c] \in Calls /\ calls[c].op = "initiate_session"
  BY <1>1, <1>2 DEF HandlerInv
<1>3. ASSUME handler.step \in {"open_key", "open_auth", "open_mount"}
      PROVE  c \in Clients /\ calls[c] \in Calls /\ calls[c].op = "open_user_session"
  BY <1>1, <1>3 DEF HandlerInv
<1>4. CASE InitiateEmpty \/ \E t \in Tokens : InitiateToken(t)
  <2>1. /\ handler.step = "initiate_key" /\ sessions' = sessions
        /\ \E r : Answer(c, r)
    BY <1>4 DEF InitiateEmpty, InitiateToken, Return
  <2>2. QED
    BY <1>2, <2>1 DEF AnswerOnly
<1>5. CASE OpenNoKey \/ OpenBadOtp \/ OpenBadConfig \/ OpenRefused \/ MountFails
  <2>1. /\ handler.step \in {"open_key", "open_auth", "open_mount"}
        /\ sessions' = sessions
        /\ \E r : Answer(c, r) /\ r # "Ok"
    BY <1>5
       DEF OpenNoKey, OpenBadOtp, OpenBadConfig, OpenRefused, MountFails, Return
  <2>2. QED
    BY <1>3, <2>1 DEF AnswerOnly
<1>6. CASE MountLast
  <2>1. handler.step = "open_mount" /\ Answer(c, "Ok")
    BY <1>6 DEF MountLast, MountOne, Return
  <2>2. \A u \in Users : Count(u)' = Count(u) + (IF calls[c].user = u THEN 1 ELSE 0)
    BY <1>1, <1>6, CountChanges DEF User
  <2>3. Granted(c) /\ c \in Clients
    BY <1>3, <2>1, <2>2 DEF Granted
  <2>4. QED
    BY <2>3
<1>7. CASE OpenNoMounts \/ OpenLoad \/ OpenAuthorized \/ MountNext
  BY <1>7 DEF OpenNoMounts, OpenLoad, OpenAuthorized, MountNext, clients
<1>8. CASE FetchPanic
  <2>1. /\ handler.step \in {"initiate_key", "open_key"}
        /\ calls' = [calls EXCEPT ![c] = [op |-> "panicked"]]
        /\ UNCHANGED <<replies, sessions>>
    BY <1>8 DEF FetchPanic
  <2>2. Panicked(c) /\ c \in Clients
    BY <1>2, <1>3, <2>1 DEF Panicked
  <2>3. QED
    BY <2>2
<1>9. QED
  BY <1>4, <1>5, <1>6, <1>7, <1>8 DEF Resume

\* Both, and the rest of the service.
LEMMA ServiceEffects ==
    ASSUME IInv, [PamNext]_pamvars, \A c \in Clients : ~ Application(c)
    PROVE  /\ UNCHANGED <<pam, strays>>
           /\ \/ UNCHANGED <<clients, sessions>>
              \/ \E c \in Clients : \/ \E r : AnswerOnly(c, r)
                                    \/ Granted(c) \/ Panicked(c)
                                    \/ CloseNone(c) \/ CloseOne(c) \/ CloseLast(c)
                                    \/ CallLost(c)
              \/ UNCHANGED clients /\ \E table : Stop(table)
<1>1. ASSUME NEW c \in Clients, HandleCall(c) \/ LoseCall(c)
      PROVE  UNCHANGED <<pam, strays>> /\ (Handle(c) \/ CallLost(c))
  BY <1>1 DEF HandleCall, LoseCall, login
<1>2. CASE ResumeHandler
  <2>1. Resume /\ UNCHANGED <<pam, strays>>
    BY <1>2 DEF ResumeHandler
  <2>2. QED
    BY <2>1, ResumeEffects
<1>3. CASE KeyTask
  BY <1>3
     DEF KeyTask, KeyExists, KeyRead, KeyUnreadable, KeyCreate, KeyWrite,
         KeyWriteFails, KeyEnds, KeyTaskEnds, object, clients, vars, login
<1>4. CASE StopService
  BY <1>4 DEF StopService, Crash, Sigterm, Stop, clients, login
<1>5. CASE StartService \/ Administration \/ UNCHANGED pamvars
  BY <1>5
     DEF StartService, Start, Administration, ChangeConfig, Authorize, object,
         clients, login, pamvars, vars
<1>6. QED
  BY <1>1, <1>2, <1>3, <1>4, <1>5, HandleEffects DEF PamNext
-----------------------------------------------------------------------------
(* The calls of the hooks.                                                 *)

\* The call c makes, if any, is the only thing that changes for the clients.
LEMMA CallEffect ==
    ASSUME TypeOK, NEW c \in Clients, NEW call, Call(c, call)
    PROVE  /\ calls[c] = NoCall /\ calls'[c] = call
           /\ \A d \in Clients : d # c => calls'[d] = calls[d] /\ replies'[d] = replies[d]
           /\ sessions' = sessions
  BY DEF TypeOK, Call

\* The call each hook of lib.rs makes as it goes from one phase to the next.
LEMMA HookEffects ==
    ASSUME TypeOK, LoginInv, NEW c \in Clients, Application(c)
    PROVE  /\ sessions' = sessions /\ strays \subseteq strays'
           /\ \A d \in Clients : d # c => /\ pam'[d] = pam[d]
                                          /\ calls'[d] = calls[d]
                                          /\ replies'[d] = replies[d]
           /\ \/ /\ UNCHANGED clients
                 /\ \/ /\ pam[c].at = "out" /\ pam'[c].at = "authenticated"
                    \/ /\ pam'[c].user = pam[c].user
                       /\ \/ pam'[c].at = "dead" /\ pam[c].at # "dead"
                          \/ /\ pam[c].at \in {"authenticated", "failed"}
                             /\ pam'[c].at \in {"out", "failed"}
                          \/ /\ calls[c] = NoCall
                             /\ \/ /\ pam[c].at \in {"setcred", "initiate", "close",
                                                    "stray"}
                                   /\ pam'[c].at \in {"authenticated", "out", "failed"}
                                \/ /\ pam[c].at = "open"
                                   /\ pam'[c].at = IF replies[c] = "Ok" THEN "in"
                                                   ELSE "failed"
              \/ /\ calls[c] = NoCall /\ calls'[c] # NoCall
                 /\ calls'[c].op \in HookCalls(pam'[c].at)
                 /\ pam'[c].user = pam[c].user
                 /\ \/ /\ pam[c].at \in {"authenticated", "initiate"}
                       /\ pam'[c].at \in {"setcred", "initiate", "open"}
                    \/ pam[c].at = "in" /\ pam'[c].at = "close"
                    \/ pam[c].at = "failed" /\ pam'[c].at = "stray"
                 /\ calls'[c].op \in {"open_user_session", "close_user_session"} =>
                       calls'[c].user = pam[c].user
<1> USE DEF LoginInv
<1>1. ASSUME NEW from, NEW to, Goes(c, from, to)
      PROVE  /\ pam[c].at = from /\ pam'[c].at = to /\ pam'[c].user = pam[c].user
             /\ \A d \in Clients : d # c => pam'[d] = pam[d]
             /\ strays \subseteq strays'
  BY <1>1 DEF Goes
<1>2. ASSUME NEW u \in Users, sm_authenticate(c, u)
      PROVE  /\ pam[c].at = "out" /\ pam'[c].at = "authenticated"
             /\ \A d \in Clients : d # c => pam'[d] = pam[d]
             /\ UNCHANGED <<clients, sessions>> /\ strays \subseteq strays'
  BY <1>2 DEF sm_authenticate, vars, clients
<1>3. CASE SetcredAnswered(c) \/ NoPrelude(c) \/ OpenAnswered(c) \/ CloseAnswered(c)
              \/ EndAfterFailedOpen(c) \/ NotSent(c) \/ Disconnected(c) \/ Killed(c)
  <2>1. UNCHANGED <<clients, sessions>>
    BY <1>3
       DEF SetcredAnswered, NoPrelude, OpenAnswered, CloseAnswered,
           EndAfterFailedOpen, NotSent, Disconnected, Killed, vars, clients
  <2>2. CASE Disconnected(c) \/ Killed(c)
    <3>1. \/ Goes(c, pam[c].at, "dead") /\ pam[c].at # "dead"
          \/ pam[c].at \in {"authenticated", "failed"} /\ Goes(c, pam[c].at, "out")
      BY <2>2 DEF Disconnected, Killed
    <3>2. QED
      BY <1>1, <2>1, <3>1 DEF clients
  <2>3. CASE OpenAnswered(c)
    <3>1. /\ calls[c] = NoCall
          /\ Goes(c, "open", IF replies[c] = "Ok" THEN "in" ELSE "failed")
      BY <2>3 DEF OpenAnswered, Answered
    <3>2. QED
      BY <1>1, <2>1, <3>1 DEF clients
  <2>4. CASE SetcredAnswered(c) \/ NoPrelude(c) \/ CloseAnswered(c)
    <3>1. /\ calls[c] = NoCall
          /\ \E from \in {"setcred", "initiate", "close", "stray"},
                to \in {"authenticated", "out", "failed"} : Goes(c, from, to)
      BY <2>4 DEF SetcredAnswered, NoPrelude, CloseAnswered, Answered
    <3>2. QED
      BY <1>1, <2>1, <3>1 DEF clients
  <2>5. CASE EndAfterFailedOpen(c) \/ NotSent(c)
    <3>1. \/ Goes(c, "in", "dead")
          \/ \E from \in {"authenticated", "failed"}, to \in {"out", "failed"} :
                Goes(c, from, to)
      BY <2>5 DEF EndAfterFailedOpen, NotSent
    <3>2. QED
      BY <1>1, <2>1, <3>1 DEF clients
  <2>6. QED
    BY <1>3, <2>2, <2>3, <2>4, <2>5
<1>4. CASE sm_setcred(c)
  <2>1. /\ Goes(c, "authenticated", "setcred")
        /\ Call(c, [op |-> "is_user_polyauth_enabled", user |-> pam[c].user])
    BY <1>4 DEF sm_setcred, CallEnabled
  <2>2. [op |-> "is_user_polyauth_enabled", user |-> pam[c].user] \in Calls
    <3>1. pam[c].user \in Names
      BY <1>1, <2>1, SessionsAssumption
    <3>2. QED
      BY <3>1 DEF Calls
  <2>3. QED
    BY <1>1, <2>1, <2>2, CallEffect, SessionsAssumption DEF HookCalls
<1>5. CASE sm_open_session(c)
  <2>1. /\ Goes(c, "authenticated", "initiate")
        /\ Call(c, [op |-> "initiate_session"])
    BY <1>5 DEF sm_open_session, CallInitiate
  <2>2. [op |-> "initiate_session"] \in Calls
    BY DEF Calls
  <2>3. QED
    BY <1>1, <2>1, <2>2, CallEffect, SessionsAssumption DEF HookCalls
<1>6. CASE PreludeReceived(c)
  <2> DEFINE call == [op |-> "open_user_session", user |-> pam[c].user,
                      otp |-> replies[c]]
  <2>1. Goes(c, "initiate", "open") /\ Call(c, call) /\ replies[c] \in Tokens
    BY <1>6 DEF PreludeReceived, CallOpen
  <2>2. call \in Calls
    <3>1. pam[c].user \in Names
      BY <1>1, <2>1, SessionsAssumption
    <3>2. QED
      BY <2>1, <3>1 DEF Calls
  <2>3. call.op = "open_user_session" /\ call.user = pam[c].user
    OBVIOUS
  <2> HIDE DEF call
  <2>4. QED
    BY <1>1, <2>1, <2>2, <2>3, CallEffect, SessionsAssumption DEF HookCalls
<1>7. CASE sm_close_session(c)
  <2>1. /\ Goes(c, "in", "close")
        /\ Call(c, [op |-> "close_user_session", user |-> pam[c].user])
    BY <1>7 DEF sm_close_session, CallClose
  <2>2. [op |-> "close_user_session", user |-> pam[c].user] \in Calls
    <3>1. pam[c].user \in Names
      BY <1>1, <2>1, SessionsAssumption
    <3>2. QED
      BY <3>1 DEF Calls
  <2>3. QED
    BY <1>1, <2>1, <2>2, CallEffect, SessionsAssumption DEF HookCalls
<1>8. CASE CloseAfterFailedOpen(c)
  <2>1. /\ pam[c].at = "failed" /\ pam'[c].at = "stray" /\ pam'[c].user = pam[c].user
        /\ \A d \in Clients : d # c => pam'[d] = pam[d]
        /\ strays \subseteq strays'
        /\ Call(c, [op |-> "close_user_session", user |-> pam[c].user])
    BY <1>8 DEF CloseAfterFailedOpen, CallClose
  <2>2. [op |-> "close_user_session", user |-> pam[c].user] \in Calls
    <3>1. pam[c].user \in Names
      BY <2>1, SessionsAssumption
    <3>2. QED
      BY <3>1 DEF Calls
  <2>3. QED
    BY <2>1, <2>2, CallEffect, SessionsAssumption DEF HookCalls
<1>9. QED
  BY <1>2, <1>3, <1>4, <1>5, <1>6, <1>7, <1>8 DEF Application, Hook, clients

\* CallInv is inductive.
LEMMA CallStep ==
    ASSUME IInv, LoginInv, CallInv, [PamNext]_pamvars
    PROVE  CallInv'
<1>1. TypeOK
  BY DEF IInv
<1>2. SUFFICES ASSUME NEW d \in Clients, calls'[d] # NoCall
               PROVE  /\ calls'[d].op \in HookCalls(pam'[d].at)
                      /\ calls'[d].op \in {"open_user_session", "close_user_session"} =>
                            calls'[d].user = pam'[d].user /\ pam'[d].user \in Users
  BY DEF CallInv, HookCalls
<1>3. CASE calls'[d] = calls[d] /\ pam'[d] = pam[d]
  BY <1>2, <1>3 DEF CallInv
<1>4. CASE \A c \in Clients : ~ Application(c)
  <2>1. ASSUME NEW c \in Clients, CloseNone(c) \/ CloseOne(c) \/ CloseLast(c) \/ CallLost(c)
        PROVE  \E r : Answer(c, r)
    BY <2>1 DEF CloseNone, CloseOne, CloseLast, CallLost
  <2>2. /\ UNCHANGED pam
        /\ \/ UNCHANGED clients
           \/ \E c \in Clients : Panicked(c) \/ \E r : Answer(c, r)
    BY <1>4, <2>1, ServiceEffects DEF AnswerOnly, Granted
  <2>3. CASE Panicked(d)
    <3>1. calls[d] # NoCall /\ calls[d].op \in {"initiate_session", "open_user_session"}
      BY <2>3, SessionsAssumption DEF Panicked
    <3>2. calls'[d] = [op |-> "panicked"] /\ pam'[d] = pam[d]
      BY <1>1, <2>2, <2>3 DEF Panicked, TypeOK
    <3>3. "panicked" \in HookCalls(pam[d].at)
      BY <3>1 DEF CallInv, HookCalls
    <3>4. QED
      BY <3>2, <3>3
  <2>4. ASSUME NEW c \in Clients, Panicked(c), c # d PROVE calls'[d] = calls[d]
    BY <1>1, <2>4 DEF Panicked, TypeOK
  <2>5. CASE UNCHANGED clients \/ \E c \in Clients : \E r : Answer(c, r)
    <3>1. calls'[d] = calls[d]
      BY <1>1, <1>2, <2>5, AnswerEffect DEF clients
    <3>2. QED
      BY <1>3, <2>2, <3>1
  <2>6. QED
    BY <1>3, <2>2, <2>3, <2>4, <2>5
<1>5. ASSUME NEW c \in Clients, Application(c), c # d
      PROVE  calls'[d] = calls[d] /\ pam'[d] = pam[d]
  BY <1>1, <1>5, HookEffects
<1>6. CASE Application(d)
  <2>1. CASE UNCHANGED clients
    <3>1. calls'[d] = calls[d] /\ calls[d] # NoCall
      BY <1>2, <2>1 DEF clients
    <3>2. pam[d].at \notin {"out", "authenticated", "failed"}
      BY <3>1 DEF CallInv, HookCalls
    <3>3. pam'[d].at = "dead" /\ pam'[d].user = pam[d].user
      BY <1>1, <1>6, <2>1, <3>1, <3>2, HookEffects DEF clients
    <3>4. calls[d].op \in HookCalls(pam[d].at)
      BY <3>1 DEF CallInv
    <3>5. HookCalls(pam[d].at) \subseteq HookCalls("dead")
      BY DEF HookCalls
    <3>6. QED
      BY <3>1, <3>3, <3>4, <3>5 DEF CallInv
  <2>2. CASE ~ UNCHANGED clients
    BY <1>1, <1>6, <2>2, HookEffects DEF LoginInv
  <2>3. QED
    BY <2>1, <2>2
<1>7. QED
  BY <1>3, <1>4, <1>5, <1>6
-----------------------------------------------------------------------------
(* Counting.                                                               *)

\* 1 for a member, 0 for the others.
In(c, S) == IF c \in S THEN 1 ELSE 0

\* Two sets that differ in one element at most.
LEMMA OneDiffers ==
    ASSUME NEW A, NEW B, IsFiniteSet(A), NEW c,
           \A d : d # c => (d \in A <=> d \in B)
    PROVE  /\ Cardinality(A) \in Nat /\ Cardinality(B) \in Nat
           /\ Cardinality(B) = Cardinality(A) + In(c, B) - In(c, A)
<1> DEFINE R == A \ {c}
<1>1. IsFiniteSet(R) /\ Cardinality(R) \in Nat /\ c \notin R
  BY FS_Difference, FS_Subset, FS_CardinalityType
<1>2. A = IF c \in A THEN R \cup {c} ELSE R
  OBVIOUS
<1>3. B = IF c \in B THEN R \cup {c} ELSE R
  OBVIOUS
<1> HIDE DEF R
<1>4. Cardinality(R \cup {c}) = Cardinality(R) + 1
  BY <1>1, FS_AddElement
<1>5. Cardinality(A) = Cardinality(R) + In(c, A)
  BY <1>1, <1>2, <1>4 DEF In
<1>6. Cardinality(B) = Cardinality(R) + In(c, B)
  BY <1>1, <1>3, <1>4 DEF In
<1>7. In(c, A) \in Nat /\ In(c, B) \in Nat
  BY DEF In
<1>8. QED
  BY <1>1, <1>5, <1>6, <1>7

\* The sets of the clients in a state are finite.
LEMMA CountedFinite ==
    ASSUME NEW u
    PROVE  IsFiniteSet(CountedFor(u)) /\ IsFiniteSet(AbandonedFor(u))
  BY SessionsAssumption, FS_Subset DEF CountedFor, AbandonedFor

\* The first process runs, and no login of u has closed after a failed open.
Exact(u) == crashes = 0 /\ u \notin strays

\* A step that concerns the client c alone keeps the count of u balanced if it
\* changes it by what it changes for c.
LEMMA Rebalance ==
    ASSUME NEW u, NEW c \in Clients, Count(u) \in Nat, Count(u)' \in Nat, Balanced(u),
           crashes' = 0 => crashes = 0,
           strays \subseteq strays',
           \A d \in Clients : d # c => /\ pam'[d] = pam[d]
                                       /\ calls'[d] = calls[d]
                                       /\ replies'[d] = replies[d],
           u \notin strays' =>
              In(c, CountedFor(u)') - In(c, CountedFor(u)) <= Count(u)' - Count(u),
           Count(u)' - Count(u) <= In(c, CountedFor(u)') + In(c, AbandonedFor(u)')
                                      - In(c, CountedFor(u)) - In(c, AbandonedFor(u))
    PROVE  Balanced(u)'
<1> DEFINE S == CountedFor(u)    T == CountedFor(u)'
           M == AbandonedFor(u)  N == AbandonedFor(u)'
<1>1. \A d : d # c => (d \in S <=> d \in T)
  BY DEF CountedFor, Counted
<1>2. \A d : d # c => (d \in M <=> d \in N)
  BY DEF AbandonedFor, Abandoned
<1>3. IsFiniteSet(S) /\ IsFiniteSet(M)
  BY CountedFinite
<1>4. In(c, S) \in Nat /\ In(c, T) \in Nat /\ In(c, M) \in Nat /\ In(c, N) \in Nat
  BY DEF In
<1>5. /\ Exact(u)' => Cardinality(S) <= Count(u)
      /\ Count(u) <= Cardinality(S) + Cardinality(M)
  BY DEF Balanced, Exact
<1> HIDE DEF S, T, M, N
<1>6. /\ Cardinality(S) \in Nat /\ Cardinality(T) \in Nat
      /\ Cardinality(T) = Cardinality(S) + In(c, T) - In(c, S)
  BY <1>1, <1>3, OneDiffers
<1>7. /\ Cardinality(M) \in Nat /\ Cardinality(N) \in Nat
      /\ Cardinality(N) = Cardinality(M) + In(c, N) - In(c, M)
  BY <1>2, <1>3, OneDiffers
<1>8. /\ Exact(u)' => In(c, T) - In(c, S) <= Count(u)' - Count(u)
      /\ Count(u)' - Count(u) <= In(c, T) + In(c, N) - In(c, S) - In(c, M)
  BY DEF S, T, M, N, Exact
<1> DEFINE k == Count(u)  l == Count(u)'
<1>9. k \in Nat /\ l \in Nat
  OBVIOUS
<1>10. /\ Exact(u)' => Cardinality(S) <= k
       /\ k <= Cardinality(S) + Cardinality(M)
       /\ Exact(u)' => In(c, T) - In(c, S) <= l - k
       /\ l - k <= In(c, T) + In(c, N) - In(c, S) - In(c, M)
  BY <1>5, <1>8
<1> HIDE DEF k, l
<1>11. l <= Cardinality(T) + Cardinality(N)
  BY <1>4, <1>6, <1>7, <1>9, <1>10
<1>12. Exact(u)' => Cardinality(T) <= l
  BY <1>4, <1>6, <1>9, <1>10
<1>13. QED
  BY <1>11, <1>12 DEF T, N, l, Balanced, Exact

\* A count of nobody is never too high.
LEMMA NobodyCounted ==
    ASSUME NEW u, Count(u)' = 0, crashes' # 0 \/ u \in strays'
    PROVE  Balanced(u)'
<1>1. /\ IsFiniteSet({c \in Clients : pam'[c].user = u /\ Counted(c)'})
      /\ IsFiniteSet({c \in Clients : pam'[c].user = u /\ Abandoned(c)'})
  BY SessionsAssumption, FS_Subset
<1>2. IsFiniteSet(CountedFor(u)') /\ IsFiniteSet(AbandonedFor(u)')
  BY <1>1 DEF CountedFor, AbandonedFor
<1>3. Cardinality(CountedFor(u)') \in Nat /\ Cardinality(AbandonedFor(u)') \in Nat
  BY <1>2, FS_CardinalityType
<1>4. QED
  BY <1>3 DEF Balanced

\* The hooks of lib.rs change no count; a login that leaves the counted ones while
\* the count stays is one whose application is gone.
LEMMA HookBalance ==
    ASSUME IInv, LoginInv, CallInv, NEW u \in Users, Balanced(u),
           crashes' = 0 => crashes = 0, NEW c \in Clients, Application(c)
    PROVE  Balanced(u)'
<1>1. TypeOK /\ HandlerInv /\ SessionsCounted
  BY DEF IInv
<1>2. sessions' = sessions
  BY <1>1, HookEffects
<1>3. Count(u) \in Nat /\ Count(u)' = Count(u)
  BY <1>1, <1>2, CountChanges DEF Count
<1>4. /\ pam'[c].user = u /\ Counted(c)' /\ u \notin strays' =>
            pam[c].user = u /\ Counted(c)
      /\ pam[c].user = u /\ (Counted(c) \/ Abandoned(c)) =>
            pam'[c].user = u /\ (Counted(c)' \/ Abandoned(c)')
  <2>1. calls[c] # NoCall => calls[c].op \in HookCalls(pam[c].at)
    BY DEF CallInv
  <2>2. CASE UNCHANGED clients
    <3>1. calls'[c] = calls[c] /\ replies'[c] = replies[c]
      BY <2>2 DEF clients
    <3>2. CASE pam[c].at = "out" /\ pam'[c].at = "authenticated"
      BY <3>2 DEF Counted, Abandoned
    <3>3. CASE /\ pam'[c].user = pam[c].user
               /\ pam'[c].at = "dead" /\ pam[c].at # "dead"
      <4>1. pam[c].at = "stray" => pam[c].user \in strays'
        BY <1>1, HookEffects DEF LoginInv
      <4>2. QED
        BY <2>1, <3>1, <3>3, <4>1 DEF Counted, Abandoned, HookCalls
    <3>4. CASE /\ pam'[c].user = pam[c].user /\ calls[c] = NoCall
               /\ pam[c].at \in {"setcred", "initiate", "close", "stray"}
               /\ pam'[c].at \in {"authenticated", "out", "failed"}
      BY <3>1, <3>4 DEF Counted, Abandoned
    <3>5. CASE /\ pam'[c].user = pam[c].user /\ calls[c] = NoCall
               /\ pam[c].at = "open"
               /\ pam'[c].at = IF replies[c] = "Ok" THEN "in" ELSE "failed"
      BY <3>1, <3>5 DEF Counted, Abandoned
    <3>6. CASE /\ pam'[c].user = pam[c].user
               /\ pam[c].at \in {"authenticated", "failed"}
               /\ pam'[c].at \in {"out", "failed"}
      BY <3>6 DEF Counted, Abandoned
    <3>7. QED
      BY <1>1, <2>2, <3>2, <3>3, <3>4, <3>5, <3>6, HookEffects DEF clients
  <2>3. CASE ~ UNCHANGED clients
    <3>1. /\ pam'[c].user = pam[c].user /\ calls[c] = NoCall /\ calls'[c] # NoCall
          /\ calls'[c].op \in HookCalls(pam'[c].at)
          /\ \/ /\ pam[c].at \in {"authenticated", "initiate"}
                /\ pam'[c].at \in {"setcred", "initiate", "open"}
             \/ pam[c].at = "in" /\ pam'[c].at = "close"
             \/ pam[c].at = "failed" /\ pam'[c].at = "stray"
      BY <1>1, <2>3, HookEffects
    <3>2. QED
      BY <3>1 DEF Counted, Abandoned, HookCalls
  <2>4. QED
    BY <2>2, <2>3
<1>5. /\ u \notin strays' /\ c \in CountedFor(u)' => c \in CountedFor(u)
      /\ c \in CountedFor(u) \/ c \in AbandonedFor(u) =>
            c \in CountedFor(u)' \/ c \in AbandonedFor(u)'
  BY <1>4 DEF CountedFor, AbandonedFor
<1>6. ~ (c \in CountedFor(u) /\ c \in AbandonedFor(u))
  BY DEF CountedFor, Counted, AbandonedFor, Abandoned
<1>7. /\ u \notin strays' =>
           In(c, CountedFor(u)') - In(c, CountedFor(u)) <= Count(u)' - Count(u)
      /\ Count(u)' - Count(u) <= In(c, CountedFor(u)') + In(c, AbandonedFor(u)')
                                    - In(c, CountedFor(u)) - In(c, AbandonedFor(u))
  BY <1>3, <1>5, <1>6 DEF In
<1>8. \A d \in Clients : d # c => /\ pam'[d] = pam[d]
                                  /\ calls'[d] = calls[d]
                                  /\ replies'[d] = replies[d]
  BY <1>1, HookEffects
<1>9. strays \subseteq strays'
  BY <1>1, HookEffects
<1>10. QED
  BY <1>3, <1>7, <1>8, <1>9, Rebalance

\* An answer to c, when it changes the count of c's user as it should.
LEMMA AnswerBalance ==
    ASSUME IInv, LoginInv, CallInv, NEW u \in Users, Balanced(u),
           UNCHANGED <<pam, strays>>,
           crashes' = 0 => crashes = 0, NEW c \in Clients,
           \/ \E r : AnswerOnly(c, r)
           \/ Granted(c)
           \/ CloseOne(c) \/ CloseLast(c)
    PROVE  Balanced(u)'
<1>1. TypeOK /\ HandlerInv /\ SessionsCounted
  BY DEF IInv
<1>2. \E r : Answer(c, r)
  BY DEF AnswerOnly, Granted, CloseOne, CloseLast
<1>3. /\ calls'[c] = NoCall
      /\ \A d \in Clients : d # c => /\ pam'[d] = pam[d]
                                     /\ calls'[d] = calls[d]
                                     /\ replies'[d] = replies[d]
  BY <1>1, <1>2, AnswerEffect
<1>4. calls[c] \in Calls /\ calls[c] # NoCall
  BY <1>1, SessionsAssumption
     DEF AnswerOnly, Granted, CloseOne, CloseLast, Dispatch, Pending, TypeOK
<1>5. /\ calls[c].op \in HookCalls(pam[c].at)
      /\ calls[c].op \in {"open_user_session", "close_user_session"} =>
            calls[c].user = pam[c].user
  BY <1>4 DEF CallInv
<1>6. c \notin AbandonedFor(u)
  BY <1>4 DEF AbandonedFor, Abandoned
<1>7. Count(u) \in Nat
  BY <1>1, CountChanges
<1>8. SUFFICES
        /\ Count(u)' \in Nat
        /\ u \notin strays' =>
           In(c, CountedFor(u)') - In(c, CountedFor(u)) <= Count(u)' - Count(u)
        /\ Count(u)' - Count(u) <= In(c, CountedFor(u)') + In(c, AbandonedFor(u)')
                                      - In(c, CountedFor(u)) - In(c, AbandonedFor(u))
  BY <1>3, <1>7, Rebalance
<1>9. CASE \E r : AnswerOnly(c, r)
  <2>1. PICK r : AnswerOnly(c, r)
    BY <1>9
  <2>2. replies'[c] = r
    BY <1>1, <2>1, AnswerEffect DEF AnswerOnly
  <2>3. c \notin CountedFor(u)
    BY <1>4, <1>5, <2>1 DEF CountedFor, Counted, AnswerOnly, HookCalls
  <2>4. c \notin CountedFor(u)'
    BY <1>3, <1>5, <2>1, <2>2 DEF CountedFor, Counted, AnswerOnly, HookCalls
  <2>5. Count(u)' = Count(u)
    BY <2>1 DEF AnswerOnly, Count
  <2>6. QED
    BY <1>6, <1>7, <2>3, <2>4, <2>5 DEF In
<1>10. CASE Granted(c)
  <2>1. /\ Answer(c, "Ok") /\ calls[c].op = "open_user_session"
        /\ Count(u)' = Count(u) + (IF calls[c].user = u THEN 1 ELSE 0)
    BY <1>10 DEF Granted
  <2>2. replies'[c] = "Ok"
    BY <1>1, <2>1, AnswerEffect
  <2>3. pam[c].at \in {"open", "dead"} /\ calls[c].user = pam[c].user
    BY <1>5, <2>1 DEF HookCalls
  <2>4. c \notin CountedFor(u)
    BY <1>4, <2>1, <2>3 DEF CountedFor, Counted
  <2>5. CASE calls[c].user = u
    <3>1. \/ c \in CountedFor(u)' /\ c \notin AbandonedFor(u)'
          \/ c \notin CountedFor(u)' /\ c \in AbandonedFor(u)'
      BY <1>3, <2>2, <2>3, <2>5
         DEF CountedFor, Counted, AbandonedFor, Abandoned
    <3>2. QED
      BY <1>6, <1>7, <2>1, <2>4, <2>5, <3>1 DEF In
  <2>6. CASE calls[c].user # u
    <3>1. c \notin CountedFor(u)' /\ c \notin AbandonedFor(u)'
      BY <2>3, <2>6 DEF CountedFor, AbandonedFor
    <3>2. QED
      BY <1>6, <1>7, <2>1, <2>4, <2>6, <3>1 DEF In
  <2>7. QED
    BY <2>5, <2>6
<1>11. CASE CloseOne(c) \/ CloseLast(c)
  <2>1. calls[c].op = "close_user_session"
    BY <1>11 DEF CloseOne, CloseLast, Dispatch, Pending
  <2>2. Count(u)' = Count(u) - (IF calls[c].user = u THEN 1 ELSE 0)
    BY <1>1, <1>11, CountChanges
  <2>3. pam[c].at \in {"close", "stray", "dead"} /\ calls[c].user = pam[c].user
    BY <1>5, <2>1 DEF HookCalls
  <2>4. c \notin CountedFor(u)'
    BY <1>3, <2>3 DEF CountedFor, Counted
  <2>5. CASE calls[c].user = u
    <3>1. c \in CountedFor(u) \/ (u \in strays' /\ c \notin CountedFor(u))
      BY <1>4, <2>1, <2>3, <2>5 DEF CountedFor, Counted, LoginInv
    <3>2. Count(u) # 0
      BY <1>1, <1>11, <2>5 DEF CloseOne, CloseLast, Count, SessionsCounted
    <3>3. QED
      BY <1>6, <1>7, <2>2, <2>4, <2>5, <3>1, <3>2 DEF In
  <2>6. CASE calls[c].user # u
    <3>1. c \notin CountedFor(u) /\ c \notin AbandonedFor(u)'
      BY <2>3, <2>6 DEF CountedFor, AbandonedFor
    <3>2. QED
      BY <1>6, <1>7, <2>2, <2>4, <2>6, <3>1 DEF In
  <2>7. QED
    BY <2>5, <2>6
<1>12. QED
  BY <1>9, <1>10, <1>11

\* A call whose handler panics was no login, and the client stays none.
LEMMA PanicBalance ==
    ASSUME IInv, NEW u \in Users, Balanced(u), UNCHANGED <<pam, strays>>,
           crashes' = 0 => crashes = 0, NEW c \in Clients, Panicked(c)
    PROVE  Balanced(u)'
<1>1. TypeOK /\ HandlerInv /\ SessionsCounted
  BY DEF IInv
<1>2. /\ calls[c] # NoCall /\ calls[c].op \in {"initiate_session", "open_user_session"}
      /\ sessions' = sessions /\ replies' = replies
      /\ calls' = [calls EXCEPT ![c] = [op |-> "panicked"]]
  BY SessionsAssumption DEF Panicked
<1>3. calls'[c] = [op |-> "panicked"] /\ \A d \in Clients : d # c => calls'[d] = calls[d]
  BY <1>1, <1>2 DEF TypeOK
<1>4. calls'[c] # NoCall /\ calls'[c].op = "panicked"
  <2>1. [op |-> "panicked"] \in Calls
    BY DEF Calls
  <2>2. QED
    BY <1>3, <2>1, SessionsAssumption
<1>5. /\ c \notin CountedFor(u) <=> c \notin CountedFor(u)'
      /\ c \notin AbandonedFor(u) /\ c \notin AbandonedFor(u)'
  BY <1>2, <1>4 DEF CountedFor, AbandonedFor, Counted, Abandoned
<1>6. Count(u) \in Nat /\ Count(u)' = Count(u)
  BY <1>1, <1>2, CountChanges DEF Count
<1>7. /\ In(c, CountedFor(u)') - In(c, CountedFor(u)) <= Count(u)' - Count(u)
      /\ Count(u)' - Count(u) <= In(c, CountedFor(u)') + In(c, AbandonedFor(u)')
                                    - In(c, CountedFor(u)) - In(c, AbandonedFor(u))
  BY <1>5, <1>6 DEF In
<1>8. QED
  BY <1>2, <1>3, <1>6, <1>7, Rebalance

\* In the first process no hook closes a session that is not there, unless a login
\* of the user closes after a failed open: otherwise the answer SessionAlreadyClosed
\* (session.rs:305) is for callers other than the PAM module.
LEMMA NoCloseRefused ==
    ASSUME IInv, LoginInv, CallInv, CountInv, NEW c \in Clients, CloseNone(c),
           Exact(calls[c].user)
    PROVE  FALSE
<1> DEFINE u == calls[c].user
<1>1. /\ calls[c] # NoCall /\ calls[c].op = "close_user_session"
      /\ u \notin DOMAIN sessions
  BY DEF CloseNone, Dispatch, Pending
<1>2. /\ u = pam[c].user /\ u \in Users /\ pam[c].at \in {"close", "dead"}
  BY <1>1 DEF CallInv, HookCalls, LoginInv, Exact
<1> HIDE DEF u
<1>3. c \in CountedFor(u)
  BY <1>1, <1>2 DEF CountedFor, Counted
<1>4. IsFiniteSet(CountedFor(u)) /\ Cardinality(CountedFor(u)) \in Nat
  BY CountedFinite, FS_CardinalityType
<1>5. Cardinality(CountedFor(u)) # 0
  BY <1>3, <1>4, FS_EmptySet
<1>6. Count(u) = 0
  BY <1>1 DEF Count, u
<1>7. Exact(u)
  BY DEF u
<1>8. QED
  BY <1>2, <1>4, <1>5, <1>6, <1>7 DEF CountInv, Balanced, Exact

\* A login from before a restart may, and a close after a failed open: its user is
\* not counted, and the other users' counts are not touched.
LEMMA CloseRefused ==
    ASSUME IInv, LoginInv, CallInv, CountInv, UNCHANGED <<pam, strays, crashes>>,
           NEW c \in Clients, CloseNone(c), NEW u \in Users
    PROVE  Balanced(u)'
<1>1. TypeOK /\ HandlerInv /\ SessionsCounted /\ Balanced(u)
  BY DEF IInv, CountInv
<1>2. ~ Exact(calls[c].user)
  BY NoCloseRefused
<1>3. /\ calls[c] # NoCall /\ calls[c].op = "close_user_session"
      /\ calls[c].user \notin DOMAIN sessions
      /\ sessions' = sessions /\ \E r : Answer(c, r)
  BY DEF CloseNone, Dispatch, Pending
<1>4. calls[c].user = pam[c].user
  BY <1>3 DEF CallInv
<1>5. CASE pam[c].user = u
  <2>1. Count(u)' = 0
    BY <1>3, <1>4, <1>5 DEF Count
  <2>2. crashes' # 0 \/ u \in strays'
    BY <1>2, <1>4, <1>5 DEF Exact
  <2>3. QED
    BY <2>1, <2>2, NobodyCounted
<1>6. CASE pam[c].user # u
  <2>1. \A d \in Clients : d # c => /\ pam'[d] = pam[d]
                                    /\ calls'[d] = calls[d]
                                    /\ replies'[d] = replies[d]
    BY <1>1, <1>3, AnswerEffect
  <2>2. Count(u)' = Count(u) /\ Count(u) \in Nat
    BY <1>1, <1>3, CountChanges DEF Count
  <2>3. /\ c \notin CountedFor(u) /\ c \notin CountedFor(u)'
        /\ c \notin AbandonedFor(u) /\ c \notin AbandonedFor(u)'
    BY <1>6 DEF CountedFor, AbandonedFor
  <2>4. /\ u \notin strays' =>
           In(c, CountedFor(u)') - In(c, CountedFor(u)) <= Count(u)' - Count(u)
        /\ Count(u)' - Count(u) <= In(c, CountedFor(u)') + In(c, AbandonedFor(u)')
                                      - In(c, CountedFor(u)) - In(c, AbandonedFor(u))
    BY <2>2, <2>3 DEF In
  <2>5. QED
    BY <1>1, <2>1, <2>2, <2>4, Rebalance
<1>7. QED
  BY <1>5, <1>6
-----------------------------------------------------------------------------
(* The invariant and the theorems.                                         *)

\* The number of stops only grows, and the service goes down by stopping.
LEMMA StopsCounted ==
    ASSUME TypeOK, [Next]_vars
    PROVE  \/ crashes' = crashes /\ (service = "Up" => service' = "Up")
           \/ crashes' = crashes + 1 /\ \E table : Stop(table)
<1>1. ASSUME NEW c \in Clients, ClientStep(c) \/ Handle(c) \/ CallLost(c)
      PROVE  UNCHANGED <<crashes, service>>
  BY <1>1
     DEF ClientStep, CallInitiate, CallOpen, CallClose, CallEnabled, Call, Handle,
         InitiateSession, OpenUnknownUser, OpenAgain, OpenFirst, CloseNone,
         CloseOne, CloseLast, IsUserPolyauthEnabled, CallLost, outside
<1>2. ASSUME Resume PROVE UNCHANGED <<crashes, service>>
  BY <1>2
     DEF Resume, InitiateToken, InitiateEmpty, FetchPanic, OpenNoKey, OpenBadOtp,
         OpenBadConfig, OpenNoMounts, OpenLoad, OpenAuthorized, OpenRefused,
         MountNext, MountLast, MountFails, MountOne, outside
<1>3. ASSUME Surroundings
      PROVE  \/ crashes' = crashes /\ (service = "Up" => service' = "Up")
             \/ crashes' = crashes + 1 /\ \E table : Stop(table)
  BY <1>3
     DEF Surroundings, KeyTaskEnds, ChangeConfig, Authorize, Crash, Sigterm, Stop,
         Start
<1>4. QED
  BY <1>1, <1>2, <1>3 DEF Next, vars

\* FirstRunInv is inductive.
LEMMA FirstRunStep ==
    ASSUME IInv, LoginInv, FirstRunInv, [PamNext]_pamvars
    PROVE  FirstRunInv'
<1>1. TypeOK /\ HandlerInv /\ [Next]_vars
  BY StepRefines DEF IInv
<1>2. SUFFICES ASSUME crashes' = 0
               PROVE  /\ service' = "Up"
                      /\ \A t \in Targets : \A i \in 1 .. Len(mtab'[t]) :
                            mtab'[t][i] # Leftover
  BY DEF FirstRunInv
<1>3. ~ \E table : Stop(table)
  BY <1>1, <1>2 DEF Stop, TypeOK
<1>4. crashes = 0
  BY <1>1, <1>2, StopsCounted DEF TypeOK
<1>5. /\ service = "Up" /\ service' = "Up"
      /\ \A t \in Targets : \A i \in 1 .. Len(mtab[t]) : mtab[t][i] # Leftover
  BY <1>1, <1>2, <1>4, StopsCounted DEF FirstRunInv, TypeOK
<1>6. ASSUME NEW t \in Targets, NEW i \in 1 .. Len(mtab'[t])
      PROVE  mtab'[t][i] # Leftover
  <2>1. MountOne => User # Leftover
    <3>1. MountOne => User \in Users
      BY <1>1, MountingFacts DEF MountOne
    <3>2. QED
      BY <3>1, SessionsAssumption
  <2>2. QED
    BY <1>1, <1>3, <1>5, <2>1, TableEntries
<1>7. QED
  BY <1>5, <1>6

\* A process that is down has no sessions, and does not get any.
LEMMA DownStep ==
    ASSUME IInv, service = "Down" => sessions = NoSessions, [Next]_vars, service' = "Down"
    PROVE  sessions' = NoSessions
<1>1. TypeOK /\ HandlerInv
  BY DEF IInv
<1>2. CASE service = "Up"
  <2>1. \E table : Stop(table)
    BY <1>1, <1>2, StopsCounted
  <2>2. QED
    BY <2>1 DEF Stop
<1>3. CASE service = "Down"
  <2>1. handler.step = "idle"
    BY <1>1, <1>3 DEF HandlerInv, IdleHandler
  <2>2. ~ MountLast /\ \A c \in Clients : ~ (OpenAgain(c) \/ CloseOne(c) \/ CloseLast(c))
    BY <1>3, <2>1 DEF MountLast, MountOne, OpenAgain, CloseOne, CloseLast, Dispatch
  <2>3. QED
    BY <1>3, <2>2, SessionSteps
<1>4. QED
  BY <1>1, <1>2, <1>3 DEF TypeOK

\* CountInv is inductive.
LEMMA CountedStep ==
    ASSUME IInv, LoginInv, CallInv, FirstRunInv, CountInv, [PamNext]_pamvars
    PROVE  CountInv'
<1>1. TypeOK /\ HandlerInv /\ [Next]_vars
  BY StepRefines DEF IInv
<1>2. service' = "Down" => sessions' = NoSessions
  BY <1>1, DownStep DEF CountInv
<1>3. crashes' = 0 => crashes = 0
  BY <1>1, StopsCounted DEF TypeOK
<1>4. ASSUME NEW u \in Users PROVE Balanced(u)'
  <2>1. Balanced(u)
    BY DEF CountInv
  <2>2. ASSUME NEW c \in Clients, Application(c) PROVE Balanced(u)'
    BY <1>3, <2>1, <2>2, HookBalance
  <2>3. CASE \A c \in Clients : ~ Application(c)
    <3>1. UNCHANGED <<pam, strays>>
      BY <2>3, ServiceEffects
    <3>2. CASE UNCHANGED <<clients, sessions>>
      BY <1>3, <2>1, <3>1, <3>2
         DEF Balanced, CountedFor, AbandonedFor, Counted, Abandoned, Count, clients
    <3>3. ASSUME NEW c \in Clients,
                 \/ \E r : AnswerOnly(c, r)
                 \/ Granted(c)
                 \/ CloseOne(c) \/ CloseLast(c)
          PROVE  Balanced(u)'
      BY <1>3, <2>1, <3>1, <3>3, AnswerBalance
    <3>4. ASSUME NEW c \in Clients, CloseNone(c) PROVE Balanced(u)'
      <4>1. UNCHANGED crashes
        BY <3>4 DEF CloseNone, outside
      <4>2. QED
        BY <3>1, <3>4, <4>1, CloseRefused
    <3>5. ASSUME NEW c \in Clients, CallLost(c) PROVE Balanced(u)'
      <4>1. service = "Down" /\ UNCHANGED <<crashes, sessions, service>>
        BY <3>5 DEF CallLost, outside, object
      <4>2. Count(u)' = 0
        BY <4>1 DEF CountInv, Count, NoSessions
      <4>3. crashes' # 0
        BY <4>1 DEF FirstRunInv
      <4>4. QED
        BY <4>2, <4>3, NobodyCounted
    <3>6. ASSUME NEW table, Stop(table) PROVE Balanced(u)'
      <4>1. Count(u)' = 0
        BY <3>6 DEF Stop, Count, NoSessions
      <4>2. crashes' # 0
        BY <1>1, <3>6 DEF Stop, TypeOK
      <4>3. QED
        BY <4>1, <4>2, NobodyCounted
    <3>7. ASSUME NEW c \in Clients, Panicked(c) PROVE Balanced(u)'
      BY <1>3, <2>1, <3>1, <3>7, PanicBalance
    <3>8. QED
      BY <2>3, <3>2, <3>3, <3>4, <3>5, <3>6, <3>7, ServiceEffects
  <2>4. QED
    BY <2>2, <2>3
<1>5. QED
  BY <1>2, <1>4 DEF CountInv, Balanced, CountedFor, AbandonedFor, Counted, Abandoned, Count

\* The inductive invariant of the logins.
LInv == IInv /\ TableInv /\ OwnerInv /\ LoginInv /\ CallInv /\ CountInv
            /\ FirstRunInv

\* It holds initially: nobody is logged in and nothing is mounted.
LEMMA InitLogins == PamInit => LoginInv /\ CallInv /\ CountInv /\ FirstRunInv
<1>1. SUFFICES ASSUME PamInit PROVE LoginInv /\ CallInv /\ CountInv /\ FirstRunInv
  OBVIOUS
<1>2. LoginInv
  BY <1>1, SessionsAssumption DEF PamInit, Init, LoginInv, Phases
<1>3. CallInv
  BY <1>1 DEF PamInit, Init, CallInv
<1>4. ASSUME NEW u \in Users PROVE Balanced(u)
  <2>1. Count(u) = 0
    BY <1>1 DEF PamInit, Init, Count, NoSessions
  <2>2. CountedFor(u) = {} /\ AbandonedFor(u) = {}
    BY <1>1 DEF PamInit, CountedFor, AbandonedFor, Counted, Abandoned
  <2>3. QED
    BY <2>1, <2>2, FS_EmptySet DEF Balanced
<1>5. CountInv
  BY <1>1, <1>4 DEF PamInit, Init, CountInv
<1>6. FirstRunInv
  BY <1>1 DEF PamInit, Init, FirstRunInv
<1>7. QED
  BY <1>2, <1>3, <1>5, <1>6

\* It holds always.
LEMMA LoginInvariance == PamSpec => []LInv
<1>1. PamSpec => [](IInv /\ TableInv /\ OwnerInv)
  BY PamImplementsSessions, OwnerInvariance, PTL
<1>2. IInv /\ LoginInv /\ CallInv /\ CountInv /\ FirstRunInv /\ [PamNext]_pamvars =>
         LoginInv' /\ CallInv' /\ CountInv' /\ FirstRunInv'
  BY LoginStep, CallStep, CountedStep, FirstRunStep
<1>3. IInv /\ TableInv /\ OwnerInv /\ LoginInv /\ CallInv /\ CountInv /\ FirstRunInv => LInv
  BY DEF LInv
<1>4. QED
  BY <1>1, <1>2, <1>3, InitLogins, PTL DEF PamSpec

\* lib.rs:144, 155 with session.rs:194, 308: the count of a user's session is at most
\* the number of that user's logins and of the applications that are gone, through
\* every restart of the service; until it is first stopped, and as long as no login
\* of the user closes after a failed open, every login is counted.
THEOREM LoginsAreCounted == PamSpec => []LoginsCounted
<1>1. LInv => LoginsCounted
  <2>1. SUFFICES ASSUME LInv, NEW u \in Users
                 PROVE  /\ Count(u) <= Cardinality(Logins(u))
                                          + Cardinality(DeadLogins(u))
                        /\ Exact(u) => Cardinality(Logins(u)) <= Count(u)
    BY DEF LoginsCounted, Exact
  <2> DEFINE S == CountedFor(u)  M == AbandonedFor(u)
             L == Logins(u)      D == DeadLogins(u)
  <2>2. TypeOK /\ HandlerInv /\ SessionsCounted /\ CallInv /\ Balanced(u)
    BY <2>1 DEF LInv, IInv, CountInv
  <2>3. Count(u) \in Nat
    BY <2>2, CountChanges
  <2>4. L \subseteq S /\ M \subseteq D /\ S \subseteq L \cup D /\ L \cap D = {} /\ S \cap M = {}
    BY <2>2
       DEF Logins, DeadLogins, CountedFor, AbandonedFor, Counted, Abandoned, CallInv,
           HookCalls
  <2>5. IsFiniteSet(S) /\ IsFiniteSet(M) /\ IsFiniteSet(L) /\ IsFiniteSet(D)
    BY SessionsAssumption, FS_Subset
       DEF CountedFor, AbandonedFor, Logins, DeadLogins
  <2>6. /\ Exact(u) => Cardinality(S) <= Count(u)
        /\ Count(u) <= Cardinality(S) + Cardinality(M)
    BY <2>2 DEF Balanced, Exact
  <2> HIDE DEF S, M, L, D
  <2>7. /\ Cardinality(S) \in Nat /\ Cardinality(M) \in Nat
        /\ Cardinality(L) \in Nat /\ Cardinality(D) \in Nat
    BY <2>5, FS_CardinalityType
  <2>8. Cardinality(L) <= Cardinality(S)
    BY <2>4, <2>5, FS_Subset
  <2>9. Cardinality({}) = 0
    BY FS_EmptySet
  <2>10. /\ IsFiniteSet(L \cup D)
         /\ Cardinality(L \cup D) = Cardinality(L) + Cardinality(D)
    <3>1. /\ IsFiniteSet(L \cup D)
          /\ Cardinality(L \cup D)
                 = Cardinality(L) + Cardinality(D) - Cardinality(L \cap D)
      BY <2>5, FS_Union
    <3>2. Cardinality(L \cap D) = 0
      BY <2>4, <2>9, Zenon
    <3>3. QED
      BY <2>7, <3>1, <3>2
  <2>11. /\ IsFiniteSet(S \cup M)
         /\ Cardinality(S \cup M) = Cardinality(S) + Cardinality(M)
    <3>1. /\ IsFiniteSet(S \cup M)
          /\ Cardinality(S \cup M)
                 = Cardinality(S) + Cardinality(M) - Cardinality(S \cap M)
      BY <2>5, FS_Union
    <3>2. Cardinality(S \cap M) = 0
      BY <2>4, <2>9, Zenon
    <3>3. QED
      BY <2>7, <3>1, <3>2
  <2>12. Cardinality(S \cup M) <= Cardinality(L \cup D)
    <3>1. S \cup M \subseteq L \cup D
      BY <2>4
    <3>2. QED
      BY <2>10, <3>1, FS_Subset
  <2>13. Count(u) <= Cardinality(L) + Cardinality(D)
    BY <2>3, <2>6, <2>7, <2>10, <2>11, <2>12
  <2>14. Exact(u) => Cardinality(L) <= Count(u)
    BY <2>3, <2>6, <2>7, <2>8
  <2>15. QED
    BY <2>13, <2>14 DEF L, D
<1>2. QED
  BY <1>1, LoginInvariance, PTL

\* The run-time directory is the first thing every session mounted (mount.rs:182).
LEMMA SessionHasXdg ==
    ASSUME IInv, NEW u \in DOMAIN sessions
    PROVE  1 \in DOMAIN sessions[u].mounts /\ sessions[u].mounts[1] = XdgPath[u]
<1>1. u \in Users /\ sessions[u].loaded \in Configs \cup {None}
  BY DEF IInv, TypeOK, UserSession
<1>2. PICK order : /\ sessions[u].loaded # None => order \in Orders(sessions[u].loaded)
                   /\ sessions[u].mounts = MountPlan(u, sessions[u].loaded, order)
  BY DEF IInv, AuthorizedMountsOnly, MountPlan
<1>3. CASE sessions[u].loaded = None
  BY <1>2, <1>3 DEF MountPlan
<1>4. CASE sessions[u].loaded # None
  <2>1. order \in Seq(Targets)
    BY <1>1, <1>2, <1>4, OrdersAreSequences
  <2>2. /\ sessions[u].mounts = <<XdgPath[u]>> \o order \o <<HomePath[u]>>
        /\ XdgPath[u] \in Targets /\ HomePath[u] \in Targets
    BY <1>1, <1>2, <1>4, SessionsAssumption DEF MountPlan
  <2>3. Len(order) \in Nat
    BY <2>1, LenProperties
  <2>4. QED
    BY <2>1, <2>2, <2>3
<1>5. QED
  BY <1>3, <1>4

\* session.rs:271, 311: until the service is stopped, as long as no directory has been
\* authorized for two users and no login of the user closes after a failed open,
\* whoever is logged in has the run-time directory; once no login is left or gone
\* without its close and no hook that opens or closes is at work, nothing is mounted
\* but what earlier processes have left and where an unmount has failed, however
\* often the service was restarted.
THEOREM MountsFollow == PamSpec /\ []OwnDirectories => []MountsFollowLogins
<1>1. ASSUME LInv, OwnDirectories, crashes = 0, NEW c \in Clients, pam[c].at = "in",
             pam[c].user \notin strays
      PROVE  pam[c].user \in Range(mtab[XdgPath[pam[c].user]])
  <2> DEFINE u == pam[c].user
  <2>1. u \in Users /\ Balanced(u) /\ u \notin strays
    BY <1>1 DEF LInv, LoginInv, CountInv
  <2>2. c \in CountedFor(u)
    BY <1>1 DEF CountedFor, Counted
  <2> HIDE DEF u
  <2>3. IsFiniteSet(CountedFor(u)) /\ Cardinality(CountedFor(u)) \in Nat
    BY CountedFinite, FS_CardinalityType
  <2>4. Cardinality(CountedFor(u)) # 0
    BY <2>2, <2>3, FS_EmptySet
  <2>5. u \in DOMAIN sessions
    BY <1>1, <2>1, <2>3, <2>4 DEF Balanced, Count
  <2>6. 1 \in DOMAIN sessions[u].mounts /\ sessions[u].mounts[1] = XdgPath[u]
    BY <1>1, <2>5, SessionHasXdg DEF LInv
  <2>7. u \in Range(mtab[sessions[u].mounts[1]])
    BY <1>1, <2>5, <2>6, GuardedMount DEF LInv
  <2>8. QED
    BY <2>6, <2>7 DEF u
<1>2. ASSUME LInv, MountsMatchGuards, NEW t \in Targets,
             \A c \in Clients :
                 pam[c].at \in {"out", "authenticated", "setcred", "failed"}
      PROVE  Cardinality({i \in DOMAIN mtab[t] : mtab[t][i] # Leftover}) = stuck[t]
  <2>1. IInv /\ TypeOK /\ HandlerInv /\ SessionsCounted /\ CallInv
    BY <1>2 DEF LInv, IInv
  <2>2. ASSUME NEW u \in DOMAIN sessions PROVE FALSE
    <3>1. u \in Users /\ Count(u) >= 1 /\ Count(u) \in Nat
      BY <2>1, CountChanges DEF TypeOK, SessionsCounted, Count
    <3>2. CountedFor(u) = {} /\ AbandonedFor(u) = {}
      BY <1>2 DEF CountedFor, AbandonedFor, Counted, Abandoned
    <3>3. Cardinality(CountedFor(u)) = 0 /\ Cardinality(AbandonedFor(u)) = 0
      BY <3>2, FS_EmptySet
    <3>4. QED
      BY <1>2, <3>1, <3>3 DEF LInv, CountInv, Balanced
  <2>3. Guards(t) = {}
    BY <2>2 DEF Guards
  <2>4. handler.mounted = <<>>
    <3>1. CASE handler.step = "open_mount"
      <4>1. /\ handler.client \in Clients /\ calls[handler.client] \in Calls
            /\ calls[handler.client].op = "open_user_session"
        BY <2>1, <3>1 DEF HandlerInv
      <4>2. "open_user_session" \in HookCalls(pam[handler.client].at)
        BY <2>1, <4>1, SessionsAssumption DEF CallInv
      <4>3. QED
        BY <1>2, <4>1, <4>2 DEF HookCalls
    <3>2. QED
      BY <2>1, <3>1 DEF HandlerInv
  <2>5. Cardinality(Guards(t)) = 0
    BY <2>3, FS_EmptySet
  <2>6. Occurrences(handler.mounted, t) = 0
    BY <2>4, OccurrencesEmpty
  <2>7. stuck[t] \in Nat
    BY <2>1 DEF TypeOK
  <2>8. Cardinality({i \in DOMAIN mtab[t] : mtab[t][i] # Leftover}) = 0 + 0 + stuck[t]
    BY <1>2, <2>5, <2>6 DEF MountsMatchGuards
  <2>9. QED
    BY <2>7, <2>8
<1>3. ASSUME LInv, crashes = 0, NEW t \in Targets PROVE Leftover \notin Range(mtab[t])
  <2>1. mtab[t] \in Seq(Users \cup {Leftover})
    BY <1>3 DEF LInv, IInv, TypeOK
  <2>2. DOMAIN mtab[t] = 1 .. Len(mtab[t])
    BY <2>1
  <2>3. QED
    BY <1>3, <2>2 DEF LInv, FirstRunInv, Range
<1>4. LInv /\ OwnDirectories /\ MountsMatchGuards => MountsFollowLogins
  BY <1>1, <1>2, <1>3 DEF MountsFollowLogins
<1>5. QED
  BY <1>4, LoginInvariance, PamImplementsSessions, MountsMatch, PTL
============================================================================
