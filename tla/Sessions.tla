------------------------------ MODULE Sessions ------------------------------
(***************************************************************************)
(* The session service (src/pam/session.rs, with mount_all of              *)
(* src/pam/mount.rs): the D-Bus object that hands out one-time tokens,     *)
(* opens a user's session (mounting the user's directories at the first    *)
(* open), counts the further opens and unmounts at the last close.         *)
(*                                                                         *)
(* The handlers initiate_session, open_user_session and close_user_session *)
(* take &mut self, so zbus runs one of them at a time. `handler` is the    *)
(* one that runs. A handler is cut into steps where it awaits (the key     *)
(* task, the lock of the authorization file) and between the mount system  *)
(* calls, so that everything outside the object - configuration files,     *)
(* authorizations, crashes, other callers queueing - interleaves there.    *)
(***************************************************************************)
EXTENDS MountPoints, Integers

CONSTANTS
    Names,         \* user names a caller may pass
    Users,         \* the names get_user_by_name resolves
    Clients,       \* D-Bus callers, each with at most one call outstanding
    Configs,       \* mount configurations a user's file may hold
    XdgPath,       \* [Users -> Targets]: the user's XDG run-time directory
    HomePath,      \* [Users -> Targets]: home directory of the account
    Below,         \* <<d, e>>: directory d lies below directory e
    Tokens,        \* one-time tokens that can be drawn (bounds their number)
    Faults,        \* the faults of the environment that can happen
    MaxCount,      \* bound: opens of one user, granted or requested
    MaxCrashes,    \* bound: stops of the service process
    None,          \* Rust's None: no mount configuration, no client
    Unreadable,    \* a user's file that cannot be read or parsed
    Garbage,       \* a payload that does not decrypt
    NoCall,        \* the client waits for nothing
    NoReply,       \* the client's last call has not been answered
    Leftover       \* owner of a mount whose service process is gone

\* The D-Bus methods and their arguments; of the encrypted payload only the
\* token it carries matters. "panicked" is a call whose handler has panicked: it
\* is not served any more.
Calls ==
    [op : {"initiate_session", "panicked"}]
        \cup [op : {"open_user_session"}, user : Names,
              otp : Tokens \cup {Garbage}]
        \cup [op : {"close_user_session", "is_user_polyauth_enabled"},
              user : Names]

\* ServiceOperationResult, as far as the service returns it, the empty string
\* of initiate_session, and the error zbus reports when the service is gone.
Results == {"Ok", "PubKeyError", "DataDecryptionFailed",
            "CannotLoadUserMountError", "MountError", "SessionAlreadyClosed",
            "CannotIdentifyUser", "EncryptionError", "UnauthorizedMount",
            "EmptyPrelude", "DBusError"}

AllFaults == {"key", "serialize", "auth_read", "mount", "crash"}

ASSUME SessionsAssumption ==
    /\ Users \subseteq Names
    /\ IsFiniteSet(Users) /\ IsFiniteSet(Clients)
    /\ Configs \subseteq MountPoints
    /\ XdgPath \in [Users -> Targets]
    /\ HomePath \in [Users -> Targets]
    /\ Below \subseteq Targets \X Targets
    /\ \A t \in Targets : <<t, t>> \notin Below
    /\ Faults \subseteq AllFaults
    /\ MaxCount \in Nat
    /\ MaxCrashes \in Nat
    /\ None \notin Configs \cup Clients
    /\ Unreadable \notin Configs \cup {None}
    /\ Garbage \notin Tokens
    /\ Tokens \cap (Results \cup {NoReply}) = {}
    /\ NoCall \notin Calls
    /\ Leftover \notin Users

VARIABLES
    service,          \* "Up" or "Down": the service process
    key_task,         \* the task that loads the RSA key: "Running", "Ok", "Err"
    priv_key,         \* RsaPrivateKeyFetchOpStatus: "InProgress", "Ready", or
                      \*   "Polled": InProgress with a consumed join handle
    one_time_tokens,  \* tokens handed out and not used yet
    sessions,         \* user -> UserSession, for the users with a session
    handler,          \* the &mut self handler that runs, and its locals
    calls,            \* client -> its outstanding call
    replies,          \* client -> the answer to its last call
    mtab,             \* target -> stack of mounts, each with its owner
    mount_cfg,        \* user -> mount configuration in the user's file
    authorizations,   \* user -> digests the administrator authorized
    stuck,            \* history: target -> unmounts that failed on it in this
                      \*   process of the service
    issued,           \* history: tokens ever drawn
    accepted,         \* history: token -> number of opens it was accepted for
    crashes           \* history: number of stops of the service

vars == <<service, key_task, priv_key, one_time_tokens, sessions, handler,
          calls, replies, mtab, stuck, mount_cfg, authorizations, issued,
          accepted, crashes>>

\* What no method of the object changes.
outside == <<service, key_task, mount_cfg, authorizations, crashes>>
tokens == <<one_time_tokens, issued, accepted>>
clients == <<calls, replies>>
kernel == <<mtab, stuck>>

-----------------------------------------------------------------------------
Digests == UNION {Hashes(m) : m \in Configs}

\* struct UserSession: the targets of its UnmountDrop guards and the count; the
\* configuration they were made from is kept for the properties.
UserSession ==
    [mounts : Seq(Targets), count : Int, loaded : Configs \cup {None}]

\* Where the handler stands and its locals: the configuration it loaded, the
\* iteration order of its pre-mounts and the mounts made so far.
Handler ==
    [step : {"idle", "initiate_key", "open_key", "open_auth", "open_mount"},
     client : Clients \cup {None}, loaded : Configs \cup {None},
     order : Seq(Targets), mounted : Seq(Targets)]

IdleHandler == [step |-> "idle", client |-> None, loaded |-> None,
                order |-> <<>>, mounted |-> <<>>]

NoSessions == [u \in {} |-> None]

Init ==
    /\ service = "Up" /\ crashes = 0
    /\ key_task = "Running" /\ priv_key = "InProgress"
    /\ one_time_tokens = {} /\ issued = {} /\ accepted = [t \in Tokens |-> 0]
    /\ sessions = NoSessions /\ handler = IdleHandler
    /\ calls = [c \in Clients |-> NoCall]
    /\ replies = [c \in Clients |-> NoReply]
    /\ mtab = [t \in Targets |-> <<>>] /\ stuck = [t \in Targets |-> 0]
    /\ mount_cfg \in [Users -> Configs \cup {None, Unreadable}]
    /\ authorizations = [u \in Users |-> {}]

-----------------------------------------------------------------------------
(* Callers. A client may call any method, in any order, with any of the    *)
(* tokens issued so far, used or not.                                      *)

Pending(op) == {c \in Clients : calls[c] # NoCall /\ calls[c].op = op}

Call(c, call) ==
    /\ calls[c] = NoCall
    /\ calls' = [calls EXCEPT ![c] = call]
    /\ replies' = [replies EXCEPT ![c] = NoReply]
    /\ UNCHANGED <<outside, priv_key, tokens, sessions, handler, kernel>>

CallInitiate(c) ==
    /\ Cardinality(issued) + Cardinality(Pending("initiate_session"))
            < Cardinality(Tokens)
    /\ Call(c, [op |-> "initiate_session"])

Count(u) == IF u \in DOMAIN sessions THEN sessions[u].count ELSE 0

CallOpen(c, u, otp) ==
    /\ Count(u) + Cardinality({d \in Pending("open_user_session") :
                                   calls[d].user = u}) < MaxCount
    /\ Call(c, [op |-> "open_user_session", user |-> u, otp |-> otp])

CallClose(c, u) == Call(c, [op |-> "close_user_session", user |-> u])

CallEnabled(c, u) == Call(c, [op |-> "is_user_polyauth_enabled", user |-> u])

-----------------------------------------------------------------------------
(* Pieces shared by the handlers.                                          *)

\* zbus starts the handler of c's call: the object is free.
Dispatch(c, op) == service = "Up" /\ handler.step = "idle" /\ c \in Pending(op)

Answer(c, result) ==
    /\ calls' = [calls EXCEPT ![c] = NoCall]
    /\ replies' = [replies EXCEPT ![c] = result]

\* The handler that holds the object returns.
Return(result) == Answer(handler.client, result) /\ handler' = IdleHandler

\* Sessions::fetch_priv_key. The first fetch awaits the join handle; a failed
\* task leaves InProgress in place although its handle has been consumed, and
\* awaiting such a handle again panics.
\* Mutant: the key is not kept after the first fetch.
FetchOkOnce ==
    /\ priv_key = "InProgress" /\ key_task = "Ok"
    /\ priv_key' = "Polled"

FetchOk ==
    /\ priv_key = "Ready" \/ (priv_key = "InProgress" /\ key_task = "Ok")
    /\ priv_key' = "Ready"

FetchErr ==
    /\ priv_key = "InProgress" /\ key_task = "Err"
    /\ priv_key' = "Polled"

\* The panic ends the task of this call, which is never answered. The object is
\* free again, and the next call that needs the key panics too.
FetchPanic ==
    /\ handler.step \in {"initiate_key", "open_key"}
    /\ priv_key = "Polled"
    /\ handler' = IdleHandler
    /\ calls' = [calls EXCEPT ![handler.client] = [op |-> "panicked"]]
    /\ UNCHANGED <<outside, priv_key, tokens, replies, sessions, kernel>>

\* How many of the guards in `held` are for t.
Occurrences(held, t) == Cardinality({i \in DOMAIN held : held[i] = t})

\* The guards whose unmount fails when the vector is dropped, first to last: a
\* directory above theirs was mounted after them and is still mounted when their
\* turn comes, so that their path leads into that file system, where nothing is
\* mounted on it.
Hidden(held) ==
    {i \in DOMAIN held : \E d \in Targets :
        /\ <<held[i], d>> \in Below
        /\ Occurrences(SubSeq(held, i + 1, Len(held)), d)
               > Occurrences(SubSeq(held, 1, i - 1), d)}

HiddenAt(held, t) == Cardinality({i \in Hidden(held) : held[i] = t})

\* Dropping UnmountDrop guards: each one unmounts whatever is on top at its
\* target; a failing unmount is ignored.
Unmount(table, held) ==
    [t \in Targets |->
        SubSeq(table[t], 1,
               Len(table[t]) - (Occurrences(held, t) - HiddenAt(held, t)))]

DropGuards(held) ==
    /\ mtab' = Unmount(mtab, held)
    /\ stuck' = [t \in Targets |-> stuck[t] + HiddenAt(held, t)]

-----------------------------------------------------------------------------
(* Sessions::initiate_session                                              *)

InitiateSession(c) ==
    /\ Dispatch(c, "initiate_session")
    /\ handler' = [IdleHandler EXCEPT !.step = "initiate_key", !.client = c]
    /\ UNCHANGED <<outside, priv_key, tokens, clients, sessions, kernel>>

InitiateToken(t) ==
    /\ handler.step = "initiate_key"
    /\ FetchOk
    /\ one_time_tokens' = one_time_tokens \cup {t}
    /\ issued' = issued \cup {t}
    /\ Return(t)
    /\ UNCHANGED <<outside, accepted, sessions, kernel>>

InitiateEmpty ==
    /\ handler.step = "initiate_key"
    /\ FetchErr \/ (FetchOk /\ "serialize" \in Faults)
    /\ Return("EmptyPrelude")
    /\ UNCHANGED <<outside, tokens, sessions, kernel>>

-----------------------------------------------------------------------------
(* Sessions::open_user_session                                             *)

\* Mutant: the unknown user is given a session.
OpenUnknownUserCounted(c) ==
    /\ Dispatch(c, "open_user_session")
    /\ calls[c].user \notin Users
    /\ sessions' = [u \in DOMAIN sessions \cup {calls[c].user} |->
                       [mounts |-> <<>>, count |-> 1, loaded |-> None]]
    /\ Answer(c, "Ok")
    /\ UNCHANGED <<outside, priv_key, tokens, handler, kernel>>

OpenUnknownUser(c) ==
    /\ Dispatch(c, "open_user_session")
    /\ calls[c].user \notin Users
    /\ Answer(c, "CannotIdentifyUser")
    /\ UNCHANGED <<outside, priv_key, tokens, sessions, handler, kernel>>

\* Mutant: a further open is not counted.
OpenAgainUncounted(c) ==
    /\ Dispatch(c, "open_user_session")
    /\ calls[c].user \in DOMAIN sessions
    /\ Answer(c, "Ok")
    /\ UNCHANGED <<outside, priv_key, tokens, sessions, handler, kernel>>

OpenAgain(c) ==
    /\ Dispatch(c, "open_user_session")
    /\ calls[c].user \in DOMAIN sessions
    /\ sessions' = [sessions EXCEPT ![calls[c].user].count = @ + 1]
    /\ Answer(c, "Ok")
    /\ UNCHANGED <<outside, priv_key, tokens, handler, kernel>>

OpenFirst(c) ==
    /\ Dispatch(c, "open_user_session")
    /\ calls[c].user \in Users \ DOMAIN sessions
    /\ handler' = [IdleHandler EXCEPT !.step = "open_key", !.client = c]
    /\ UNCHANGED <<outside, priv_key, tokens, clients, sessions, kernel>>

User == calls[handler.client].user
Otp == calls[handler.client].otp

OpenNoKey ==
    /\ handler.step = "open_key"
    /\ FetchErr
    /\ Return("PubKeyError")
    /\ UNCHANGED <<outside, tokens, sessions, kernel>>

\* The payload does not decrypt, or its token is not an outstanding one.
OpenBadOtp ==
    /\ handler.step = "open_key"
    /\ FetchOk
    /\ Otp \notin one_time_tokens
    /\ Return(IF Otp = Garbage THEN "DataDecryptionFailed" ELSE "EncryptionError")
    /\ UNCHANGED <<outside, tokens, sessions, kernel>>

\* Mutant: the token is looked up and not removed.
UseTokenKept ==
    /\ Otp \in one_time_tokens
    /\ accepted' = [accepted EXCEPT ![Otp] = @ + 1]
    /\ UNCHANGED <<one_time_tokens, issued>>

\* one_time_tokens.remove finds the token.
UseToken ==
    /\ Otp \in one_time_tokens
    /\ one_time_tokens' = one_time_tokens \ {Otp}
    /\ accepted' = [accepted EXCEPT ![Otp] = @ + 1]
    /\ UNCHANGED issued

OpenBadConfig ==
    /\ handler.step = "open_key"
    /\ FetchOk
    /\ UseToken
    /\ mount_cfg[User] = Unreadable
    /\ Return("CannotLoadUserMountError")
    /\ UNCHANGED <<outside, sessions, kernel>>

\* Nothing to authorize: go on to mount_all.
OpenNoMounts ==
    /\ handler.step = "open_key"
    /\ FetchOk
    /\ UseToken
    /\ mount_cfg[User] = None
    /\ handler' = [handler EXCEPT !.step = "open_mount"]
    /\ UNCHANGED <<outside, clients, sessions, kernel>>

\* The configuration is loaded into a new hash map, and its digest awaits the
\* lock of the authorization file.
OpenLoad ==
    /\ handler.step = "open_key"
    /\ FetchOk
    /\ UseToken
    /\ mount_cfg[User] \in Configs
    /\ \E order \in Orders(mount_cfg[User]) :
          handler' = [handler EXCEPT !.step = "open_auth", !.order = order,
                                     !.loaded = mount_cfg[User]]
    /\ UNCHANGED <<outside, clients, sessions, kernel>>

Digest == hash(handler.loaded, handler.order)

\* Mutant: the configuration is read again once it has been authorized.
OpenAuthorizedReload ==
    /\ handler.step = "open_auth"
    /\ Digest \in authorizations[User]
    /\ mount_cfg[User] \in Configs
    /\ \E order \in Orders(mount_cfg[User]) :
          handler' = [handler EXCEPT !.step = "open_mount", !.order = order,
                                     !.loaded = mount_cfg[User]]
    /\ UNCHANGED <<outside, priv_key, tokens, clients, sessions, kernel>>

OpenAuthorized ==
    /\ handler.step = "open_auth"
    /\ Digest \in authorizations[User]
    /\ handler' = [handler EXCEPT !.step = "open_mount"]
    /\ UNCHANGED <<outside, priv_key, tokens, clients, sessions, kernel>>

\* Not authorized, or the authorization file cannot be read.
OpenRefused ==
    /\ handler.step = "open_auth"
    /\ Digest \notin authorizations[User] \/ "auth_read" \in Faults
    /\ Return("UnauthorizedMount")
    /\ UNCHANGED <<outside, priv_key, tokens, sessions, kernel>>

\* mount_all: the run-time directory first, then the pre-mounts in iteration
\* order, the home directory last.
MountPlan(u, m, order) ==
    IF m = None THEN <<XdgPath[u]>>
    ELSE <<XdgPath[u]>> \o order \o <<HomePath[u]>>

Plan == MountPlan(User, handler.loaded, handler.order)

\* One mount system call succeeds: a guard for it joins the vector.
Mounted == Append(handler.mounted, Plan[Len(handler.mounted) + 1])

MountOne ==
    /\ handler.step = "open_mount"
    /\ mtab' = [mtab EXCEPT ![Plan[Len(handler.mounted) + 1]] = Append(@, User)]
    /\ UNCHANGED <<outside, priv_key, tokens, stuck>>

MountNext ==
    /\ MountOne
    /\ Len(Mounted) < Len(Plan)
    /\ handler' = [handler EXCEPT !.mounted = Mounted]
    /\ UNCHANGED <<clients, sessions>>

\* After the last mount the session is recorded.
MountLast ==
    /\ MountOne
    /\ Len(Mounted) = Len(Plan)
    /\ sessions' = [u \in DOMAIN sessions \cup {User} |->
                       IF u \in DOMAIN sessions THEN sessions[u]
                       ELSE [mounts |-> Mounted, count |-> 1,
                             loaded |-> handler.loaded]]
    /\ Return("Ok")

\* Mutant: the mounts made before the one that fails stay.
MountFailsLeak ==
    /\ handler.step = "open_mount"
    /\ "mount" \in Faults
    /\ Return("MountError")
    /\ UNCHANGED <<outside, priv_key, tokens, sessions, kernel>>

\* A mount fails: mount_all returns no guard, so the ones it made are dropped.
MountFails ==
    /\ handler.step = "open_mount"
    /\ "mount" \in Faults
    /\ DropGuards(handler.mounted)
    /\ Return("MountError")
    /\ UNCHANGED <<outside, priv_key, tokens, sessions>>

-----------------------------------------------------------------------------
(* Sessions::close_user_session                                            *)

CloseNone(c) ==
    /\ Dispatch(c, "close_user_session")
    /\ calls[c].user \notin DOMAIN sessions
    /\ Answer(c, IF calls[c].user \in Users THEN "SessionAlreadyClosed"
                 ELSE "CannotIdentifyUser")
    /\ UNCHANGED <<outside, priv_key, tokens, sessions, handler, kernel>>

\* Mutants: the count is decremented without testing for zero; every close
\* unmounts; every close ends the session.
CloseOneAnyCount(c) ==
    /\ Dispatch(c, "close_user_session")
    /\ calls[c].user \in DOMAIN sessions
    /\ sessions' = [sessions EXCEPT ![calls[c].user].count = @ - 1]
    /\ Answer(c, "Ok")
    /\ UNCHANGED <<outside, priv_key, tokens, handler, kernel>>

CloseOneUnmounts(c) ==
    /\ Dispatch(c, "close_user_session")
    /\ calls[c].user \in DOMAIN sessions
    /\ sessions[calls[c].user].count - 1 # 0
    /\ sessions' = [sessions EXCEPT ![calls[c].user].count = @ - 1]
    /\ DropGuards(sessions[calls[c].user].mounts)
    /\ Answer(c, "Ok")
    /\ UNCHANGED <<outside, priv_key, tokens, handler>>

CloseOneEnds(c) ==
    /\ Dispatch(c, "close_user_session")
    /\ calls[c].user \in DOMAIN sessions
    /\ sessions[calls[c].user].count - 1 # 0
    /\ sessions' = [u \in DOMAIN sessions \ {calls[c].user} |-> sessions[u]]
    /\ DropGuards(sessions[calls[c].user].mounts)
    /\ Answer(c, "Ok")
    /\ UNCHANGED <<outside, priv_key, tokens, handler>>

CloseOne(c) ==
    /\ Dispatch(c, "close_user_session")
    /\ calls[c].user \in DOMAIN sessions
    /\ sessions[calls[c].user].count - 1 # 0
    /\ sessions' = [sessions EXCEPT ![calls[c].user].count = @ - 1]
    /\ Answer(c, "Ok")
    /\ UNCHANGED <<outside, priv_key, tokens, handler, kernel>>

\* Mutant: the session is removed and its guards are forgotten.
CloseLastForgets(c) ==
    /\ Dispatch(c, "close_user_session")
    /\ calls[c].user \in DOMAIN sessions
    /\ sessions[calls[c].user].count - 1 = 0
    /\ sessions' = [u \in DOMAIN sessions \ {calls[c].user} |-> sessions[u]]
    /\ Answer(c, "Ok")
    /\ UNCHANGED <<outside, priv_key, tokens, handler, kernel>>

\* The count reaches zero: the session is removed and its guards are dropped.
CloseLast(c) ==
    /\ Dispatch(c, "close_user_session")
    /\ calls[c].user \in DOMAIN sessions
    /\ sessions[calls[c].user].count - 1 = 0
    /\ sessions' = [u \in DOMAIN sessions \ {calls[c].user} |-> sessions[u]]
    /\ DropGuards(sessions[calls[c].user].mounts)
    /\ Answer(c, "Ok")
    /\ UNCHANGED <<outside, priv_key, tokens, handler>>

-----------------------------------------------------------------------------
(* Sessions::is_user_polyauth_enabled. It takes &self, so it too waits for *)
(* a running handler. The authentication data of the user's file are left  *)
(* open here: an account may have a main password or not.                  *)

IsUserPolyauthEnabled(c) ==
    /\ Dispatch(c, "is_user_polyauth_enabled")
    /\ \/ calls[c].user \in Users /\ Answer(c, "Ok")
       \/ Answer(c, "CannotIdentifyUser")
    /\ UNCHANGED <<outside, priv_key, tokens, sessions, handler, kernel>>

-----------------------------------------------------------------------------
(* The surroundings: the key task, the users' files, the administrator and *)
(* the service process.                                                    *)

object == <<priv_key, sessions, handler, kernel>>

KeyTaskEnds ==
    /\ service = "Up" /\ key_task = "Running"
    /\ key_task' \in {"Ok"} \cup (IF "key" \in Faults THEN {"Err"} ELSE {})
    /\ UNCHANGED <<object, tokens, clients, service, mount_cfg, authorizations,
                   crashes>>

ChangeConfig(u, m) ==
    /\ mount_cfg[u] # m
    /\ mount_cfg' = [mount_cfg EXCEPT ![u] = m]
    /\ UNCHANGED <<object, tokens, clients, service, key_task, authorizations,
                   crashes>>

\* MountAuthDBus::authorize, atomic under the write lock of the file.
Authorize(u, digest) ==
    /\ service = "Up"
    /\ digest \notin authorizations[u]
    /\ authorizations' = [authorizations EXCEPT ![u] = @ \cup {digest}]
    /\ UNCHANGED <<object, tokens, clients, service, key_task, mount_cfg,
                   crashes>>

\* All guards the stored sessions hold for t.
Guards(t) ==
    UNION {{u} \X {i \in DOMAIN sessions[u].mounts : sessions[u].mounts[i] = t}
              : u \in DOMAIN sessions}

\* Those of them that are hidden.
HiddenGuards(t) ==
    {g \in Guards(t) : g[2] \in Hidden(sessions[g[1]].mounts)}

\* The process ends with `table` left in the kernel.
Stop(table) ==
    /\ "crash" \in Faults
    /\ service = "Up" /\ service' = "Down"
    /\ crashes < MaxCrashes /\ crashes' = crashes + 1
    /\ one_time_tokens' = {} /\ sessions' = NoSessions
    /\ handler' = IdleHandler
    /\ mtab' = [t \in Targets |-> [i \in DOMAIN table[t] |-> Leftover]]
    /\ stuck' = [t \in Targets |-> 0]
    /\ UNCHANGED <<key_task, priv_key, clients, mount_cfg, authorizations,
                   issued, accepted>>

\* The process is killed, or SIGTERM ends it before the objects are dropped.
Crash == Stop(mtab)

\* SIGTERM with no handler running: main drops the connection, and with it
\* the sessions and their guards.
Sigterm ==
    /\ handler.step = "idle"
    /\ DOMAIN sessions # {}
    /\ Stop([t \in Targets |->
                SubSeq(mtab[t], 1, Len(mtab[t])
                    - Cardinality(Guards(t) \ HiddenGuards(t)))])

\* Restart=always: systemd starts the service again; Sessions::new. By then the bus
\* has given up what the old process has taken and left unanswered.
Start ==
    /\ service = "Down" /\ service' = "Up"
    /\ Pending("panicked") = {}
    /\ key_task' = "Running" /\ priv_key' = "InProgress"
    /\ UNCHANGED <<tokens, clients, sessions, handler, kernel, mount_cfg,
                   authorizations, crashes>>

\* The bus reports an error for a call nobody is left to answer.
CallLost(c) ==
    /\ service = "Down"
    /\ calls[c] # NoCall
    /\ Answer(c, "DBusError")
    /\ UNCHANGED <<outside, object, tokens>>

-----------------------------------------------------------------------------
\* What a client starts.
ClientStep(c) ==
    \/ CallInitiate(c)
    \/ \E u \in Names, otp \in issued \cup {Garbage} : CallOpen(c, u, otp)
    \/ \E u \in Names : CallClose(c, u) \/ CallEnabled(c, u)

\* A call of c reaches its handler.
Handle(c) ==
    \/ InitiateSession(c)
    \/ OpenUnknownUser(c) \/ OpenAgain(c) \/ OpenFirst(c)
    \/ CloseNone(c) \/ CloseOne(c) \/ CloseLast(c)
    \/ IsUserPolyauthEnabled(c)

\* The handler that holds the object goes on.
Resume ==
    \/ \E t \in Tokens \ issued : InitiateToken(t)
    \/ InitiateEmpty \/ FetchPanic
    \/ OpenNoKey \/ OpenBadOtp \/ OpenBadConfig \/ OpenNoMounts \/ OpenLoad
    \/ OpenAuthorized \/ OpenRefused
    \/ MountNext \/ MountLast \/ MountFails

Surroundings ==
    \/ KeyTaskEnds
    \/ \E u \in Users, m \in Configs \cup {None, Unreadable} : ChangeConfig(u, m)
    \/ \E u \in Users, digest \in Digests : Authorize(u, digest)
    \/ Crash \/ Sigterm \/ Start

Next ==
    \/ \E c \in Clients : ClientStep(c) \/ Handle(c) \/ CallLost(c)
    \/ Resume
    \/ Surroundings

Spec == Init /\ [][Next]_vars

-----------------------------------------------------------------------------
(* Properties.                                                             *)

\* Every variable keeps its type, in particular across the steps of a handler
\* and across restarts of the service.
TypeOK ==
    /\ service \in {"Up", "Down"}
    /\ key_task \in {"Running", "Ok", "Err"}
    /\ priv_key \in {"InProgress", "Ready", "Polled"}
    /\ one_time_tokens \subseteq Tokens
    /\ DOMAIN sessions \subseteq Users
    /\ sessions \in [DOMAIN sessions -> UserSession]
    /\ handler \in Handler
    /\ calls \in [Clients -> Calls \cup {NoCall}]
    /\ replies \in [Clients -> Results \cup Tokens \cup {NoReply}]
    /\ mtab \in [Targets -> Seq(Users \cup {Leftover})]
    /\ stuck \in [Targets -> Nat]
    /\ mount_cfg \in [Users -> Configs \cup {None, Unreadable}]
    /\ authorizations \in [Users -> SUBSET Digests]
    /\ issued \subseteq Tokens
    /\ accepted \in [Tokens -> Nat]
    /\ crashes \in Nat

\* session.rs:215: the check of the one-time token lets each token through at
\* most once, whatever is resent, however opens interleave with crashes.
TokenAcceptedOnce == \A t \in Tokens : accepted[t] <= 1

\* session.rs:243: what a session has mounted besides the run-time directory
\* is a configuration whose digest the administrator authorized for that very
\* user, although the user's file may change between the load, the check and
\* the mounts, and after them.
AuthorizedMountsOnly ==
    \A u \in DOMAIN sessions :
        /\ sessions[u].loaded = None => sessions[u].mounts = <<XdgPath[u]>>
        /\ sessions[u].loaded # None =>
               \E order \in Orders(sessions[u].loaded) :
                   /\ hash(sessions[u].loaded, order) \in authorizations[u]
                   /\ sessions[u].mounts = MountPlan(u, sessions[u].loaded, order)

\* session.rs:309: a stored session counts at least one open, so that the
\* decrement of the unsigned counter never wraps and the session of a user
\* who closed as often as he opened is gone.
SessionsCounted == \A u \in DOMAIN sessions : sessions[u].count >= 1

\* pam/mount.rs:167 and session.rs:311: at every target there are exactly as
\* many mounts of this service process as there are guards for it, in the
\* sessions and in the open that is under way, and unmounts that failed because
\* the target was hidden: no failed open and no close leaves any other mount
\* behind or unmounts once too often.
MountsMatchGuards ==
    \A t \in Targets :
        Cardinality({i \in DOMAIN mtab[t] : mtab[t][i] # Leftover})
            = Cardinality(Guards(t)) + Occurrences(handler.mounted, t) + stuck[t]

\* session.rs:311: "due to how directories are mounted discarding the session
\* also umounts all mount points". When a session ends while the process goes on,
\* nothing stays mounted for its user. (Below must be empty: a hidden directory
\* stays mounted.)
DiscardingUnmountsAll ==
    [][\A u \in DOMAIN sessions \ DOMAIN sessions' :
          service' = "Up" => \A t \in Targets : u \notin Range(mtab'[t])]_vars

\* session.rs:311: while a user has a session, each directory it mounted is
\* still mounted for that user.
SessionMountsPresent ==
    \A u \in DOMAIN sessions :
        \A t \in Range(sessions[u].mounts) : u \in Range(mtab[t])

\* The step answers c's call.
Answers(c) == calls[c] # NoCall /\ calls'[c] = NoCall

\* session.rs:192, 309: a session and its mounts stay as the first open made
\* them, whatever other users do meanwhile, until a close for this very user is
\* answered when the count is one, or the process ends.
MountsHeldUntilLastClose ==
    [][\A u \in DOMAIN sessions :
          \/ u \in DOMAIN sessions' /\ sessions'[u].mounts = sessions[u].mounts
          \/ /\ sessions[u].count = 1
             /\ \E c \in Pending("close_user_session") :
                   calls[c].user = u /\ Answers(c)
          \/ service' = "Down"]_vars

\* lib.rs:334: whoever is told Ok by open_user_session finds a session that
\* counts the login, and whoever is told an error has left the sessions alone.
OpenAnswersAreTrue ==
    [][\A c \in Clients, u \in Users :
          /\ Answers(c)
          /\ calls[c].op = "open_user_session"
          /\ calls[c].user = u
          => \/ replies'[c] = "Ok" /\ Count(u)' = Count(u) + 1
             \/ replies'[c] # "Ok" /\ sessions' = sessions]_vars

\* Manual/README.md:343: "Authorize a user to mount configured devices on each
\* login". A configuration that has been authorized and is unchanged is not
\* refused while the authorization file can be read.
AuthorizedConfigAccepted ==
    [][\A c \in Clients :
          Answers(c) /\ replies'[c] = "UnauthorizedMount" =>
              Hashes(handler.loaded) \cap authorizations[User] = {}]_vars
=============================================================================
