# A TLA+ verification project for polyauth

polyauth (the crate `pam_polyauth`) logs users in through PAM with a main
password and any number of secondary ones, and mounts a user's home directory
and other devices while the user has a session. This directory models the
parts of it that hold state, checks them with TLC on small instances and proves
properties of the session service, its mounts, the logins, the authorization
store, the authentication data, `polyauthctl` and the encryption of passwords in
transit with TLAPS for all instances.
Paths are relative to the repository.

## 1. Inventory

| Component | State | Operations | Correct when |
|---|---|---|---|
| Session service, `src/pam/session.rs` | RSA key status, one-time tokens, sessions (count and unmount guards per user) | `initiate_session`, `open_user_session`, `close_user_session`, `is_user_polyauth_enabled` on the D-Bus | tokens are accepted once; only authorized configurations are mounted; mounts exist exactly while a session counts them; every call is answered |
| Mounting, `src/pam/mount.rs` 79-244 | the kernel's mount table | `mount_xdg`, `mount_all`, drop of `UnmountDrop` | a failure undoes what was mounted; a close unmounts what its session mounted |
| Mount authorizations, `src/pam/mount.rs` 246-379, `src/pam/disk.rs` | one JSON file, one `RwLock` | `authorize`, `check`, the test of `open_user_session` | callers see an atomic store; what was acknowledged stays |
| Mount configuration, `src/mount.rs` | home mount, hash map of pre-mounts | `foreach`, `hash` | equal configurations have equal digests |
| Authentication data, `src/user.rs`, `src/auth.rs` | main password and intermediate key (hash, ciphertext, salt), list of secondary methods | `set_main`, `add_secondary_password`, `main_by_auth`, `check_main` | a method opens the account for as long as it is there, and yields the current main password |
| PAM module, `src/lib.rs` | data attached to the PAM handle | `sm_authenticate`, `sm_open_session`, `sm_close_session`, `sm_setcred` | logins succeed with a registered secret only; each login that opened a session closes it |
| Service process, `src/bin/pam_polyauth-service/main.rs` | - | start, SIGTERM | a stop drops the sessions' guards |
| Storage, `src/storage.rs` | one JSON file per user: authentication, mounts, session command | load and store of each part | a store keeps the other parts |
| `polyauthctl`, `src/bin/polyauthctl/main.rs` | - | setup, add, reset, set-session, set-home-mount, set-pre-mount, authorize, inspect | commands change what they name and nothing else |
| Session prelude, `src/pam/security.rs` | - | `encrypt`, `decrypt` | what was encrypted is decrypted |

How they interact. A PAM client authenticates against the user's file, keeps
the main password in the PAM handle, asks the service for a prelude (public key
and token), and calls `open_user_session` with token and password encrypted. The
service loads the user's mount configuration from the user's file, asks the
authorization store whether root approved its digest, and mounts. `polyauthctl`
changes the user's file at any time and calls `authorize` at the service.

What is hard here: the handlers await (the key task, the lock of the
authorization file) between reading a value and using it; several clients queue
for one object; two D-Bus objects share one file lock; mounts of several users
may stack on one directory and a guard unmounts whatever is on top; a hash map
is iterated in two processes; the process may stop between any two steps while
the kernel keeps the mounts and the disk keeps half a file.

## 2. Modules

| Module | Models | Uses |
|---|---|---|
| `MountPoints` | configuration and its changes, iteration orders, digest | |
| `Sessions` | the session object, `mount_all`, the process, the environment | `MountPoints` |
| `PamSessions` | logins through the PAM hooks as the clients of `Sessions`, and the key file its key task loads | `Sessions` |
| `AuthStore` | what the authorization store promises (abstract, atomic) | |
| `MountAuth` | how it does it: locks and file steps; implements `AuthStore` | `AuthStore` |
| `AuthData` | the authentication data of a user as a value, and its operations | |
| `UserAuth` | the life of that data, and `sm_authenticate` | `AuthData` |
| `Storage` | the file of a user: what a load makes of it, what a store leaves | `AuthData`, `MountPoints` |
| `Polyauthctl` | the commands, interleaved, on the users' files | `Storage` |
| `Prelude` | `encrypt` and `decrypt` | |
| `SessionsProofs`, `MountProofs` | theorems about `Sessions`: handler and tokens; the mount table | `Sessions` |
| `PamProofs` | theorems about `PamSessions`: refinement and key; counts and mounts of logins | `PamSessions`, `MountProofs` |
| `MountAuthProofs` | theorems about `MountAuth` | `MountAuth` |
| `AuthDataProofs` | lemmas about the operations on authentication data | `AuthData` |
| `UserAuthProofs`, `PolyauthctlProofs` | theorems about `UserAuth` and `Polyauthctl` | `AuthDataProofs` |
| `PreludeProofs` | theorems about `Prelude` | `Prelude` |
| `MCSessions`, `MCPamSessions`, `MCMountAuth`, `MCUserAuth`, `MCPolyauthctl`, `MCPrelude` | instances for TLC | |

### MountPoints
A configuration is the record of `home` and `mounts` (directory to parameters).
A Rust `HashMap` iterates in an order that depends on the instance, so `hash`
and `foreach` take the order as an argument, and whoever loads a configuration
picks one of `Orders(m)`. The digest is taken as injective in what it hashes;
the collisions a 64-bit digest can have, and the missing separators between the
home fields, are not modelled.

### Sessions
One handler with `&mut self` runs at a time (zbus holds the object's lock), so
`handler` is one record: where it stands, whose call it serves and its locals.
It is cut into steps at the awaits and between the mount calls:
`OpenFirst` (up to the key), `OpenNoKey`/`OpenBadOtp`/`OpenBadConfig`/
`OpenNoMounts`/`OpenLoad` (key, token and configuration, no await in between),
`OpenAuthorized`/`OpenRefused` (after the lock of the authorization file),
`MountNext`/`MountLast`/`MountFails`. Branches without an await (`OpenAgain`,
`OpenUnknownUser`, all of `close_user_session`) are one step each.

`mtab` maps a directory to the stack of mounts there with the user they were
made for; a guard pops the top. `priv_key = "Polled"` is `InProgress` with a join
handle that has been awaited to an error. `Stop` is the end of the process,
`Sigterm` with the connection and so the guards dropped first, `Crash` without;
mounts that remain belong to nobody (`Leftover`). A panic in a handler (`FetchPanic`)
ends the task of that call: its lock on the object is released and later calls are
served, but the call itself is never answered and is marked `panicked`; its caller
gets an error from the bus when the process ends, before another starts (`Start`).

Guards are dropped in the order the mounts were made and unmount by path, and an
unmount that fails is ignored. `Below` says which directory lies in which. A guard
whose directory lies below one that was mounted later and is still mounted
(`Hidden`) finds nothing to unmount under its path, so its mount stays; `stuck`
counts such mounts. That happens at a close, after a failed `mount_all` and at a SIGTERM.

Clients may call any method with any token issued so far, used or not: the PAM
module is one such client, in `PamSessions`. The administrator authorizes any digest and users
change their files at any moment. Of `password` only the token matters and
whether it decrypts (`Garbage`). `OpenAgain`, like the code, counts a further open
without looking at its token, which stays available. `issued`, `accepted` and `crashes` are history.
`UserSession.loaded` is kept for the properties.

### MountAuth and AuthStore
A task is a call in progress. `Enter` takes the lock of the D-Bus object
(`authorize` excludes `check` and itself; `open` runs in the other object),
`Acquire` the `RwLock`, and the file is accessed in the steps of
`read_file_or_create_default` (test, create, write the default, or read) and
`write_auth_file` (truncate, write). `Torn` is a file that does not parse. `check`
first sleeps for a second with tokio's timer (`Sleep`). `TokioTimer` says whether the
handlers run in a tokio runtime, as in the tests, or on the thread of zbus's own
executor, as in the service (`Cargo.toml:35`); there the sleep panics, which frees the
object and leaves the call unanswered until its caller goes away (`Leave`).
`Store` maps the steps to `AuthStore`: while the file is being rewritten it
stands for what it held before.

### PamSessions
`PamSessions` keeps the service of `Sessions` as it is and replaces its arbitrary
clients by logins. A client is a PAM application with one handle; `pam` holds
the hook it is in. A hook is cut where it waits in `block_on`: it sends a call
(`sm_setcred`, `sm_open_session`, `sm_close_session`) and goes on when it is
answered (`SetcredAnswered`, `PreludeReceived` or `NoPrelude`, `OpenAnswered`,
`CloseAnswered`). The application gives up when setting credentials fails. After a
failed open it ends (`EndAfterFailedOpen`) or, the module being optional in its
stack, goes on and closes all the same (`CloseAfterFailedOpen`); `strays` remembers
for whom. Every hook may fail before its call is sent (`NotSent`: `get_user`,
`Connection::session`, `SessionsProxy::new`) and lose its connection while it waits
(`Disconnected`), and the application may be killed at any time (`Killed`); a call
that was sent is still served. The phase `in` means that the service has granted the
open; `dead` are applications that were killed or went without waiting for an
answer or without sending their close.

The key task, one step in `Sessions`, is the steps of
`read_file_or_create_default` here: look for the file, read it, or generate a key,
create the file and write it; each may fail, and the service may be stopped in
between and started again, with the file as it was left. A key is named by the
process that generated it. `served` records the keys of the preludes.

### AuthData and UserAuth
Cryptography is symbolic: a bcrypt hash remembers secret and salt, a ciphertext
its key and plaintext. Functions that return `Result` return `None` for `Err`; a
method that changes the data is a predicate (when it succeeds) and a set of
outcomes. bcrypt compares the first 72 bytes of a secret only: `First72` gives them,
and `bcrypt_verify` accepts a secret that agrees there, while the key of the cipher
is derived from the whole. `UserAuth` runs these operations on one user's data; `Polyauthctl` runs
the same operators on what it loaded from a file. `check_main` hashes anew with a
salt of its own, as bcrypt does.

### Storage and Polyauthctl
A file is `Missing`, `Torn` (it does not parse) or the record of session command,
authentication data and mounts; authentication data that parses as JSON and does
not decode is `Undecodable`. An invocation loads the authentication data, then
the mounts (`LoadAuth`, `LoadMounts`), runs its command on memory and leaves the
file accesses it still has to make in `todo`. A store is three steps: `Reload`
(read the file again and replace one part), `Truncate`, `Write`. There is no lock
in the code and none here: the steps of all processes interleave. `handle` says what
became of a file since a process truncated it: two that write it at once may leave
the end of the longer text behind the shorter, which does not parse (`Write`), and what
is written to a file that was removed meanwhile is lost (`WriteUnlinked`). The options
that decide which file is used (`-c`, `-u`, the caller) are those of the code,
with its differences between commands: `storage_source`, `setup_storage_source`,
`AuthorizeUser`. `before` holds the files as an invocation found them, for as long
as no other process changed one; the properties about single commands are stated
for invocations that were alone.

### Prelude
The lengths of the code (255, 8, 12, 16, 512) are constants. A ciphertext is a
sequence of cells that say what was encrypted with which key and nonce and where
in the block the cell stands, so a block opens only whole and with its own key.
Padding, mixing, header and slicing are the byte arithmetic of the code, its loops
(`header_value`, `filter_map`) are recursive functions over the position, and a
slice out of range is a panic (`in_range`). Messages are those `encrypt` makes, whole or cut
at any place; the service may have another key by then.

## 3. Runs

| Run | Shows | Bounds |
|---|---|---|
| `sessions_core` | types, `AuthorizedMountsOnly`, `SessionsCounted`, `MountsMatchGuards`, `OpenAnswersAreTrue` with failing serialization, authorization reads and mounts | 2 clients, 1 user and 1 unknown name, 2 tokens, counts up to 2, two configurations, one of them mounting the home directory twice and a directory in it |
| `sessions_restart` | `TokenAcceptedOnce`, `SessionMountsPresent`, `MountsMatchGuards`, `MountsHeldUntilLastClose`, `DiscardingUnmountsAll` with crash, SIGTERM, failing key | 2 clients, 2 users with directories of their own, none below another, 2 tokens, 1 stop |
| `pam_logins` | types, `LoginsCounted`, `MountsFollowLogins`, `OneKey`, `HooksReturnGivenKey` | 2 logins of 1 user without mounts of its own, 2 tokens, applications killed, calls not sent and answers lost, closes after failed opens, 1 stop, failing key file |
| `mount_auth_atomic` | `Atomic` (refinement), `AcknowledgedKept`, `WriterAlone` | 3 calls at a time, 2 grants, read errors |
| `mount_auth_crash` | types, `NoPhantomGrant`, `EveryCallAnswered` | 2 calls at a time, all faults, 1 crash, no tokio timer; `mount_auth_atomic` has one |
| `user_auth_login` | types, `AuthYieldsMain`, `MethodsKeepWorking`, `IntermediateKeyFixed`, `LoginNeedsSecret` | 4 secrets (one the empty string) that differ in their first 72 bytes, 2 salts, 2 methods |
| `polyauthctl_commands` | types, `PartsKept`, `ErrorsChangeNothing`, `AddedMethodOpens`, `SetupKeepsExistingKey`, `MethodsBelongTogether`, `GrantsAreOwnMounts` | 2 processes, 2 invocations out of 17, the user's file and one for `-c`, each absent, configured or undecodable at first; kills, failing writes and bus, mistyped confirmations |
| `prelude_codec` | types, `DeliveredAsSent`, `HonestArrives`, `CutIsRefused` | token of 2 bytes of 2 bits, all passwords of 0 to 3 bytes, 2 RSA keys, an RSA block whose length needs two header bytes |

Why the bounds are enough. Two clients give every pair of a running handler and
a queued call; a third would only queue. Count 2 separates the first, a middle
and the last close. Two tokens let one be used while the other is outstanding
or presented again. One stop reaches every step of a handler and of the key
task, and a second process after it; the state it leaves (mounts, tokens given
out, a file) does not grow qualitatively with a second one. The mounts of a user
are the subject of the `Sessions` runs, so `pam_logins` leaves only the run-time
directory. Four secrets keep main password, intermediate key, method password
and the empty string distinct, or let them coincide. Two invocations of
`polyauthctl` give every overlap of two, every command after every other, and every
command on what a killed one left. `prelude_codec` has one password length beyond
the limit, every header digit and every place to cut. `sessions_core` has
pre-mounts on the home directory and in it, so that unmounts fail there and
`MountsMatchGuards` counts the mounts that stay; `sessions_restart` has neither, so that
`DiscardingUnmountsAll` holds there; with a pre-mount in the home directory it does
not, below. `polyauthctl_commands` has users who run
`setup` themselves, so `SetupKeepsExistingKey` holds there; for the administrator it
does not, below.

Symmetry is used in safety runs only, over clients and tokens, tasks and
grants, non-empty secrets and salts; no definition tells their members apart.

Runs that end in a violation state what a document or comment of the repository
says and the code does not do:

| Run | Statement | What the code does |
|---|---|---|
| `sessions_digest_violation` | an authorized, unchanged configuration is accepted (`Manual/README.md:343`) | with two pre-mounts the digest depends on the iteration order (`src/mount.rs:123`), so it can be refused |
| `sessions_shared_violation` | a session's mounts stay until its close (`src/pam/session.rs:311`) | with a shared pre-mount directory the first close unmounts what the other user mounted on top |
| `pam_key_violation` | the service answers even when it has no key (`src/lib.rs:130`) | a stop between creation and write of the key file (`src/pam/disk.rs:57`) leaves one that does not parse; after the restart the second fetch of the key awaits a consumed handle and panics (`src/pam/session.rs:113`), and the login waits forever |
| `polyauthctl_setup_violation` | `setup` fails if an intermediate key exists (`Manual/README.md:114`) | it tests the file of whoever runs it (`src/bin/polyauthctl/main.rs:224`, `358`) and stores into that of the user given with `-u` |

What else the code does that a reader may not expect; the properties are stated
around it:

- `write_auth_file` truncates before it writes: a crash in between loses all
  authorizations, against "This authorization persists across reboots"
  (`Manual/README.md:369`). `AcknowledgedKept` is checked and proved without crashes.
- `add_secondary_password` accepts the main password for the intermediate key
  (`src/user.rs:302`); such a method dies with that password. `MethodsKeepWorking` is
  about methods that hold the intermediate key.
- A pre-mount in the home directory is hidden by the home mount made after it. Its
  guard is dropped first (`src/pam/mount.rs:204`), the unmount fails, the error is ignored
  and the mount stays when the session is gone, against `src/pam/session.rs:311`. Of the
  properties, `MountsMatchGuards` counts it, and `DiscardingUnmountsAll` is checked and
  proved without nested directories; with `Below <- InHome` TLC refutes it.
- `check` panics in the service, where tokio's timer is not available
  (`src/pam/mount.rs:368`), and is never answered; the tests run it in a tokio runtime
  (`src/tests/pam/mount.rs:71`). `EveryCallAnswered` says that the other calls are.
- `set_main` tests the intermediate key with bcrypt (`src/user.rs:391`), so that one that
  agrees with the current key in the first 72 bytes is accepted and takes its place,
  against `README.md:32`; methods that hold the old key then open nothing. The
  properties of `UserAuth` are checked and proved for secrets that bcrypt tells apart.
- `check_main` compares two hashes with different salts and so rejects the stored
  password; nothing calls it.
- A file cut short by a kill stays so: no command repairs it, `reset`
  included, since `load_user_mountpoints` ends the program first
  (`src/bin/polyauthctl/main.rs:239`), against `Manual/README.md:563`.
- Overlapping invocations may lose one another's changes, and one that loaded
  before a `reset` brings the old key back. `MethodsBelongTogether` says what is kept.
- Authentication data that does not decode is replaced by none by the first
  command that stores (`src/bin/polyauthctl/main.rs:235`); `PartsKept` and
  `AddedMethodOpens` except it.
- `add -p` changes the main password, and a method that was added with the old one in
  the place of the intermediate key stops working. `AddedMethodOpens` promises all
  other secrets that they still open the account.
- A short write is answered Ok and leaves a file that does not parse
  (`src/pam/mount.rs:307`): the authorizations are lost. `NoPhantomGrant` says that
  such a file grants nothing.
- A close that is never sent leaves its login counted and its mounts in place until
  the service ends, and the close of a login whose open failed takes away the count
  of another. `LoginsCounted` and `MountsFollowLogins` say what holds beside these.
- After a restart of the service, the close of a login from before it takes away
  the session of a newer login (`src/pam/session.rs:308`), whose directories are
  unmounted under it. So `LoginsCounted` and `MountsFollowLogins` promise a login its
  count and its mounts in the first process only; that a count is never too high, and
  that nothing is left mounted once all logins are gone, holds after restarts too.

### Fairness
`PamSessions`: weak fairness of the running handler, the key task, a hook that has
its answer, the restart (the unit says `Restart=always`) and bus errors for calls
to a stopped service; strong fairness for the start of each queued call, since
the object's lock is handed out in order of arrival. Users, applications,
faults and the administrator are not fair. `MountAuth`: strong fairness of each
task, because both locks are queues and a waiting task is enabled again and
again, not continuously; the callers, and whether one gives up (`Leave`), are not fair.

## 4. Proofs

All theorems hold for every value of the constants that satisfies the modules'
assumptions: any sets of users, clients, tokens, directories, configurations,
tasks, grants, secrets and salts, any lengths of token, header and blocks, any
bounds and, unless said otherwise, all faults.

| Theorem | Statement |
|---|---|
| `SessionsProofs!TypeCorrect` | `Spec => []TypeOK` |
| `SessionsProofs!TokensAcceptedOnce` | `Spec => []TokenAcceptedOnce` |
| `SessionsProofs!MountsAuthorized` | `Spec => []AuthorizedMountsOnly` |
| `SessionsProofs!CountsPositive` | `Spec => []SessionsCounted` |
| `SessionsProofs!MountsHeld` | `Spec => MountsHeldUntilLastClose` |
| `MountProofs!MountsMatch` | `Spec => []MountsMatchGuards` |
| `MountProofs!MountsPresent` | `Spec /\ []OwnDirectories => []SessionMountsPresent` |
| `MountProofs!OpensAnsweredTruly` | `Spec => OpenAnswersAreTrue` |
| `MountProofs!DiscardUnmounts` | `Spec /\ []OwnDirectories => DiscardingUnmountsAll`, if `Below = {}` |
| `PamProofs!PamImplementsSessions` | `PamSpec => Spec` |
| `PamProofs!PamTypeCorrect` | `PamSpec => []PamTypeOK` |
| `PamProofs!LoginMountsAuthorized` | `PamSpec => []AuthorizedMountsOnly` |
| `PamProofs!KeyNeverChanges` | `PamSpec => []OneKey` |
| `PamProofs!LoginsAreCounted` | `PamSpec => []LoginsCounted` |
| `PamProofs!MountsFollow` | `PamSpec /\ []OwnDirectories => []MountsFollowLogins` |
| `MountAuthProofs!TypeCorrect` | `Spec => []TypeOK` |
| `MountAuthProofs!WritersAlone` | `Spec => []WriterAlone` |
| `MountAuthProofs!NoPhantomGrants` | `Spec => []NoPhantomGrant` |
| `MountAuthProofs!AuthorizationsKept` | `Spec => []AcknowledgedKept`, if `Reliable` |
| `MountAuthProofs!StoreIsAtomic` | `Spec => Atomic`, if `Reliable` |
| `UserAuthProofs!TypeCorrect` | `Spec => []TypeOK` |
| `UserAuthProofs!YieldsMain` | `Spec => []AuthYieldsMain`, if `SecretsDiffer` |
| `UserAuthProofs!MethodsWork` | `Spec => []MethodsKeepWorking`, if `SecretsDiffer` |
| `UserAuthProofs!KeyFixed` | `Spec => IntermediateKeyFixed`, if `SecretsDiffer` |
| `UserAuthProofs!LoginsNeedSecret` | `Spec => LoginNeedsSecret`, if `SecretsDiffer` |
| `PolyauthctlProofs!CtlTypeCorrect` | `Spec => []TypeOK` |
| `PolyauthctlProofs!GrantsAreOwn` | `Spec => []GrantsAreOwnMounts` |
| `PolyauthctlProofs!MethodsTogether` | `Spec => []MethodsBelongTogether`, if `SecretsDiffer` and `KeysDistinct` |
| `PolyauthctlProofs!ErrorsAreClean` | `Spec => []ErrorsChangeNothing` |
| `PolyauthctlProofs!PartsAreKept` | `Spec => []PartsKept` |
| `PolyauthctlProofs!AddedOpens` | `Spec => []AddedMethodOpens`, if `SecretsDiffer` |
| `PolyauthctlProofs!SetupKeepsKey` | `Spec => []SetupKeepsExistingKey`, if `SetupsAreOwn` |
| `PreludeProofs!PreludeTypeCorrect` | `Spec => []TypeOK` |
| `PreludeProofs!Delivered` | `Spec => []DeliveredAsSent` |
| `PreludeProofs!Arrives` | `Spec => []HonestArrives` |
| `PreludeProofs!CutsRefused` | `Spec => []CutIsRefused` |

Assumptions: `TargetsAssumption` (finitely many directories),
`SessionsAssumption`, `PamAssumption`, `MountAuthAssumption`, `AuthDataAssumption`,
`UserAuthAssumption`, `StorageAssumption`, `PolyauthctlAssumption` and
`PreludeAssumption`. They say that
the special values (`None`, `Torn`, `NoReply`, error codes) differ from the values
they are not, that users and clients are finitely many, that configurations
are configurations, that a service that may crash may also fail to load its
key, that an invocation of `polyauthctl` has what its command needs, from its
options or from a prompt, that the length of an RSA block fits the header (a `u64`),
that a password, a C string, holds no zero byte, and that a token has the length the
service draws.

Some theorems hold under a condition of their own, each for a reason in the code:

- `Reliable`: files can be written and the process does not die; reading may fail.
  `write_auth_file` truncates before it writes, so without it acknowledged
  authorizations are lost.
- `OwnDirectories`: among the run-time and home directories and the pre-mounts of
  what has been authorized so far, no directory belongs to two users.
  It is a condition on behaviours, on what the administrator authorizes, not on
  the constants. `sessions_shared_violation` shows what happens without it.
- `Below = {}`: no directory lies below another; section 3 says what happens
  otherwise. `MountsMatch` and `MountsFollow` do not need it.
- `SecretsDiffer`: no two secrets agree in their first 72 bytes; section 3 says what
  happens otherwise.
- `KeysDistinct`: no main password is the intermediate key of some `setup`, and the
  files that are there at first are sound. If one were, a method added with the main
  password in the place of the key would be taken for one that holds the key.
- `SetupsAreOwn`: who runs `setup` without `-c` sets up the own account;
  `polyauthctl_setup_violation` shows what happens otherwise.

The runs of the properties in question satisfy these conditions, and every one of
them is satisfied by instances with faults, crashes and several processes.

**Sessions.** The inductive invariant is `IInv`: `TypeOK`, `SessionsCounted` and
`AuthorizedMountsOnly` with two strengthenings. `HandlerInv` says what each step
of the handler knows: the call it serves, that its user has no session yet, that
after the authorization the digest of what it loaded is an authorized one, and
that the mounts made are a prefix of the plan. Without it nothing relates what
`MountLast` records to what `OpenAuthorized` checked some steps earlier.
`TokenInv` says that an available token was issued and has not been accepted; a
bound on `accepted` alone is not preserved by `UseToken`. `AuthorizationsGrow`
(no step revokes an authorization) carries `HandlerInv` across the other actors'
steps. Each of the five parts has a lemma `...Step` with one case per action.

**Mounts.** `MountsMatchGuards` counts mounts and is not inductive: a guard pops
whatever is on top. `TableInv` says how every stack is built: first what an
earlier process left, then exactly one mount for each guard of a session,
each mount a handler has made so far and each unmount that failed. So a guard always finds a mount of this
process (`StackPop`), and a failing `mount_all` and a last close take away as many
as were made; the guards of a directory are a finite set whose cardinality
the steps change by one (`GuardsFinite`). `SessionMountsPresent` also needs whose
mount it is: `OwnerInv` says that a mount stands on a directory of the user it was
made for, which `OwnDirectories` turns into: all mounts of this process on a
directory are one user's, and there is one for each guard. `DiscardUnmounts` adds that
without nested directories nothing is ever stuck, so that at a last close as many
mounts of the user are taken away as there are. `OpenAnswersAreTrue` is about the
step that answers and follows from `HandlerInv`.

**PamSessions.** `PamImplementsSessions` shows that each step of a login or of the
key file is a step of `Sessions` or leaves its variables alone, so what is proved
there holds of logins; `LoginMountsAuthorized` is an instance. That the calls are
allowed there needs `LoginInv`: a hook that calls names an account, and a token
a client was told has been issued. `OneKey` needs `KeyInv`: a key in use is the
one in the file, what was served is what the file holds, so that a file that
is missing or torn has never been served from, and the key task creates a file
only where there was none.

**Logins.** A count is kept by the service and the logins by the applications, so
`LoginsCounted` is not inductive at the steps in between: a call in the queue, an
answer not seen yet, an application killed while its call is served. `CallInv`
says which call a client can have at the service, by the hook it is or was in
when it died. `Counted` says which logins the count includes, dead ones with
an unserved close among them, and `Abandoned` which it may include. `Balanced` puts
the count between the two cardinalities; every step moves at most one client in
or out of either set, with the count or within the slack (`Rebalance`). A stop sets
every count to zero, and a close after a failed open takes one away that is not its
own; both are never too high but may be too low, so the lower bound is for the first
process and for users outside `strays`. A hook whose call was not sent, or who loses
the answer, moves its client from `Counted` to `Abandoned` at most. Later a close may find no session (`CloseRefused`), and
a bus error may take the place of an answer: then the service is down and counts
nobody, which `CountInv` carries along. `FirstRunInv` is "the service is up and all
mounts are its own" until the first stop. `MountsFollowLogins` combines them with
`TableInv` and `OwnerInv`: a login is counted, so there is a session, so its mounts are
there; nobody is counted, so there is no guard, so the stacks hold only what earlier
processes left, and in the first process nothing.

**MountAuth.** `SafeInv` is `TypeOK`, `LockInv` (two that hold the lock are readers;
who writes is an `authorize`) and `GrantInv` (file, copies in memory and what is
about to be written were asked for); it is inductive under all faults.
`StoreInv` says where the file stands at each step: whoever creates it does so
before the first acknowledgement, a torn one has somebody about to write it,
and a writer has read all of it. From both, `Stored` does not change until the
step at which a call takes effect (`Invisible`), and that step is one of
`AuthStore` (`QueryStep`, `AuthorizeStep`).

**UserAuth.** `DataInv` says that methods exist only beside a main password and that
the ciphertext is the one of the current main password under the current
intermediate key. `MainByAuth` says what `main_by_auth` returns; that there is a
first method that opens rests on the well-foundedness of the naturals. The lemmas
about one operation say what holds of all secrets and what only under `SecretsDiffer`.

**Polyauthctl.** The lemmas about `Storage` say that a part that is stored is what a
load gives back, and that a store keeps what a load gives of the other parts.
`CommandStep` reduces the ways in which a command may run to one shape, `Computed`:
the data and mounts in memory change as its operation says and the file accesses
still to be made are a plan (`PlanFacts`). `BaseInv` is `TypeOK` and that what is left
to do is the end of such a plan; without it nothing is known of a process
between two stores. Over it there are three invariants:

- `GrantInv`: every configuration in a user's file is in `held`, and what `authorize`
  is about to send was read from the file of the user it names, or is still to be
  read before (`InnerOwn`). It is this order, load then authorize, that
  makes `-c` harmless.
- `SoundInv`: the data in every file, in the memory of every process and in what is
  about to be written is `Sound`: the ciphertext of the main password opens with
  the data's key, and a method that holds a key of a setup holds that one. Files are
  written as a whole from sound parts, so this holds under every interleaving.
- `AloneInv`: for a process nobody has interfered with (`before[p] # None`), how
  files, memory and the copy about to be written relate to the files it found:
  unchanged before the first write (`Reading`), computed from what was
  loaded (`Working`), then with the stored parts replaced and the others kept
  (`OnFile`, `InHand`), and with the data of an `add` that its new password opens
  (`Adding`, made of what was loaded as `AddedTo` says; by `AddKeeps` whoever opened the
  data before still does). The steps of other processes either leave files alone or
  clear `before`; in particular a process that does not have the file it writes for
  itself is not alone (`HandleInv`).
  The four properties of single commands follow from it.

**Prelude.** The invariant `PInv` says that what is on the bus is the beginning, of some
length, of what `encrypt` made of the prelude and of the typed password; `DeliveredAsSent`
alone says nothing of a message that `decrypt` has not seen. What it then returns
is `DecryptsParts`, for all lengths:

- `HeaderRead`: the length in the header is read back as it was written. The partial
  sums of the loop are the remainders of the length (`ValueLoop`).
- `PaddingRemoved`: dropping the zeros of a padded password gives the password back,
  since it holds none itself.
- `MixingUndone`: `split` takes apart what `combine` mixed.
- `Layout` and `Parts`: where header, nonce, key and text stand in a message, and that
  each slice of `decrypt` is one of them.
- `KeyOpens` and `TextOpens`: a block opens with its own key and whole only.
- `ShortRefused`: what ends before the shortest body is refused; what is cut later fails
  in the cipher.

The loops are recursive functions. That such a function exists, and that two loops
with the same start and the same step agree, is not taken from the induction
theorems of the library, which the provers cannot instantiate, but proved from the
well-foundedness of the naturals: of the positions at which a claim fails there
would be a first (`LeastNatural`, `LoopExists`, `LoopsAgree`).

Only model-checked is liveness (`EveryCallAnswered`, `HooksReturnGivenKey`), which is
outside the prover's reach. The theorems about `Atomic` and `PamImplementsSessions` are
about the safety part of the specifications.

Every property has a mutant: an operator with a comment "Mutant" in front of the
definition it replaces, changed as a plausible slip of the code would change it,
for which TLC finds the property violated.

## 5. Not modelled

- Directory creation, permissions and ownership around a mount and a file, other
  than as reasons for a failure; log messages; what `info` and `inspect` print.
- The text of JSON, base64 and bytevec: a file parses and decodes, or does not.
- Messages to `decrypt` that `encrypt` did not make; the strength of the ciphers.
- Names, dates and listing of authentication methods; the arguments of a session
  command.
- Collisions of the 64-bit digests of tokens and configurations.
- Nested mounts beyond one session's own: that a lazy unmount (`DETACH`) of a
  directory takes the mounts below it along, and that a directory above a user's is
  mounted by another user's session.
- A file that disappears between the test for its existence and its reading
  (`src/storage.rs:157`), which makes a load fail that would otherwise find nothing.
- `src/error.rs` and `src/pam/mod.rs` (types and constants), completions,
  packaging, tests.

## 6. Plan

Done: all modules above, and a theorem for every safety property the passing runs
check. What could be added:

1. Messages to `decrypt` that `encrypt` did not make, with the overflow of the length
   computed from an arbitrary header (`src/pam/security.rs:190`).
2. Nested mounts of several users, with mounts as a tree rather than a stack per
   directory.
3. A bound on the one-time tokens that are never used (`src/pam/session.rs:172`), should
   the code get one.
