---------------------------- MODULE Polyauthctl ----------------------------
(***************************************************************************)
(* The administration tool (src/bin/polyauthctl/main.rs) over the users'   *)
(* files (src/storage.rs). An invocation loads the authentication data and *)
(* the mounts, computes, and stores what it changed; every store reads the *)
(* file again, replaces one part, and rewrites the file in place, which is *)
(* truncated first. There is no lock: invocations interleave at every file *)
(* access, and may be killed between any two.                              *)
(*                                                                         *)
(* What an invocation still has to do is the sequence `todo`, of the       *)
(* accesses below with the file they are for.                              *)
(***************************************************************************)
EXTENDS Storage

CONSTANTS
    Procs,         \* processes, each running one invocation at a time
    Users,         \* accounts, standing for their files in /etc/polyauth too
    Paths,         \* files that can be named with -c
    Invocations,   \* the invocations that are tried
    InitialFiles,  \* contents a file may have at first
    Faults,        \* the faults that can happen
    MaxStarts      \* bound: number of invocations started

Sources == Users \cup Paths

\* Command and Args: `me` runs it, the other fields are the options and
\* arguments, None where the command line or the command has none.
Invocation ==
    [op : {"info", "inspect", "setup", "reset", "add", "set-session",
           "set-home-mount", "set-pre-mount", "authorize"},
     me : Users, username : Users \cup {None},
     config_file : Paths \cup {None},
     password : Secrets \cup {None}, update_as_needed : BOOLEAN,
     intermediate : Secrets \cup {None}, secondary_pw : Secrets \cup {None},
     params : Params \cup {None}, dir : Targets \cup {None},
     cmd : SessionCommands \cup {None}]

\* What the command needs is on the command line or asked for.
Complete(inv) ==
    /\ inv.op \in {"setup", "add"} => inv.intermediate \in Secrets
    /\ inv.op = "setup" => inv.password \in Secrets
    /\ inv.op = "add" => inv.secondary_pw \in Secrets
    /\ inv.op \in {"set-home-mount", "set-pre-mount"} => inv.params \in Params
    /\ inv.op = "set-pre-mount" => inv.dir \in Targets

ASSUME PolyauthctlAssumption ==
    /\ Users \cap Paths = {} /\ None \notin Sources
    /\ Invocations \subseteq Invocation
    /\ \A inv \in Invocations : Complete(inv)
    /\ InitialFiles \subseteq File
    /\ Faults \subseteq {"kill", "write_error", "dbus", "mistyped"}
    /\ MaxStarts \in Nat

VARIABLES
    files,           \* source -> File
    procs,           \* process -> where it stands and its locals
    handle,          \* process -> what became of the file it is writing since it
                     \*   truncated it: "own" (nothing), "shared" (another has
                     \*   changed it too) or "unlinked" (another has removed it)
    authorizations,  \* <<user, digest>> pairs authorized at the service
    before,          \* history: process -> the files when it started, or None
                     \*   once another process has changed a file
    held,            \* history: user -> mount configurations its file has held
    starts           \* history: number of invocations started

vars == <<files, procs, handle, authorizations, before, held, starts>>

-----------------------------------------------------------------------------
Idle == [pc |-> "idle"]

\* `storage_source`: -u is not looked at.
storage_source(inv) == IF inv.config_file = None THEN inv.me ELSE inv.config_file

\* `setup_storage_source`.
setup_storage_source(inv) ==
    IF inv.config_file = None THEN inv.username ELSE inv.config_file

\* The file a command changes.
Target(inv) == IF inv.op = "setup" THEN setup_storage_source(inv) ELSE storage_source(inv)

\* The user whose mounts are authorized; -c names no user.
AuthorizeUser(inv) ==
    CASE inv.username # None -> inv.username
      [] inv.username = None /\ inv.config_file = None -> inv.me
      [] OTHER -> None

Access(do, source) == [do |-> do, at |-> source]

\* Lines 671-677.
WriteFile(inv) == <<Access("store_auth", storage_source(inv)),
                    Access("store_mounts", storage_source(inv))>>

AsNeeded(inv) == IF inv.update_as_needed THEN WriteFile(inv) ELSE <<>>

Init ==
    /\ files \in [Sources -> InitialFiles]
    /\ procs = [p \in Procs |-> Idle]
    /\ handle = [p \in Procs |-> "own"]
    /\ authorizations = {}
    /\ before = [p \in Procs |-> None]
    /\ held = [u \in Users |-> {load_user_mountpoints(files[u])} \ {None, Err}]
    /\ starts = 0

-----------------------------------------------------------------------------
(* Pieces of the steps.                                                    *)

At(p, pc) == procs[p].pc = pc

\* The process goes on with its locals updated and leaves all else alone.
Locally(p, locals) ==
    /\ procs' = [procs EXCEPT ![p] = locals]
    /\ UNCHANGED <<files, handle, authorizations, before, held, starts>>

\* std::process::exit(-1) or a panic.
Fail(p) == Locally(p, [procs[p] EXCEPT !.pc = "failed"])

\* The file a process is working on: the one of its next access.
Source(p) == Head(procs[p].todo).at

\* p leaves `contents` in a file: whoever else runs has not been alone, and
\* whoever else is writing that file does not have it for itself.
Put(p, source, contents) ==
    /\ files' = [files EXCEPT ![source] = contents]
    /\ handle' = [q \in Procs |->
                     CASE q = p -> "own"
                       [] q # p /\ At(q, "write") /\ Source(q) = source ->
                            IF contents = Missing \/ handle[q] = "unlinked"
                            THEN "unlinked" ELSE "shared"
                       [] OTHER -> handle[q]]
    /\ before' = [q \in Procs |-> IF q = p THEN before[q] ELSE None]
    /\ held' = [u \in Users |->
                   IF u = source
                   THEN held[u] \cup ({load_user_mountpoints(contents)} \ {None, Err})
                   ELSE held[u]]
    /\ UNCHANGED <<authorizations, starts>>

\* The command is through with its work on memory.
Proceed(p, cfg, mounts, todo) ==
    Locally(p, [procs[p] EXCEPT !.pc = "todo", !.user_cfg = cfg,
                                !.user_mounts = mounts, !.todo = todo])

Next_(p, do) == At(p, "todo") /\ procs[p].todo # <<>> /\ Head(procs[p].todo).do \in do

\* The next access is done.
Done(p) == [procs[p] EXCEPT !.pc = "todo", !.todo = Tail(@)]

-----------------------------------------------------------------------------
(* The beginning of main.                                                  *)

Start(p, inv) ==
    /\ At(p, "idle")
    /\ starts < MaxStarts
    /\ starts' = starts + 1
    /\ procs' = [procs EXCEPT ![p] =
          [pc |-> "load_auth", inv |-> inv, user_cfg |-> NewUserAuthData,
           user_mounts |-> None, inner |-> None, todo |-> <<>>,
           config |-> NewUserConfig]]
    /\ before' = [before EXCEPT ![p] = files]
    /\ UNCHANGED <<files, handle, authorizations, held>>

Inv(p) == procs[p].inv
Loaded(p) == files[storage_source(Inv(p))]

\* Data that does not load is taken for no data, except by setup.
LoadAuth(p) ==
    /\ At(p, "load_auth")
    /\ LET data == load_user_auth_data(Loaded(p))
       IN  IF data = Err /\ Inv(p).op = "setup" THEN Fail(p)
           ELSE Locally(p, [procs[p] EXCEPT !.pc = "load_mounts",
                   !.user_cfg = IF data \in {None, Err} THEN NewUserAuthData ELSE data])

\* Mutant: an error is taken for mounts.
LoadMountsAnyway(p) ==
    /\ At(p, "load_mounts")
    /\ Locally(p, [procs[p] EXCEPT !.pc = "command",
                                   !.user_mounts = load_user_mountpoints(Loaded(p))])

LoadMounts(p) ==
    /\ At(p, "load_mounts")
    /\ LET mounts == load_user_mountpoints(Loaded(p))
       IN  IF mounts = Err THEN Fail(p)
           ELSE Locally(p, [procs[p] EXCEPT !.pc = "command", !.user_mounts = mounts])

-----------------------------------------------------------------------------
(* The commands.                                                           *)

Command(p, ops) == At(p, "command") /\ Inv(p).op \in ops
user_cfg(p) == procs[p].user_cfg
user_mounts(p) == procs[p].user_mounts

\* info prints; inspect reads the session command as well.
InfoOrInspect(p) ==
    /\ Command(p, {"info", "inspect"})
    /\ IF Inv(p).op = "inspect" /\ load_user_session_command(Loaded(p)) = Err
       THEN Fail(p)
       ELSE Proceed(p, user_cfg(p), user_mounts(p), AsNeeded(Inv(p)))

\* Mutant: the file is stored before the authorization.
MountAuthorizeStores(p) ==
    /\ Command(p, {"authorize"})
    /\ LET user == AuthorizeUser(Inv(p))
       IN  IF user = None THEN Fail(p)
           ELSE Proceed(p, user_cfg(p), user_mounts(p),
                        WriteFile(Inv(p)) \o <<Access("load_inner", user),
                                               Access("authorize", user)>>)

\* mount authorize: the mounts of the user's own file, whatever -c says.
MountAuthorize(p) ==
    /\ Command(p, {"authorize"})
    /\ LET user == AuthorizeUser(Inv(p))
       IN  IF user = None THEN Fail(p)
           ELSE Proceed(p, user_cfg(p), user_mounts(p),
                        <<Access("load_inner", user), Access("authorize", user)>>
                            \o AsNeeded(Inv(p)))

ChangeSecondaryMount(p) ==
    /\ Command(p, {"set-pre-mount"})
    /\ IF user_mounts(p) = None THEN Fail(p)
       ELSE Proceed(p, user_cfg(p),
                    with_premount(user_mounts(p), Inv(p).dir, Inv(p).params),
                    WriteFile(Inv(p)))

ChangeMainMount(p) ==
    /\ Command(p, {"set-home-mount"})
    /\ Proceed(p, user_cfg(p),
               IF user_mounts(p) = None
               THEN [home |-> Inv(p).params, mounts |-> [d \in {} |-> None]]
               ELSE with_mount(user_mounts(p), Inv(p).params),
               WriteFile(Inv(p)))

SetSession(p) ==
    /\ Command(p, {"set-session"})
    /\ Proceed(p, user_cfg(p), user_mounts(p),
               <<Access("store_session", storage_source(Inv(p)))>> \o AsNeeded(Inv(p)))

\* Mutant: the test for an existing main password is missing.
SetupAllowedAlways(p) == Inv(p).username \in Users

\* The data loaded has no main password, and -u names an account.
SetupAllowed(p) == ~ has_main(user_cfg(p)) /\ Inv(p).username \in Users

\* The mounts that are there are stored again, and authorized unless -c is
\* given.
Setup(p) ==
    /\ Command(p, {"setup"})
    /\ SetupAllowed(p)
    /\ LET source == setup_storage_source(Inv(p))
       IN  \E cfg \in WithMain(user_cfg(p), Inv(p).password, Inv(p).intermediate) :
              Proceed(p, cfg, user_mounts(p),
                      <<Access("store_auth", source), Access("load_inner", source),
                        Access("store_inner", source)>>
                      \o IF Inv(p).config_file = None
                         THEN <<Access("authorize", source)>> ELSE <<>>)

\* The wrong user, a main password that is there already, or a confirmation
\* that differs from the key.
SetupRefused(p) ==
    /\ Command(p, {"setup"})
    /\ ~ SetupAllowed(p) \/ "mistyped" \in Faults
    /\ Fail(p)

Reset(p) ==
    /\ Command(p, {"reset"})
    /\ Proceed(p, user_cfg(p), user_mounts(p), <<Access("remove", storage_source(Inv(p)))>>)

\* add: the data after -p has been handled; nothing if the intermediate key is
\* refused.
AddMain(p) ==
    LET ik == Inv(p).intermediate
    IN  CASE has_main(user_cfg(p)) /\ main_by_auth(user_cfg(p), ik) = None -> {}
          [] Inv(p).password = None -> {user_cfg(p)}
          [] OTHER -> IF MaySetMain(user_cfg(p), ik)
                      THEN WithMain(user_cfg(p), Inv(p).password, ik) ELSE {}

Add(p) ==
    /\ Command(p, {"add"})
    /\ \E with_main \in AddMain(p) :
          /\ MayAdd(with_main, Inv(p).intermediate)
          /\ \E cfg \in WithSecondary(with_main, Inv(p).intermediate, Inv(p).secondary_pw) :
                Proceed(p, cfg, user_mounts(p), WriteFile(Inv(p)))

AddRefused(p) ==
    /\ Command(p, {"add"})
    /\ \/ \A with_main \in AddMain(p) : ~ MayAdd(with_main, Inv(p).intermediate)
       \/ "mistyped" \in Faults
    /\ Fail(p)

-----------------------------------------------------------------------------
(* The file accesses.                                                      *)

Stores == {"store_session", "store_auth", "store_mounts", "store_inner"}

\* A store loads the configuration and replaces its part.
Replaced(p, file) ==
    CASE Head(procs[p].todo).do = "store_session" ->
             {store_user_session_command(file, Inv(p).cmd)}
      [] Head(procs[p].todo).do = "store_auth" ->
             {store_user_auth_data(file, user_cfg(p))}
      [] Head(procs[p].todo).do = "store_mounts" ->
             store_user_mountpoints(file, user_mounts(p))
      [] Head(procs[p].todo).do = "store_inner" ->
             store_user_mountpoints(file, procs[p].inner)

Reload(p) ==
    /\ Next_(p, Stores)
    /\ IF files[Source(p)] = Torn THEN Fail(p)
       ELSE \E config \in Replaced(p, files[Source(p)]) :
               Locally(p, [procs[p] EXCEPT !.pc = "truncate", !.config = config])

\* save_config_to_source: fs::write truncates the file, then writes it.
Truncate(p) ==
    /\ At(p, "truncate")
    /\ Put(p, Source(p), Torn)
    /\ procs' = [procs EXCEPT ![p].pc = "write"]

\* Two processes that write the file at a time may leave the end of the longer
\* text behind the shorter one, which does not parse.
Write(p) ==
    /\ At(p, "write")
    /\ \/ handle[p] # "unlinked" /\ Put(p, Source(p), procs[p].config)
       \/ handle[p] = "shared" /\ Put(p, Source(p), Torn)
    /\ procs' = [procs EXCEPT ![p] = Done(p)]

\* What is written to a file that was removed is lost; setup finds it missing
\* when it sets the owner.
WriteUnlinked(p) ==
    /\ At(p, "write") /\ handle[p] = "unlinked"
    /\ LET unowned == Inv(p).op = "setup" /\ files[Source(p)] = Missing
       IN  \/ ~ unowned /\ Locally(p, Done(p))
           \/ /\ unowned \/ "write_error" \in Faults
              /\ Locally(p, [procs[p] EXCEPT !.pc = "write_failed"])

\* The file may not be written or removed.
Denied(p) ==
    /\ At(p, "truncate") \/ Next_(p, {"remove"})
    /\ "write_error" \in Faults
    /\ Locally(p, [procs[p] EXCEPT !.pc = "write_failed"])

\* The disk is full, or (setup alone) the owner of the new file cannot be set.
WriteFails(p) ==
    /\ At(p, "write") /\ handle[p] # "unlinked"
    /\ "write_error" \in Faults
    /\ \/ Put(p, Source(p), Torn)
       \/ Inv(p).op = "setup" /\ Put(p, Source(p), procs[p].config)
    /\ procs' = [procs EXCEPT ![p].pc = "write_failed"]

\* remove_user_data.
RemoveFile(p) ==
    /\ Next_(p, {"remove"})
    /\ Put(p, Source(p), Missing)
    /\ procs' = [procs EXCEPT ![p] = Done(p)]

\* Mutant: the mounts of storage_source are authorized for the user.
LoadInnerOwn(p) ==
    /\ Next_(p, {"load_inner"})
    /\ LET mounts == load_user_mountpoints(Loaded(p))
       IN  IF mounts = Err \/ (mounts = None /\ Inv(p).op = "authorize") THEN Fail(p)
           ELSE Locally(p, [Done(p) EXCEPT !.inner = mounts])

\* The mounts to authorize: `mount authorize` needs some.
LoadInner(p) ==
    /\ Next_(p, {"load_inner"})
    /\ LET mounts == load_user_mountpoints(files[Source(p)])
       IN  IF mounts = Err \/ (mounts = None /\ Inv(p).op = "authorize") THEN Fail(p)
           ELSE Locally(p, [Done(p) EXCEPT !.inner = mounts])

\* MountAuthDBus::authorize at the service; setup has nothing to authorize when
\* there are no mounts.
Authorize(p) ==
    /\ Next_(p, {"authorize"})
    /\ \E digests \in IF procs[p].inner = None THEN {{}}
                      ELSE {{d} : d \in Hashes(procs[p].inner)} :
          authorizations' = authorizations \cup ({Source(p)} \X digests)
    /\ procs' = [procs EXCEPT ![p] = Done(p)]
    /\ UNCHANGED <<files, handle, before, held, starts>>

\* No bus, no service or an error: setup warns, mount authorize fails.
AuthorizeFails(p) ==
    /\ Next_(p, {"authorize"})
    /\ "dbus" \in Faults
    /\ IF Inv(p).op = "setup" THEN Locally(p, Done(p)) ELSE Fail(p)

Finish(p) ==
    /\ At(p, "todo")
    /\ procs[p].todo = <<>>
    /\ Locally(p, [procs[p] EXCEPT !.pc = "finished"])

\* The process is gone.
Exit(p) ==
    /\ procs[p].pc \in {"finished", "failed", "write_failed"}
    /\ procs' = [procs EXCEPT ![p] = Idle]
    /\ before' = [before EXCEPT ![p] = None]
    /\ UNCHANGED <<files, handle, authorizations, held, starts>>

\* It is killed, or the machine stops.
Kill(p) ==
    /\ "kill" \in Faults
    /\ procs[p].pc \notin {"idle", "finished", "failed", "write_failed"}
    /\ procs' = [procs EXCEPT ![p] = Idle]
    /\ before' = [before EXCEPT ![p] = None]
    /\ UNCHANGED <<files, handle, authorizations, held, starts>>

Step(p) ==
    \/ LoadAuth(p) \/ LoadMounts(p)
    \/ InfoOrInspect(p) \/ MountAuthorize(p) \/ ChangeSecondaryMount(p)
    \/ ChangeMainMount(p) \/ SetSession(p) \/ Setup(p) \/ SetupRefused(p)
    \/ Reset(p) \/ Add(p) \/ AddRefused(p)
    \/ Reload(p) \/ Truncate(p) \/ Write(p) \/ WriteUnlinked(p)
    \/ Denied(p) \/ WriteFails(p) \/ RemoveFile(p)
    \/ LoadInner(p) \/ Authorize(p) \/ AuthorizeFails(p)
    \/ Finish(p) \/ Exit(p) \/ Kill(p)

Next ==
    \E p \in Procs :
        \/ \E inv \in Invocations : Start(p, inv)
        \/ Step(p)

Spec == Init /\ [][Next]_vars

-----------------------------------------------------------------------------
(* Properties.                                                             *)

Running ==
    [pc : {"load_auth", "load_mounts", "command", "todo", "truncate", "write",
           "finished", "failed", "write_failed"},
     inv : Invocations, user_cfg : UserAuthData, user_mounts : MountPoints \cup {None},
     inner : MountPoints \cup {None},
     todo : Seq([do : Stores \cup {"remove", "load_inner", "authorize"}, at : Sources]),
     config : UserConfig]

\* Every variable keeps its type.
TypeOK ==
    /\ files \in [Sources -> File]
    /\ procs \in [Procs -> Running \cup {Idle}]
    /\ handle \in [Procs -> {"own", "shared", "unlinked"}]
    /\ \A grant \in authorizations : grant[1] \in Users
    /\ before \in [Procs -> [Sources -> File] \cup {None}]
    /\ held \in [Users -> SUBSET MountPoints]
    /\ starts \in 0 .. MaxStarts

\* The parts of a file, as the load functions see them, and the ones a command
\* is there to change.
Parts(file) ==
    [session |-> load_user_session_command(file),
     auth |-> load_user_auth_data(file), mounts |-> load_user_mountpoints(file)]

Changes(op) ==
    CASE op = "reset" -> {"session", "auth", "mounts"}
      [] op \in {"setup", "add"} -> {"auth"}
      [] op \in {"set-home-mount", "set-pre-mount"} -> {"mounts"}
      [] op = "set-session" -> {"session"}
      [] OTHER -> {}

\* The process has ended so, and no other has changed a file since it started.
EndedAlone(p, pc) == At(p, pc) /\ before[p] # None

\* storage.rs:274, 350, main.rs:671: a command that was not interfered with
\* leaves every other file alone, and in its own the parts it is not about,
\* although it stores authentication data and mounts one after the other, each
\* from a copy of its own. (Authentication data that cannot be decoded is the
\* exception: main.rs:235 replaces it by none.)
PartsKept ==
    \A p \in Procs : EndedAlone(p, "finished") =>
        \A s \in Sources :
            IF s # Target(Inv(p)) THEN files[s] = before[p][s]
            ELSE \A part \in DOMAIN Parts(files[s]) \ Changes(Inv(p).op) :
                    \/ Parts(files[s])[part] = Parts(before[p][s])[part]
                    \/ part = "auth" /\ Parts(before[p][s]).auth = Err

\* main.rs:229-245: a command that reports an error, other than one of writing,
\* has not changed any file; in particular one that finds a file cut short by
\* a process that was killed does not take it for an empty one.
ErrorsChangeNothing ==
    \A p \in Procs : EndedAlone(p, "failed") => files = before[p]

\* main.rs:659, "Secondary password added": the new password opens the account,
\* and so does every secret that did before; where -p has changed the main
\* password, every one that gives the intermediate key. (Data that could not be
\* decoded is gone: main.rs:235 takes it for none.)
AddedMethodOpens ==
    \A p \in Procs : EndedAlone(p, "finished") /\ Inv(p).op = "add" =>
        LET old == load_user_auth_data(before[p][Target(Inv(p))])
            new == load_user_auth_data(files[Target(Inv(p))])
        IN  /\ new \notin {None, Err}
            /\ main_by_auth(new, Inv(p).secondary_pw) # None
            /\ old \notin {None, Err} =>
                  \A s \in Secrets :
                      \/ main_by_auth(new, s) # None
                      \/ main_by_auth(old, s) = None
                      \/ Inv(p).password # None /\ ~ GivesKey(old, s)

\* Manual/README.md:114: setup "will fail if an intermediate key already exists".
SetupKeepsExistingKey ==
    \A p \in Procs : EndedAlone(p, "finished") /\ Inv(p).op = "setup" =>
        load_user_auth_data(before[p][Target(Inv(p))]) = None

\* The keys setup is called with.
SetupKeys == {inv.intermediate : inv \in {i \in Invocations : i.op = "setup"}}

\* storage.rs:306: however invocations overlap or are killed, a file never holds
\* methods of one intermediate key beside a main password of another: each
\* method that holds an intermediate key opens the account it is stored in.
MethodsBelongTogether ==
    \A s \in Sources :
        LET data == load_user_auth_data(files[s])
        IN  data \notin {None, Err} =>
                \A i \in DOMAIN data.auth :
                    data.auth[i].enc_intermediate.plain \in SetupKeys =>
                        main_by_auth(data, data.auth[i].password_hash.of) # None

\* main.rs:262: whatever file -c names, and whatever others change meanwhile, a
\* user is only ever authorized for mounts that were in that user's own file.
GrantsAreOwnMounts ==
    \A grant \in authorizations :
        \E mounts \in held[grant[1]] : grant[2] \in Hashes(mounts)
============================================================================
