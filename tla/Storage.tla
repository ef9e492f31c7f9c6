------------------------------ MODULE Storage ------------------------------
(***************************************************************************)
(* The file kept for a user (src/storage.rs): one JSON document with the   *)
(* session command, the authentication data and the mount configuration,   *)
(* and what each load_... function makes of its contents.                  *)
(*                                                                         *)
(* Base64 and bytevec lose nothing of a password record they encoded; a    *)
(* record they cannot decode, or of an unknown type, is `Undecodable`. The *)
(* pre-mounts are a hash map in memory and a list, in iteration order, in  *)
(* the file.                                                               *)
(***************************************************************************)
EXTENDS AuthData, MountPoints, SequencesExt

CONSTANTS
    SessionCommands,   \* commands a session may be started with
    Missing,           \* the file does not exist
    Torn,              \* the file is empty, cut short or unreadable
    Undecodable,       \* authentication data that cannot be decoded
    Err                \* Err of the load functions

\* struct MountPointsConfig.
MountPointsConfig == [home : Params, additional : Seq(Targets \X Params)]

\* struct UserConfig; the version is always 0.
UserConfig ==
    [session_command : SessionCommands \cup {None},
     auth_data : UserAuthData \cup {None, Undecodable},
     mountpoints : MountPointsConfig \cup {None}]

NewUserConfig == [session_command |-> None, auth_data |-> None, mountpoints |-> None]

File == UserConfig \cup {Missing, Torn}

ASSUME StorageAssumption ==
    /\ Missing # Torn
    /\ \A x \in {Missing, Torn, None, Err} : x \notin UserConfig
    /\ \A x \in {None, Err, Undecodable} : x \notin UserAuthData \cup MountPoints
    /\ None \notin MountPointsConfig
    /\ None # Err /\ None # Undecodable /\ Err # Undecodable

-----------------------------------------------------------------------------
\* load_config_from_source: no file is Ok(None).
load_config_from_source(file) ==
    CASE file = Missing -> None
      [] file = Torn -> Err
      [] OTHER -> file

\* load_user_session_command.
load_user_session_command(file) ==
    LET config == load_config_from_source(file)
    IN  IF config \in {None, Err} THEN config ELSE config.session_command

\* load_user_auth_data: data without a main password is no data.
load_user_auth_data(file) ==
    LET config == load_config_from_source(file)
    IN  CASE config \in {None, Err} -> config
          [] config \notin {None, Err} /\ config.auth_data = Undecodable -> Err
          [] config \notin {None, Err} /\ config.auth_data = None -> None
          [] OTHER -> IF has_main(config.auth_data) THEN config.auth_data ELSE None

\* The hash map load_user_mountpoints builds from the list: the last entry of
\* a directory wins.
Premounts(additional) ==
    [d \in {additional[i][1] : i \in DOMAIN additional} |->
        additional[SelectLastInSeq(additional, LAMBDA entry : entry[1] = d)][2]]

\* load_user_mountpoints.
load_user_mountpoints(file) ==
    LET config == load_config_from_source(file)
    IN  CASE config \in {None, Err} -> config
          [] config \notin {None, Err} /\ config.mountpoints = None -> None
          [] OTHER -> [home |-> config.mountpoints.home,
                       mounts |-> Premounts(config.mountpoints.additional)]

-----------------------------------------------------------------------------
(* What the store_... functions save, given the contents they load first.  *)

\* Mutant: the store starts from an empty configuration.
ReloadedNew(file) == NewUserConfig

\* load_config_from_source(...)?.unwrap_or_else(UserConfig::new), when it is not
\* an error.
Reloaded(file) ==
    IF load_config_from_source(file) = None THEN NewUserConfig ELSE file

store_user_session_command(file, command) ==
    [Reloaded(file) EXCEPT !.session_command = command]

\* Mutant: the methods that are in the file stay there.
store_user_auth_data_merged(file, data) ==
    [Reloaded(file) EXCEPT !.auth_data =
        IF load_user_auth_data(file) \in {None, Err} THEN data
        ELSE [data EXCEPT !.auth = load_user_auth_data(file).auth]]

store_user_auth_data(file, data) == [Reloaded(file) EXCEPT !.auth_data = data]

\* The list is written in the iteration order of the hash map.
store_user_mountpoints(file, mounts) ==
    IF mounts = None THEN {[Reloaded(file) EXCEPT !.mountpoints = None]}
    ELSE {[Reloaded(file) EXCEPT !.mountpoints =
              [home |-> mounts.home, additional |-> foreach(mounts, order)]]
          : order \in Orders(mounts)}
============================================================================
