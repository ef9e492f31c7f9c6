------------------------- MODULE PolyauthctlProofs -------------------------
(***************************************************************************)
(* Theorems about polyauthctl and the users' files, for every set of       *)
(* accounts, files and secrets, any invocations and any number of          *)
(* processes that interleave at every access to a file.                    *)
(***************************************************************************)
EXTENDS Polyauthctl, AuthDataProofs, SequenceTheorems, FiniteSetTheorems

(* What the operators of Storage return.                                   *)

\* The entry of a directory in the hash map (storage.rs:241) is one of the list.
LEMMA PremountsEntry ==
    ASSUME NEW S, NEW seq \in Seq(S), NEW k \in DOMAIN seq
    PROVE  /\ seq[k][1] \in DOMAIN Premounts(seq)
           /\ \E last \in DOMAIN seq :
                 seq[last][1] = seq[k][1] /\ Premounts(seq)[seq[k][1]] = seq[last][2]
<1> DEFINE n == Len(seq)
           d == seq[k][1]
           I == {i \in 1 .. n : seq[i][1] = d}
           J == {n - i : i \in I}
<1>1. n \in Nat /\ DOMAIN seq = 1 .. n
  BY LenProperties
<1>2. J \subseteq Nat /\ J # {} /\ I # {}
  BY <1>1
<1>3. PICK m \in J : \A j \in J : m <= j
  BY <1>2, LeastNatural
<1>4. PICK x \in I : m = n - x
  BY <1>3
<1>5. \A y \in I : x >= y
  <2>1. ASSUME NEW y \in I PROVE x >= y
    <3>1. n - y \in J
      OBVIOUS
    <3>2. n - x <= n - y
      BY <1>3, <1>4, <3>1
    <3>3. x \in 1 .. n /\ y \in 1 .. n
      OBVIOUS
    <3>4. QED
      BY <1>1, <3>2, <3>3
  <2>2. QED
    BY <2>1
<1>6. Max(I) \in I
  <2> HIDE DEF I
  <2>1. QED
    BY <1>4, <1>5 DEF Max
<1>7. d \in DOMAIN Premounts(seq) /\ Premounts(seq)[d] = seq[Max(I)][2]
  BY <1>1, <1>2 DEF Premounts, SelectLastInSeq
<1>8. QED
  BY <1>1, <1>6, <1>7

\* The hash map load_user_mountpoints builds maps directories to parameters.
LEMMA PremountsType ==
    ASSUME NEW additional \in Seq(Targets \X Params)
    PROVE  Premounts(additional) \in UNION {[D -> Params] : D \in SUBSET Targets}
<1> DEFINE D == {additional[i][1] : i \in DOMAIN additional}
           f == Premounts(additional)
<1>1. \A i \in DOMAIN additional : additional[i] \in Targets \X Params
  BY ElementOfSeq, LenProperties
<1>2. D \subseteq Targets /\ DOMAIN f = D
  BY <1>1 DEF Premounts
<1>3. ASSUME NEW d \in D PROVE f[d] \in Params
  BY <1>1, PremountsEntry
<1>4. f = [d \in D |-> f[d]]
  BY DEF Premounts
<1> HIDE DEF f, D
<1>5. f \in [D -> Params]
  BY <1>3, <1>4
<1>6. QED
  BY <1>2, <1>5 DEF f

\* What the load functions return for the contents of a file.
LEMMA LoadTypes ==
    ASSUME NEW file \in File
    PROVE  /\ load_user_auth_data(file) \in UserAuthData \cup {None, Err}
           /\ load_user_auth_data(file) \in UserAuthData =>
                 /\ has_main(load_user_auth_data(file))
                 /\ file \in UserConfig /\ load_user_auth_data(file) = file.auth_data
           /\ load_user_mountpoints(file) \in MountPoints \cup {None, Err}
           /\ file \in UserConfig => load_user_mountpoints(file) # Err
<1> DEFINE config == load_config_from_source(file)
<1>1. /\ file = Missing => config = None
      /\ file = Torn => config = Err
      /\ file \in UserConfig => config = file /\ config \notin {None, Err}
  BY StorageAssumption DEF load_config_from_source
<1>2. CASE file \in {Missing, Torn}
  <2>1. load_user_auth_data(file) \in {None, Err} /\ load_user_mountpoints(file) \in {None, Err}
    BY <1>1, <1>2 DEF load_user_auth_data, load_user_mountpoints
  <2>2. QED
    BY <1>2, <2>1, StorageAssumption
<1>3. CASE file \in UserConfig
  <2>1. /\ file.auth_data \in UserAuthData \cup {None, Undecodable}
        /\ file.mountpoints \in MountPointsConfig \cup {None}
    BY <1>3 DEF UserConfig
  <2>2. load_user_auth_data(file) =
          CASE file.auth_data = Undecodable -> Err
            [] file.auth_data = None -> None
            [] OTHER -> IF has_main(file.auth_data) THEN file.auth_data ELSE None
    BY <1>1, <1>3, StorageAssumption DEF load_user_auth_data
  <2>3. load_user_mountpoints(file) =
          IF file.mountpoints = None THEN None
          ELSE [home |-> file.mountpoints.home,
                mounts |-> Premounts(file.mountpoints.additional)]
    BY <1>1, <1>3 DEF load_user_mountpoints
  <2>4. load_user_mountpoints(file) \in MountPoints \cup {None}
    BY <2>1, <2>3, PremountsType DEF MountPoints, MountPointsConfig
  <2>5. QED
    BY <1>3, <2>1, <2>2, <2>4, StorageAssumption
<1>4. QED
  BY <1>2, <1>3 DEF File

\* The order in which the pre-mounts are written lists each of them once.
LEMMA OrderFacts ==
    ASSUME NEW m \in MountPoints, NEW order \in Orders(m)
    PROVE  \E n \in Nat : /\ order \in [1 .. n -> DOMAIN m.mounts]
                          /\ \A d \in DOMAIN m.mounts : \E i \in 1 .. n : order[i] = d
<1> DEFINE D == DOMAIN m.mounts
<1>1. D \subseteq Targets
  BY DEF MountPoints
<1>2. IsFiniteSet(D) /\ Cardinality(D) \in Nat
  BY <1>1, TargetsAssumption, FS_Subset, FS_CardinalityType
<1>3. order \in Bijection(1 .. Cardinality(D), D)
  BY DEF Orders
<1> HIDE DEF D
<1>4. /\ order \in [1 .. Cardinality(D) -> D]
      /\ \A d \in D : \E i \in 1 .. Cardinality(D) : order[i] = d
  BY <1>3 DEF Bijection, Injection, Surjection
<1>5. QED
  BY <1>2, <1>4 DEF D

\* storage.rs:306 with 241: the list that is stored, whatever its order, loads as the
\* hash map it was made from.
LEMMA PremountsRoundTrip ==
    ASSUME NEW m \in MountPoints, NEW order \in Orders(m)
    PROVE  /\ foreach(m, order) \in Seq(Targets \X Params)
           /\ Premounts(foreach(m, order)) = m.mounts
<1> DEFINE D == DOMAIN m.mounts
           seq == foreach(m, order)
           f == Premounts(seq)
<1>1. PICK n \in Nat : /\ order \in [1 .. n -> D]
                       /\ \A d \in D : \E i \in 1 .. n : order[i] = d
  BY OrderFacts
<1>2. m.mounts \in [D -> Params] /\ D \subseteq Targets
  BY DEF MountPoints
<1>3. /\ seq = [i \in 1 .. n |-> <<order[i], m.mounts[order[i]]>>]
      /\ \A i \in 1 .. n : seq[i][1] = order[i] /\ seq[i][2] = m.mounts[order[i]]
  BY <1>1 DEF foreach
<1>4. seq \in Seq(Targets \X Params) /\ DOMAIN seq = 1 .. n
  <2>1. \A i \in 1 .. n : <<order[i], m.mounts[order[i]]>> \in Targets \X Params
    BY <1>1, <1>2
  <2>2. seq \in [1 .. n -> Targets \X Params]
    BY <1>3, <2>1
  <2>3. QED
    BY <2>2, SeqDef
<1> HIDE DEF seq
<1>5. DOMAIN f = D
  <2>1. DOMAIN f = {seq[i][1] : i \in 1 .. n}
    BY <1>4 DEF Premounts
  <2>2. \A i \in 1 .. n : seq[i][1] \in D
    BY <1>1, <1>3
  <2>3. \A d \in D : \E i \in 1 .. n : seq[i][1] = d
    BY <1>1, <1>3
  <2> HIDE DEF D, f
  <2>4. QED
    BY <2>1, <2>2, <2>3
<1>6. ASSUME NEW d \in D PROVE f[d] = m.mounts[d]
  <2>1. PICK k \in 1 .. n : seq[k][1] = d
    BY <1>1, <1>3
  <2>2. PICK last \in 1 .. n : seq[last][1] = d /\ f[d] = seq[last][2]
    <3>1. \E last \in DOMAIN seq :
             seq[last][1] = seq[k][1] /\ Premounts(seq)[seq[k][1]] = seq[last][2]
      BY <1>4, PremountsEntry
    <3>2. QED
      BY <1>4, <2>1, <3>1
  <2>3. QED
    BY <1>3, <2>2
<1>7. f = [d \in D |-> f[d]] /\ m.mounts = [d \in D |-> m.mounts[d]]
  BY <1>2, <1>5 DEF Premounts
<1>8. f = m.mounts
  <2> HIDE DEF f
  <2>1. [d \in D |-> f[d]] = [d \in D |-> m.mounts[d]]
    BY <1>6
  <2>2. QED
    BY <1>7, <2>1
<1>9. QED
  BY <1>4, <1>8 DEF seq

\* What the stores save is a configuration, and the parts of it they are not about
\* load as before (storage.rs:274, 306, 350).
LEMMA StoredSession ==
    ASSUME NEW file \in File \ {Torn}, NEW cmd \in SessionCommands \cup {None}
    PROVE  LET config == store_user_session_command(file, cmd)
           IN  /\ config \in UserConfig
               /\ load_user_auth_data(config) = load_user_auth_data(file)
               /\ load_user_mountpoints(config) = load_user_mountpoints(file)
<1> DEFINE config == store_user_session_command(file, cmd)
<1>1. Reloaded(file) \in UserConfig
  BY StorageAssumption
     DEF Reloaded, load_config_from_source, File, NewUserConfig, UserConfig
<1>2. /\ config \in UserConfig
      /\ config.auth_data = Reloaded(file).auth_data
      /\ config.mountpoints = Reloaded(file).mountpoints
  BY <1>1 DEF store_user_session_command, UserConfig
<1>3. load_config_from_source(config) = config /\ config \notin {None, Err}
  BY <1>2, StorageAssumption DEF load_config_from_source
<1> HIDE DEF config
<1>4. CASE file = Missing
  BY <1>2, <1>3, <1>4, StorageAssumption
     DEF load_user_auth_data, load_user_mountpoints, load_config_from_source, Reloaded,
         NewUserConfig, config
<1>5. CASE file \in UserConfig
  <2>1. /\ load_config_from_source(file) = file /\ file \notin {None, Err}
        /\ Reloaded(file) = file
    BY <1>5, StorageAssumption DEF load_config_from_source, Reloaded
  <2>2. QED
    BY <1>2, <1>3, <2>1 DEF load_user_auth_data, load_user_mountpoints, config
<1>6. QED
  BY <1>2, <1>4, <1>5 DEF config, File

\* store_user_auth_data: the data that is stored is the data that loads, if it has a
\* main password.
LEMMA StoredAuth ==
    ASSUME NEW file \in File \ {Torn}, NEW data \in UserAuthData
    PROVE  LET config == store_user_auth_data(file, data)
           IN  /\ config \in UserConfig
               /\ config.auth_data = data
               /\ load_user_session_command(config) = load_user_session_command(file)
               /\ load_user_auth_data(config) = (IF has_main(data) THEN data ELSE None)
               /\ load_user_mountpoints(config) = load_user_mountpoints(file)
<1> DEFINE config == store_user_auth_data(file, data)
<1>1. Reloaded(file) \in UserConfig
  BY StorageAssumption
     DEF Reloaded, load_config_from_source, File, NewUserConfig, UserConfig
<1>2. /\ config \in UserConfig
      /\ config.session_command = Reloaded(file).session_command
      /\ config.auth_data = data
      /\ config.mountpoints = Reloaded(file).mountpoints
  BY <1>1 DEF store_user_auth_data, UserConfig
<1>3. load_config_from_source(config) = config /\ config \notin {None, Err}
  BY <1>2, StorageAssumption DEF load_config_from_source
<1> HIDE DEF config
<1>4. load_user_auth_data(config) = (IF has_main(data) THEN data ELSE None)
  BY <1>2, <1>3, StorageAssumption DEF load_user_auth_data
<1>5. CASE file = Missing
  BY <1>2, <1>3, <1>4, <1>5, StorageAssumption
     DEF load_user_session_command, load_user_mountpoints, load_config_from_source,
         Reloaded, NewUserConfig, config
<1>6. CASE file \in UserConfig
  <2>1. /\ load_config_from_source(file) = file /\ file \notin {None, Err}
        /\ Reloaded(file) = file
    BY <1>6, StorageAssumption DEF load_config_from_source, Reloaded
  <2>2. QED
    BY <1>2, <1>3, <1>4, <2>1
       DEF load_user_session_command, load_user_mountpoints, config
<1>7. QED
  BY <1>5, <1>6 DEF File

\* store_user_mountpoints: the mounts that are stored are the mounts that load, in
\* whatever order the list was written.
LEMMA StoredMounts ==
    ASSUME NEW file \in File \ {Torn}, NEW mounts \in MountPoints \cup {None},
           NEW config \in store_user_mountpoints(file, mounts)
    PROVE  /\ config \in UserConfig
           /\ load_user_session_command(config) = load_user_session_command(file)
           /\ load_user_auth_data(config) = load_user_auth_data(file)
           /\ config.auth_data \in UserAuthData =>
                 file \in UserConfig /\ file.auth_data = config.auth_data
           /\ load_user_mountpoints(config) = mounts
<1>1. Reloaded(file) \in UserConfig
  BY StorageAssumption
     DEF Reloaded, load_config_from_source, File, NewUserConfig, UserConfig
<1>2. PICK list \in MountPointsConfig \cup {None} :
        /\ config = [Reloaded(file) EXCEPT !.mountpoints = list]
        /\ mounts = None => list = None
        /\ mounts # None => list # None /\ mounts = [home |-> list.home,
                                                     mounts |-> Premounts(list.additional)]
  <2>1. CASE mounts = None
    BY <2>1 DEF store_user_mountpoints
  <2>2. CASE mounts # None
    <3>1. PICK order \in Orders(mounts) :
            config = [Reloaded(file) EXCEPT !.mountpoints =
                         [home |-> mounts.home, additional |-> foreach(mounts, order)]]
      BY <2>2 DEF store_user_mountpoints
    <3> DEFINE list == [home |-> mounts.home, additional |-> foreach(mounts, order)]
    <3>2. mounts \in MountPoints
      BY <2>2
    <3>3. /\ foreach(mounts, order) \in Seq(Targets \X Params)
          /\ Premounts(foreach(mounts, order)) = mounts.mounts
      BY <3>2, PremountsRoundTrip
    <3>4. list \in MountPointsConfig
      BY <3>2, <3>3 DEF MountPointsConfig, MountPoints
    <3>5. mounts = [home |-> mounts.home, mounts |-> mounts.mounts]
      BY <3>2 DEF MountPoints
    <3>6. list # None
      BY <3>4, StorageAssumption
    <3>7. list.home = mounts.home /\ list.additional = foreach(mounts, order)
      OBVIOUS
    <3> HIDE DEF list
    <3>8. mounts = [home |-> list.home, mounts |-> Premounts(list.additional)]
      BY <3>3, <3>5, <3>7
    <3>9. config = [Reloaded(file) EXCEPT !.mountpoints = list]
      BY <3>1 DEF list
    <3>10. QED
      BY <2>2, <3>4, <3>6, <3>8, <3>9
  <2>3. QED
    BY <2>1, <2>2
<1>3. /\ config \in UserConfig
      /\ config.session_command = Reloaded(file).session_command
      /\ config.auth_data = Reloaded(file).auth_data
      /\ config.mountpoints = list
  BY <1>1, <1>2 DEF UserConfig
<1>4. load_config_from_source(config) = config /\ config \notin {None, Err}
  BY <1>3, StorageAssumption DEF load_config_from_source
<1>5. load_user_mountpoints(config) = mounts
  BY <1>2, <1>3, <1>4 DEF load_user_mountpoints
<1>6. CASE file = Missing
  <2>1. Reloaded(file) = NewUserConfig /\ load_config_from_source(file) = None
    BY <1>6, StorageAssumption DEF Reloaded, load_config_from_source
  <2>2. config.session_command = None /\ config.auth_data = None
    BY <1>3, <2>1 DEF NewUserConfig
  <2>3. QED
    BY <1>3, <1>4, <1>5, <2>1, <2>2, StorageAssumption
       DEF load_user_session_command, load_user_auth_data
<1>7. CASE file \in UserConfig
  <2>1. /\ load_config_from_source(file) = file /\ file \notin {None, Err}
        /\ Reloaded(file) = file
    BY <1>7, StorageAssumption DEF load_config_from_source, Reloaded
  <2>2. QED
    BY <1>3, <1>4, <1>5, <1>7, <2>1 DEF load_user_session_command, load_user_auth_data
<1>8. QED
  BY <1>6, <1>7 DEF File

-----------------------------------------------------------------------------
(* What a command plans to do.                                             *)

Accesses == [do : Stores \cup {"remove", "load_inner", "authorize"}, at : Sources]

\* The accesses each command plans (main.rs:229-677), as one function of the
\* invocation.
Plan(inv) ==
    CASE inv.op \in {"info", "inspect"} -> AsNeeded(inv)
      [] inv.op = "authorize" ->
             <<Access("load_inner", AuthorizeUser(inv)), Access("authorize", AuthorizeUser(inv))>>
                 \o AsNeeded(inv)
      [] inv.op = "set-session" ->
             <<Access("store_session", storage_source(inv))>> \o AsNeeded(inv)
      [] inv.op = "setup" ->
             <<Access("store_auth", setup_storage_source(inv)),
               Access("load_inner", setup_storage_source(inv)),
               Access("store_inner", setup_storage_source(inv))>>
             \o IF inv.config_file = None
                THEN <<Access("authorize", setup_storage_source(inv))>> ELSE <<>>
      [] inv.op = "reset" -> <<Access("remove", storage_source(inv))>>
      [] OTHER -> WriteFile(inv)

\* The mounts are loaded from the user's file before the i-th access.
InnerDue(todo, i) == \E j \in DOMAIN todo : j < i /\ todo[j].do = "load_inner"

\* What holds of every plan and of what is left of it.
Planned(todo, inv) ==
    /\ \A i \in DOMAIN todo :
          /\ todo[i].do \in Stores \cup {"remove"} => todo[i].at = Target(inv)
          /\ todo[i].do = "remove" => inv.op = "reset"
          /\ todo[i].do = "store_session" => inv.op = "set-session"
          /\ todo[i].do = "store_mounts" => inv.op \notin {"setup", "reset"}
          /\ todo[i].do = "store_inner" => inv.op = "setup"
          /\ todo[i].do \in {"load_inner", "authorize"} => inv.op \in {"setup", "authorize"}
          /\ todo[i].do \in {"load_inner", "authorize"} /\ inv.op = "setup" =>
                todo[i].at = Target(inv)
          /\ todo[i].do = "authorize" => todo[i].at \in Users
    /\ \A i, j \in DOMAIN todo :
          /\ i < j /\ todo[i].do \in Stores => inv.op = "setup" \/ todo[j].do \in Stores
          /\ i < j => todo[i].do # "remove"
          /\ todo[i].do \in {"load_inner", "authorize"}
             /\ todo[j].do \in {"load_inner", "authorize"} => todo[i].at = todo[j].at

\* An invocation that gets as far as planning.
Accepted(inv) ==
    /\ inv.op = "setup" => inv.username \in Users
    /\ inv.op = "authorize" => AuthorizeUser(inv) # None

\* The files an invocation reads and changes.
LEMMA InvocationFields ==
    ASSUME NEW inv \in Invocations
    PROVE  /\ inv \in Invocation
           /\ storage_source(inv) \in Sources
           /\ inv.op # "setup" => Target(inv) = storage_source(inv)
           /\ inv.op = "setup" => Target(inv) = setup_storage_source(inv)
           /\ Accepted(inv) => /\ Target(inv) \in Sources
                               /\ inv.op = "authorize" => AuthorizeUser(inv) \in Users
<1>1. inv \in Invocation
  BY PolyauthctlAssumption
<1>2. /\ inv.me \in Users /\ inv.username \in Users \cup {None}
      /\ inv.config_file \in Paths \cup {None}
  BY <1>1 DEF Invocation
<1>3. QED
  BY <1>1, <1>2 DEF storage_source, setup_storage_source, Target, Sources, Accepted,
                    AuthorizeUser

\* Where the elements of a concatenation come from.
LEMMA ConcatElements ==
    ASSUME NEW S, NEW s \in Seq(S), NEW t \in Seq(S)
    PROVE  /\ s \o t \in Seq(S)
           /\ \A i \in DOMAIN (s \o t) :
                 \/ i \in DOMAIN s /\ (s \o t)[i] = s[i]
                 \/ i > Len(s) /\ i - Len(s) \in DOMAIN t /\ (s \o t)[i] = t[i - Len(s)]
           /\ \A i \in DOMAIN s : i \in DOMAIN (s \o t) /\ (s \o t)[i] = s[i]
           /\ DOMAIN s = 1 .. Len(s) /\ Len(s) \in Nat
           /\ DOMAIN t = 1 .. Len(t) /\ Len(t) \in Nat
           /\ DOMAIN (s \o t) \subseteq Nat
<1>1. /\ s \o t \in Seq(S) /\ Len(s \o t) = Len(s) + Len(t)
      /\ \A i \in 1 .. Len(s) + Len(t) :
            (s \o t)[i] = IF i <= Len(s) THEN s[i] ELSE t[i - Len(s)]
  BY ConcatProperties
<1>2. /\ Len(s) \in Nat /\ DOMAIN s = 1 .. Len(s)
      /\ Len(t) \in Nat /\ DOMAIN t = 1 .. Len(t)
      /\ DOMAIN (s \o t) = 1 .. Len(s) + Len(t)
  BY <1>1, LenProperties
<1> DEFINE u == s \o t
           m == Len(s)
           n == Len(t)
<1>3. \A i \in 1 .. m + n : u[i] = IF i <= m THEN s[i] ELSE t[i - m]
  BY <1>1
<1>4. m \in Nat /\ n \in Nat /\ DOMAIN u = 1 .. m + n /\ DOMAIN s = 1 .. m /\ DOMAIN t = 1 .. n
  BY <1>2
<1> HIDE DEF u, m, n
<1>5. /\ \A i \in DOMAIN u :
            \/ i \in DOMAIN s /\ u[i] = s[i]
            \/ i > m /\ i - m \in DOMAIN t /\ u[i] = t[i - m]
      /\ \A i \in DOMAIN s : i \in DOMAIN u /\ u[i] = s[i]
      /\ DOMAIN u \subseteq Nat
  BY <1>3, <1>4
<1>6. QED
  BY <1>1, <1>2, <1>5 DEF u, m, n

\* The mounts are loaded before they are authorized or stored again.
InnerFirst(todo) ==
    \A i \in DOMAIN todo : todo[i].do \in {"authorize", "store_inner"} => InnerDue(todo, i)

\* Two parts that are planned one after the other.
LEMMA PlannedConcat ==
    ASSUME NEW s \in Seq(Accesses), NEW t \in Seq(Accesses), NEW inv,
           Planned(s, inv), Planned(t, inv),
           \A i \in DOMAIN s : \A j \in DOMAIN t :
              /\ s[i].do \in Stores => inv.op = "setup" \/ t[j].do \in Stores
              /\ s[i].do # "remove"
              /\ s[i].do \in {"load_inner", "authorize"}
                 /\ t[j].do \in {"load_inner", "authorize"} => s[i].at = t[j].at,
           InnerFirst(s),
           \A j \in DOMAIN t : t[j].do \in {"authorize", "store_inner"} =>
              \E i \in DOMAIN s : s[i].do = "load_inner"
    PROVE  s \o t \in Seq(Accesses) /\ Planned(s \o t, inv) /\ InnerFirst(s \o t)
<1> DEFINE u == s \o t
           m == Len(s)
           P(a) == /\ a.do \in Stores \cup {"remove"} => a.at = Target(inv)
                   /\ a.do = "remove" => inv.op = "reset"
                   /\ a.do = "store_session" => inv.op = "set-session"
                   /\ a.do = "store_mounts" => inv.op \notin {"setup", "reset"}
                   /\ a.do = "store_inner" => inv.op = "setup"
                   /\ a.do \in {"load_inner", "authorize"} => inv.op \in {"setup", "authorize"}
                   /\ a.do \in {"load_inner", "authorize"} /\ inv.op = "setup" =>
                         a.at = Target(inv)
                   /\ a.do = "authorize" => a.at \in Users
           Q(i, j, a, b) == /\ i < j /\ a.do \in Stores => inv.op = "setup" \/ b.do \in Stores
                            /\ i < j => a.do # "remove"
                            /\ a.do \in {"load_inner", "authorize"}
                               /\ b.do \in {"load_inner", "authorize"} => a.at = b.at
<1>1. /\ u \in Seq(Accesses)
      /\ \A i \in DOMAIN u : \/ i \in DOMAIN s /\ u[i] = s[i]
                             \/ i > m /\ i - m \in DOMAIN t /\ u[i] = t[i - m]
      /\ \A i \in DOMAIN s : i \in DOMAIN u /\ u[i] = s[i]
      /\ DOMAIN s = 1 .. m /\ m \in Nat /\ DOMAIN t = 1 .. Len(t) /\ Len(t) \in Nat
      /\ DOMAIN u \subseteq Nat
  BY ConcatElements
<1>2. /\ \A i \in DOMAIN s : P(s[i])
      /\ \A i \in DOMAIN t : P(t[i])
      /\ \A i, j \in DOMAIN s : Q(i, j, s[i], s[j])
      /\ \A i, j \in DOMAIN t : Q(i, j, t[i], t[j])
  BY DEF Planned
<1>3. Planned(u, inv) <=> /\ \A i \in DOMAIN u : P(u[i])
                          /\ \A i, j \in DOMAIN u : Q(i, j, u[i], u[j])
  BY DEF Planned
<1> HIDE DEF u, m
<1>4. \A i \in DOMAIN u : P(u[i])
  <2> HIDE DEF P
  <2> QED
    BY <1>1, <1>2
<1>5. ASSUME NEW i \in DOMAIN u, NEW j \in DOMAIN u PROVE Q(i, j, u[i], u[j])
  <2>1. CASE i \in DOMAIN s /\ j \in DOMAIN s
    <3> HIDE DEF Q
    <3> QED
      BY <1>1, <1>2, <2>1
  <2>2. CASE i \notin DOMAIN s /\ j \notin DOMAIN s
    <3>1. /\ i \in Nat /\ j \in Nat /\ m \in Nat
          /\ i - m \in DOMAIN t /\ u[i] = t[i - m] /\ j - m \in DOMAIN t /\ u[j] = t[j - m]
      BY <1>1, <2>2
    <3>2. i < j <=> i - m < j - m
      BY <3>1
    <3>3. Q(i - m, j - m, u[i], u[j])
      <4> HIDE DEF Q
      <4> QED
        BY <1>2, <3>1
    <3>4. QED
      BY <3>2, <3>3
  <2>3. CASE i \in DOMAIN s /\ j \notin DOMAIN s
    <3>1. u[i] = s[i] /\ j - m \in DOMAIN t /\ u[j] = t[j - m]
      BY <1>1, <2>3
    <3>2. QED
      BY <2>3, <3>1
  <2>4. CASE i \notin DOMAIN s /\ j \in DOMAIN s
    <3>1. u[j] = s[j] /\ i - m \in DOMAIN t /\ u[i] = t[i - m] /\ ~ (i < j)
      BY <1>1, <2>4
    <3>2. QED
      BY <2>4, <3>1
  <2>5. QED
    BY <2>1, <2>2, <2>3, <2>4
<1>6. InnerFirst(u)
  <2>1. ASSUME NEW i \in DOMAIN u, u[i].do \in {"authorize", "store_inner"}
        PROVE  \E k \in DOMAIN u : k < i /\ u[k].do = "load_inner"
    <3>1. CASE i \in DOMAIN s
      <4>1. PICK k \in DOMAIN s : k < i /\ s[k].do = "load_inner"
        BY <1>1, <2>1, <3>1 DEF InnerFirst, InnerDue
      <4>2. QED
        BY <1>1, <4>1
    <3>2. CASE i \notin DOMAIN s
      <4>1. i > m /\ i - m \in DOMAIN t /\ u[i] = t[i - m]
        BY <1>1, <3>2
      <4>2. PICK k \in DOMAIN s : s[k].do = "load_inner"
        BY <2>1, <4>1
      <4>3. k < i
        BY <1>1, <4>1
      <4>4. QED
        BY <1>1, <4>2, <4>3
    <3>3. QED
      BY <3>1, <3>2
  <2>2. QED
    BY <2>1 DEF InnerFirst, InnerDue
<1>7. Planned(u, inv)
  <2> HIDE DEF P, Q
  <2> QED
    BY <1>3, <1>4, <1>5
<1>8. QED
  BY <1>1, <1>6, <1>7 DEF u

\* The short sequences a plan is made of.
LEMMA ShortSequences ==
    ASSUME NEW a \in Accesses, NEW b \in Accesses, NEW c \in Accesses
    PROVE  /\ <<>> \in Seq(Accesses) /\ DOMAIN <<>> = {}
           /\ <<a>> \in Seq(Accesses) /\ DOMAIN <<a>> = {1} /\ <<a>>[1] = a
           /\ <<a, b>> \in Seq(Accesses) /\ DOMAIN <<a, b>> = {1, 2}
           /\ <<a, b>>[1] = a /\ <<a, b>>[2] = b
           /\ <<a, b, c>> \in Seq(Accesses) /\ DOMAIN <<a, b, c>> = {1, 2, 3}
           /\ <<a, b, c>>[1] = a /\ <<a, b, c>>[2] = b /\ <<a, b, c>>[3] = c
  OBVIOUS

\* What an access is made of.
LEMMA AccessFields ==
    ASSUME NEW do \in Stores \cup {"remove", "load_inner", "authorize"}, NEW at \in Sources
    PROVE  Access(do, at) \in Accesses /\ Access(do, at).do = do /\ Access(do, at).at = at
  BY DEF Access, Accesses

\* Lines 671-677, stored only when it was asked for.
LEMMA WriteFilePlanned ==
    ASSUME NEW inv \in Invocations, Accepted(inv), inv.op \notin {"setup", "reset"}
    PROVE  \A t \in {WriteFile(inv), AsNeeded(inv)} :
              /\ t \in Seq(Accesses) /\ Planned(t, inv) /\ InnerFirst(t)
              /\ \A j \in DOMAIN t : t[j].do \in {"store_auth", "store_mounts"}
<1> DEFINE a == Access("store_auth", storage_source(inv))
           b == Access("store_mounts", storage_source(inv))
<1>1. storage_source(inv) \in Sources /\ storage_source(inv) = Target(inv)
  BY InvocationFields
<1>2. /\ a \in Accesses /\ a.do = "store_auth" /\ a.at = Target(inv)
      /\ b \in Accesses /\ b.do = "store_mounts" /\ b.at = Target(inv)
  BY <1>1, AccessFields DEF Stores
<1>3. WriteFile(inv) = <<a, b>> /\ AsNeeded(inv) \in {<<>>, <<a, b>>}
  BY DEF AsNeeded, WriteFile
<1> HIDE DEF a, b
<1>4. /\ <<>> \in Seq(Accesses) /\ DOMAIN <<>> = {}
      /\ <<a, b>> \in Seq(Accesses) /\ DOMAIN <<a, b>> = {1, 2}
      /\ <<a, b>>[1] = a /\ <<a, b>>[2] = b
  BY <1>2, ShortSequences
<1>5. Planned(<<a, b>>, inv)
  BY <1>2, <1>4 DEF Planned, Stores
<1>6. Planned(<<>>, inv) /\ InnerFirst(<<>>)
  BY <1>4 DEF Planned, InnerFirst
<1>7. InnerFirst(<<a, b>>)
  BY <1>2, <1>4 DEF InnerFirst
<1>8. QED
  BY <1>2, <1>3, <1>4, <1>5, <1>6, <1>7

\* Every plan is as Planned says, and begins without mounts to authorize.
LEMMA PlanFacts ==
    ASSUME NEW inv \in Invocations, Accepted(inv)
    PROVE  /\ Plan(inv) \in Seq(Accesses) /\ Planned(Plan(inv), inv) /\ InnerFirst(Plan(inv))
           /\ inv.op = "add" => \E i \in DOMAIN Plan(inv) : Plan(inv)[i].do = "store_auth"
<1> DEFINE T == Target(inv)
           U == AuthorizeUser(inv)
<1>1. /\ T \in Sources /\ inv \in Invocation
      /\ inv.op # "setup" => T = storage_source(inv)
      /\ inv.op = "setup" => T = setup_storage_source(inv)
      /\ inv.op = "authorize" => U \in Users
  BY InvocationFields
<1>2. Users \subseteq Sources
  BY DEF Sources
<1>3. CASE inv.op \notin {"authorize", "set-session", "setup", "reset"}
  <2>1. Plan(inv) \in {WriteFile(inv), AsNeeded(inv)} /\ (inv.op = "add" => Plan(inv) = WriteFile(inv))
    BY <1>1, <1>3 DEF Plan
  <2>2. WriteFile(inv)[1].do = "store_auth" /\ 1 \in DOMAIN WriteFile(inv)
    BY DEF WriteFile, Access
  <2>3. QED
    BY <1>3, <2>1, <2>2, WriteFilePlanned
<1>4. CASE inv.op = "authorize"
  <2> DEFINE a == Access("load_inner", U)
             b == Access("authorize", U)
  <2>1. Plan(inv) = <<a, b>> \o AsNeeded(inv)
    BY <1>4 DEF Plan
  <2>2. /\ a \in Accesses /\ a.do = "load_inner" /\ a.at = U
        /\ b \in Accesses /\ b.do = "authorize" /\ b.at = U
    BY <1>1, <1>2, <1>4, AccessFields
  <2> HIDE DEF a, b
  <2>3. /\ <<a, b>> \in Seq(Accesses) /\ DOMAIN <<a, b>> = {1, 2}
        /\ <<a, b>>[1] = a /\ <<a, b>>[2] = b
    BY <2>2, ShortSequences
  <2>4. Planned(<<a, b>>, inv)
    BY <1>1, <1>4, <2>2, <2>3 DEF Planned, Stores
  <2>5. InnerFirst(<<a, b>>)
    BY <2>2, <2>3 DEF InnerFirst, InnerDue
  <2> DEFINE t == AsNeeded(inv)
             s == <<a, b>>
  <2>6. /\ t \in Seq(Accesses) /\ Planned(t, inv)
        /\ \A j \in DOMAIN t : t[j].do \in {"store_auth", "store_mounts"}
    BY <1>4, WriteFilePlanned
  <2>7. \A i \in DOMAIN s : s[i].do \in {"load_inner", "authorize", "store_session"}
    BY <2>2, <2>3
  <2> HIDE DEF s, t
  <2>8. s \in Seq(Accesses) /\ Planned(s, inv) /\ InnerFirst(s)
    BY <2>3, <2>4, <2>5 DEF s
  <2>9. s \o t \in Seq(Accesses) /\ Planned(s \o t, inv) /\ InnerFirst(s \o t)
    BY <2>6, <2>7, <2>8, PlannedConcat DEF Stores
  <2>10. QED
    BY <1>4, <2>1, <2>9 DEF s, t
<1>5. CASE inv.op = "set-session"
  <2> DEFINE a == Access("store_session", T)
  <2>1. Plan(inv) = <<a>> \o AsNeeded(inv)
    BY <1>1, <1>5 DEF Plan
  <2>2. a \in Accesses /\ a.do = "store_session" /\ a.at = T
    BY <1>1, AccessFields DEF Stores
  <2> HIDE DEF a
  <2>3. <<a>> \in Seq(Accesses) /\ DOMAIN <<a>> = {1} /\ <<a>>[1] = a
    BY <2>2, ShortSequences
  <2>4. Planned(<<a>>, inv)
    BY <1>5, <2>2, <2>3 DEF Planned, Stores
  <2>5. InnerFirst(<<a>>)
    BY <2>2, <2>3 DEF InnerFirst
  <2> DEFINE t == AsNeeded(inv)
             s == <<a>>
  <2>6. /\ t \in Seq(Accesses) /\ Planned(t, inv)
        /\ \A j \in DOMAIN t : t[j].do \in {"store_auth", "store_mounts"}
    BY <1>5, WriteFilePlanned
  <2>7. \A i \in DOMAIN s : s[i].do \in {"load_inner", "authorize", "store_session"}
    BY <2>2, <2>3
  <2> HIDE DEF s, t
  <2>8. s \in Seq(Accesses) /\ Planned(s, inv) /\ InnerFirst(s)
    BY <2>3, <2>4, <2>5 DEF s
  <2>9. s \o t \in Seq(Accesses) /\ Planned(s \o t, inv) /\ InnerFirst(s \o t)
    BY <2>6, <2>7, <2>8, PlannedConcat DEF Stores
  <2>10. QED
    BY <1>5, <2>1, <2>9 DEF s, t
<1>6. CASE inv.op = "setup"
  <2> DEFINE a == Access("store_auth", T)
             b == Access("load_inner", T)
             c == Access("store_inner", T)
             d == Access("authorize", T)
             t == IF inv.config_file = None THEN <<d>> ELSE <<>>
  <2>1. Plan(inv) = <<a, b, c>> \o t
    BY <1>1, <1>6 DEF Plan
  <2>2. /\ a \in Accesses /\ a.do = "store_auth" /\ a.at = T
        /\ b \in Accesses /\ b.do = "load_inner" /\ b.at = T
        /\ c \in Accesses /\ c.do = "store_inner" /\ c.at = T
        /\ d \in Accesses /\ d.do = "authorize" /\ d.at = T
    BY <1>1, AccessFields DEF Stores
  <2>3. inv.config_file = None => T \in Users
    BY <1>1, <1>6 DEF setup_storage_source, Accepted
  <2> HIDE DEF a, b, c, d
  <2>4. /\ <<a, b, c>> \in Seq(Accesses) /\ DOMAIN <<a, b, c>> = {1, 2, 3}
        /\ <<a, b, c>>[1] = a /\ <<a, b, c>>[2] = b /\ <<a, b, c>>[3] = c
        /\ <<>> \in Seq(Accesses) /\ DOMAIN <<>> = {}
        /\ <<d>> \in Seq(Accesses) /\ DOMAIN <<d>> = {1} /\ <<d>>[1] = d
    BY <2>2, ShortSequences
  <2>5. Planned(<<a, b, c>>, inv)
    BY <1>6, <2>2, <2>4 DEF Planned, Stores
  <2>6. Planned(t, inv) /\ t \in Seq(Accesses)
    BY <1>6, <2>2, <2>3, <2>4 DEF Planned, Stores
  <2>7. InnerFirst(<<a, b, c>>)
    BY <2>2, <2>4 DEF InnerFirst, InnerDue
  <2>8. \A j \in DOMAIN t : t[j] = d
    BY <2>4
  <2> HIDE DEF t
  <2> DEFINE s == <<a, b, c>>
  <2>9. /\ \A i \in DOMAIN s : s[i].do # "remove" /\ s[i].at = T
        /\ 2 \in DOMAIN s /\ s[2].do = "load_inner"
    BY <2>2, <2>4
  <2>10. s \in Seq(Accesses) /\ Planned(s, inv) /\ InnerFirst(s)
    BY <2>4, <2>5, <2>7
  <2> HIDE DEF s
  <2>11. /\ \A i \in DOMAIN s : \A j \in DOMAIN t : s[i].at = t[j].at
         /\ \E i \in DOMAIN s : s[i].do = "load_inner"
    BY <2>2, <2>8, <2>9
  <2>12. s \o t \in Seq(Accesses) /\ Planned(s \o t, inv) /\ InnerFirst(s \o t)
    <3> HIDE DEF t, T
    <3> QED
      BY <1>6, <2>6, <2>9, <2>10, <2>11, PlannedConcat
  <2>13. QED
    BY <1>6, <2>1, <2>12 DEF s
<1>7. CASE inv.op = "reset"
  <2> DEFINE a == Access("remove", T)
  <2>1. Plan(inv) = <<a>>
    BY <1>1, <1>7 DEF Plan
  <2>2. a \in Accesses /\ a.do = "remove" /\ a.at = T
    BY <1>1, AccessFields
  <2> HIDE DEF a
  <2>3. <<a>> \in Seq(Accesses) /\ DOMAIN <<a>> = {1} /\ <<a>>[1] = a
    BY <2>2, ShortSequences
  <2>4. QED
    BY <1>7, <2>1, <2>2, <2>3 DEF Planned, Stores, InnerFirst
<1>8. QED
  BY <1>3, <1>4, <1>5, <1>6, <1>7

\* What is left of a plan after its first access is as Planned says.
LEMMA PlannedTail ==
    ASSUME NEW todo \in Seq(Accesses), todo # <<>>, NEW inv, Planned(todo, inv)
    PROVE  /\ Head(todo) = todo[1] /\ Head(todo) \in Accesses /\ 1 \in DOMAIN todo
           /\ Tail(todo) \in Seq(Accesses) /\ Planned(Tail(todo), inv)
           /\ \A i \in DOMAIN Tail(todo) :
                 i \in Nat /\ i >= 1 /\ i + 1 \in DOMAIN todo /\ Tail(todo)[i] = todo[i + 1]
           /\ \A i \in DOMAIN todo :
                 i \in Nat /\ i >= 1 /\ (i # 1 => i - 1 \in DOMAIN Tail(todo))
<1> DEFINE tail == Tail(todo)
           n == Len(todo)
<1>1. /\ Head(todo) = todo[1] /\ Head(todo) \in Accesses /\ tail \in Seq(Accesses)
      /\ Len(tail) = n - 1 /\ n \in Nat /\ n # 0
      /\ DOMAIN todo = 1 .. n /\ DOMAIN tail = 1 .. (n - 1)
  BY HeadTailProperties, LenProperties, EmptySeq
<1>2. \A i \in 1 .. (n - 1) : tail[i] = todo[i + 1]
  BY <1>1, HeadTailProperties
<1> HIDE DEF tail, n
<1>3. \A i \in DOMAIN tail :
         i \in Nat /\ i >= 1 /\ i + 1 \in DOMAIN todo /\ tail[i] = todo[i + 1]
  BY <1>1, <1>2
<1>4. \A i \in DOMAIN todo : i \in Nat /\ i >= 1 /\ (i # 1 => i - 1 \in DOMAIN tail)
  BY <1>1
<1>5. Planned(tail, inv)
  <2>1. \A i, j \in DOMAIN tail : (i < j <=> i + 1 < j + 1)
    BY <1>3
  <2>2. QED
    BY <1>3, <2>1 DEF Planned
<1>6. QED
  BY <1>1, <1>3, <1>4, <1>5 DEF tail

-----------------------------------------------------------------------------
(* Type correctness.                                                       *)

\* What a command makes of the data and the mounts it loaded.
Computed(inv, cfg, mounts, new_cfg, new_mounts) ==
    /\ inv.op \notin {"setup", "add"} => new_cfg = cfg
    /\ inv.op \notin {"set-home-mount", "set-pre-mount"} => new_mounts = mounts
    /\ inv.op = "setup" =>
          /\ ~ has_main(cfg)
          /\ new_cfg \in WithMain(cfg, inv.password, inv.intermediate)
    /\ inv.op = "add" =>
          \E with_main \in UserAuthData :
             /\ \/ with_main = cfg
                \/ /\ MaySetMain(cfg, inv.intermediate)
                   /\ inv.password \in Secrets
                   /\ with_main \in WithMain(cfg, inv.password, inv.intermediate)
             /\ MayAdd(with_main, inv.intermediate)
             /\ new_cfg \in WithSecondary(with_main, inv.intermediate, inv.secondary_pw)

RunCommand(p) ==
    \/ InfoOrInspect(p) \/ MountAuthorize(p) \/ ChangeSecondaryMount(p)
    \/ ChangeMainMount(p) \/ SetSession(p) \/ Setup(p) \/ SetupRefused(p)
    \/ Reset(p) \/ Add(p) \/ AddRefused(p)

\* A process that is not idle.
LEMMA ProcessFields ==
    ASSUME TypeOK, NEW p \in Procs, procs[p].pc # "idle"
    PROVE  /\ procs[p] \in Running
           /\ Inv(p) \in Invocations /\ Inv(p) \in Invocation /\ Complete(Inv(p))
           /\ user_cfg(p) \in UserAuthData
           /\ user_mounts(p) \in MountPoints \cup {None}
           /\ procs[p].inner \in MountPoints \cup {None}
           /\ procs[p].todo \in Seq(Accesses)
           /\ procs[p].config \in UserConfig
<1>1. procs[p] \in Running
  BY DEF TypeOK, Idle
<1>2. QED
  BY <1>1, PolyauthctlAssumption DEF Running, Inv, user_cfg, user_mounts, Accesses

\* Every command fails, or goes on with its plan.
LEMMA CommandStep ==
    ASSUME TypeOK, NEW p \in Procs, RunCommand(p)
    PROVE  /\ At(p, "command")
           /\ \/ Fail(p)
              \/ /\ Accepted(Inv(p))
                 /\ \E cfg \in UserAuthData, mounts \in MountPoints \cup {None} :
                       /\ Proceed(p, cfg, mounts, Plan(Inv(p)))
                       /\ Computed(Inv(p), user_cfg(p), user_mounts(p), cfg, mounts)
<1> DEFINE inv == Inv(p)
           cfg0 == user_cfg(p)
           mounts0 == user_mounts(p)
<1>1. At(p, "command")
  BY DEF RunCommand, Command, InfoOrInspect, MountAuthorize, ChangeSecondaryMount,
         ChangeMainMount, SetSession, Setup, SetupRefused, Reset, Add, AddRefused
<1>2. /\ inv \in Invocations /\ inv \in Invocation /\ Complete(inv)
      /\ cfg0 \in UserAuthData /\ mounts0 \in MountPoints \cup {None}
  BY <1>1, ProcessFields DEF At
<1>3. CASE InfoOrInspect(p)
  <2>1. inv.op \in {"info", "inspect"} /\ (Fail(p) \/ Proceed(p, cfg0, mounts0, Plan(inv)))
    BY <1>3 DEF InfoOrInspect, Command, Plan
  <2>2. QED
    BY <1>1, <1>2, <2>1 DEF Computed, Accepted
<1>4. CASE MountAuthorize(p)
  <2>1. /\ inv.op = "authorize"
        /\ Fail(p) \/ (AuthorizeUser(inv) # None /\ Proceed(p, cfg0, mounts0, Plan(inv)))
    BY <1>4 DEF MountAuthorize, Command, Plan
  <2>2. QED
    BY <1>1, <1>2, <2>1 DEF Computed, Accepted
<1>5. CASE ChangeSecondaryMount(p)
  <2> DEFINE m == with_premount(mounts0, inv.dir, inv.params)
  <2>1. /\ inv.op = "set-pre-mount"
        /\ Fail(p) \/ (mounts0 # None /\ Proceed(p, cfg0, m, Plan(inv)))
    BY <1>5 DEF ChangeSecondaryMount, Command, Plan
  <2>2. mounts0 # None => m \in MountPoints
    <3>1. inv.dir \in Targets /\ inv.params \in Params
      BY <1>2, <2>1 DEF Complete
    <3>2. ASSUME mounts0 \in MountPoints PROVE m \in MountPoints
      <4> DEFINE f == mounts0.mounts
                 D == DOMAIN f
                 g == [d \in D \cup {inv.dir} |-> IF d = inv.dir THEN inv.params ELSE f[d]]
      <4>1. D \subseteq Targets /\ f \in [D -> Params]
        BY <3>2 DEF MountPoints
      <4>2. g \in [D \cup {inv.dir} -> Params] /\ D \cup {inv.dir} \in SUBSET Targets
        BY <3>1, <4>1
      <4>3. m = [mounts0 EXCEPT !.mounts = g]
        BY DEF with_premount
      <4> HIDE DEF g, m, f
      <4>4. g \in UNION {[E -> Params] : E \in SUBSET Targets}
        BY <4>2
      <4>5. QED
        BY <3>2, <4>3, <4>4 DEF MountPoints
    <3>3. QED
      BY <1>2, <3>2
  <2> HIDE DEF m
  <2>3. QED
    BY <1>1, <1>2, <2>1, <2>2 DEF Computed, Accepted
<1>6. CASE ChangeMainMount(p)
  <2> DEFINE m == IF mounts0 = None
                  THEN [home |-> inv.params, mounts |-> [d \in {} |-> None]]
                  ELSE with_mount(mounts0, inv.params)
  <2>1. inv.op = "set-home-mount" /\ Proceed(p, cfg0, m, Plan(inv))
    BY <1>6 DEF ChangeMainMount, Command, Plan
  <2>2. m \in MountPoints
    <3>1. inv.params \in Params
      BY <1>2, <2>1 DEF Complete
    <3>2. [d \in {} |-> None] \in UNION {[E -> Params] : E \in SUBSET Targets}
      <4>1. [d \in {} |-> None] \in [{} -> Params] /\ {} \in SUBSET Targets
        OBVIOUS
      <4>2. QED
        BY <4>1
    <3>3. QED
      BY <1>2, <3>1, <3>2 DEF MountPoints, with_mount
  <2> HIDE DEF m
  <2>3. QED
    BY <1>1, <1>2, <2>1, <2>2 DEF Computed, Accepted
<1>7. CASE SetSession(p)
  <2>1. inv.op = "set-session" /\ Proceed(p, cfg0, mounts0, Plan(inv))
    BY <1>7 DEF SetSession, Command, Plan
  <2>2. QED
    BY <1>1, <1>2, <2>1 DEF Computed, Accepted
<1>8. CASE Setup(p)
  <2>1. PICK cfg \in WithMain(cfg0, inv.password, inv.intermediate) :
          /\ inv.op = "setup" /\ inv.username \in Users /\ ~ has_main(cfg0)
          /\ Proceed(p, cfg, mounts0, Plan(inv))
    BY <1>8 DEF Setup, SetupAllowed, Command, Plan
  <2>2. inv.password \in Secrets /\ inv.intermediate \in Secrets
    BY <1>2, <2>1 DEF Complete
  <2>3. cfg \in UserAuthData
    BY <1>2, <2>2, NewMainSealed
  <2>4. QED
    BY <1>1, <1>2, <2>1, <2>3 DEF Computed, Accepted
<1>9. CASE SetupRefused(p) \/ AddRefused(p)
  BY <1>1, <1>9 DEF SetupRefused, AddRefused
<1>10. CASE Reset(p)
  <2>1. inv.op = "reset" /\ Proceed(p, cfg0, mounts0, Plan(inv))
    BY <1>10 DEF Reset, Command, Plan
  <2>2. QED
    BY <1>1, <1>2, <2>1 DEF Computed, Accepted
<1>11. CASE Add(p)
  <2>1. inv.op = "add"
    BY <1>11 DEF Add, Command
  <2>2. inv.intermediate \in Secrets /\ inv.secondary_pw \in Secrets
    BY <1>2, <2>1 DEF Complete
  <2>3. PICK with_main \in AddMain(p) :
          /\ MayAdd(with_main, inv.intermediate)
          /\ \E cfg \in WithSecondary(with_main, inv.intermediate, inv.secondary_pw) :
                Proceed(p, cfg, mounts0, WriteFile(inv))
    BY <1>11 DEF Add
  <2>4. PICK cfg \in WithSecondary(with_main, inv.intermediate, inv.secondary_pw) :
          Proceed(p, cfg, mounts0, Plan(inv))
    BY <2>1, <2>3 DEF Plan
  <2>5. \/ with_main = cfg0
        \/ /\ MaySetMain(cfg0, inv.intermediate) /\ inv.password \in Secrets
           /\ with_main \in WithMain(cfg0, inv.password, inv.intermediate)
    <3>1. inv.password \in Secrets \cup {None}
      BY <1>2 DEF Invocation
    <3>2. QED
      BY <3>1, Zenon DEF AddMain
  <2>6. with_main \in UserAuthData
    BY <1>2, <2>2, <2>5, NewMainSealed
  <2>7. cfg \in UserAuthData
    BY <2>2, <2>6, SecondaryAdded
  <2>8. Computed(inv, cfg0, mounts0, cfg, mounts0)
    BY <2>1, <2>3, <2>5, <2>6 DEF Computed
  <2>9. Accepted(inv)
    BY <2>1 DEF Accepted
  <2>10. QED
    BY <1>1, <1>2, <2>4, <2>7, <2>8, <2>9
<1>12. QED
  BY <1>3, <1>4, <1>5, <1>6, <1>7, <1>8, <1>9, <1>10, <1>11 DEF RunCommand

\* What is left to do is part of a plan, and what is being stored is next in it.
ProcInv(r) ==
    r.pc # "idle" =>
        /\ r.pc \in {"truncate", "write"} => r.todo # <<>> /\ Head(r.todo).do \in Stores
        /\ r.pc \in {"todo", "truncate", "write", "finished"} =>
              Accepted(r.inv) /\ Planned(r.todo, r.inv)

BaseInv == TypeOK /\ \A p \in Procs : ProcInv(procs[p])

\* A step of a process on its locals keeps the types.
LEMMA LocallyKeeps ==
    ASSUME BaseInv, NEW p \in Procs, NEW r \in Running, ProcInv(r), Locally(p, r)
    PROVE  BaseInv'
  BY DEF BaseInv, TypeOK, Locally

\* A step that leaves contents in a file keeps the types.
LEMMA PutKeeps ==
    ASSUME BaseInv, NEW p \in Procs, NEW r \in Running, ProcInv(r),
           NEW source \in Sources, NEW contents \in File,
           Put(p, source, contents), procs' = [procs EXCEPT ![p] = r]
    PROVE  BaseInv'
<1>1. load_user_mountpoints(contents) \in MountPoints \cup {None, Err}
  BY LoadTypes
<1>2. /\ files' \in [Sources -> File] /\ procs' \in [Procs -> Running \cup {Idle}]
      /\ before' \in [Procs -> [Sources -> File] \cup {None}]
      /\ authorizations' = authorizations /\ starts' = starts
  BY DEF BaseInv, TypeOK, Put
<1>2a. handle' \in [Procs -> {"own", "shared", "unlinked"}]
  <2>1. ASSUME NEW q \in Procs PROVE handle'[q] \in {"own", "shared", "unlinked"}
    <3>1. handle[q] \in {"own", "shared", "unlinked"}
      BY DEF BaseInv, TypeOK
    <3>2. handle'[q] \in {"own", "shared", "unlinked", handle[q]}
      BY DEF Put
    <3>3. QED
      BY <3>1, <3>2
  <2>2. handle' = [q \in Procs |-> handle'[q]]
    BY DEF Put
  <2>3. QED
    BY <2>1, <2>2
<1>3. held' \in [Users -> SUBSET MountPoints]
  BY <1>1 DEF BaseInv, TypeOK, Put
<1>4. \A q \in Procs : ProcInv(procs'[q])
  BY DEF BaseInv, TypeOK
<1>5. QED
  BY <1>2a, <1>2, <1>3, <1>4 DEF BaseInv, TypeOK

\* The access at the head of the plan, and what is left when it is done.
LEMMA NextAccess ==
    ASSUME BaseInv, NEW p \in Procs, procs[p].pc \in {"todo", "truncate", "write"},
           procs[p].todo # <<>>
    PROVE  /\ procs[p] \in Running /\ Accepted(Inv(p)) /\ Planned(procs[p].todo, Inv(p))
           /\ Head(procs[p].todo) = procs[p].todo[1] /\ 1 \in DOMAIN procs[p].todo
           /\ Head(procs[p].todo) \in Accesses
           /\ Source(p) \in Sources
           /\ Done(p) \in Running /\ ProcInv(Done(p))
           /\ Done(p) = [procs[p] EXCEPT !.pc = "todo", !.todo = Tail(procs[p].todo)]
           /\ Tail(procs[p].todo) \in Seq(Accesses) /\ Planned(Tail(procs[p].todo), Inv(p))
           /\ \A i \in DOMAIN Tail(procs[p].todo) :
                 /\ i \in Nat /\ i >= 1 /\ i + 1 \in DOMAIN procs[p].todo
                 /\ Tail(procs[p].todo)[i] = procs[p].todo[i + 1]
           /\ \A i \in DOMAIN procs[p].todo :
                 i \in Nat /\ i >= 1 /\ (i # 1 => i - 1 \in DOMAIN Tail(procs[p].todo))
<1> DEFINE todo == procs[p].todo
<1>1. /\ procs[p] \in Running /\ Accepted(Inv(p)) /\ Planned(todo, Inv(p))
      /\ todo \in Seq(Accesses) /\ TypeOK
  BY ProcessFields DEF BaseInv, ProcInv, Inv
<1>2. /\ Head(todo) = todo[1] /\ Head(todo) \in Accesses /\ 1 \in DOMAIN todo
      /\ Tail(todo) \in Seq(Accesses) /\ Planned(Tail(todo), Inv(p))
      /\ \A i \in DOMAIN Tail(todo) :
            i \in Nat /\ i >= 1 /\ i + 1 \in DOMAIN todo /\ Tail(todo)[i] = todo[i + 1]
      /\ \A i \in DOMAIN todo :
            i \in Nat /\ i >= 1 /\ (i # 1 => i - 1 \in DOMAIN Tail(todo))
  BY <1>1, PlannedTail
<1>3. Source(p) \in Sources
  BY <1>2 DEF Source, Accesses
<1>4. Done(p) = [procs[p] EXCEPT !.pc = "todo", !.todo = Tail(todo)]
  BY DEF Done
<1>5. Done(p) \in Running
  BY <1>1, <1>2, <1>4 DEF Running, Accesses
<1>6. ProcInv(Done(p))
  <2>1. Done(p).pc = "todo" /\ Done(p).inv = Inv(p) /\ Done(p).todo = Tail(todo)
    BY <1>1, <1>4 DEF Running, Inv
  <2>2. QED
    BY <1>1, <1>2, <2>1 DEF ProcInv
<1>7. QED
  BY <1>1, <1>2, <1>3, <1>4, <1>5, <1>6

\* What a store makes of the file it loads.
LEMMA ReplacedFacts ==
    ASSUME BaseInv, NEW p \in Procs, Next_(p, Stores), files[Source(p)] # Torn,
           NEW config \in Replaced(p, files[Source(p)])
    PROVE  LET file == files[Source(p)]
               do == Head(procs[p].todo).do
           IN  /\ config \in UserConfig
               /\ do \in Stores
               /\ file \in File
               /\ do # "store_session" =>
                     load_user_session_command(config) = load_user_session_command(file)
               /\ do # "store_auth" =>
                     load_user_auth_data(config) = load_user_auth_data(file)
               /\ do \notin {"store_mounts", "store_inner"} =>
                     load_user_mountpoints(config) = load_user_mountpoints(file)
               /\ do = "store_auth" =>
                     load_user_auth_data(config) =
                        (IF has_main(user_cfg(p)) THEN user_cfg(p) ELSE None)
               /\ do = "store_mounts" => load_user_mountpoints(config) = user_mounts(p)
               /\ do = "store_inner" => load_user_mountpoints(config) = procs[p].inner
<1> DEFINE file == files[Source(p)]
           do == Head(procs[p].todo).do
<1>1. do \in Stores /\ Source(p) \in Sources /\ TypeOK /\ procs[p].pc = "todo"
  <2>1. do \in Stores /\ TypeOK /\ procs[p].pc = "todo" /\ procs[p].todo # <<>>
    BY DEF Next_, At, BaseInv
  <2>2. QED
    BY <2>1, NextAccess
<1>2. file \in File \ {Torn}
  BY <1>1 DEF TypeOK
<1>3. /\ Inv(p) \in Invocation /\ user_cfg(p) \in UserAuthData
      /\ user_mounts(p) \in MountPoints \cup {None}
      /\ procs[p].inner \in MountPoints \cup {None}
  BY <1>1, ProcessFields
<1>4. Inv(p).cmd \in SessionCommands \cup {None}
  BY <1>3 DEF Invocation
<1> HIDE DEF file
<1>5. CASE do = "store_session"
  <2>1. config = store_user_session_command(file, Inv(p).cmd)
    BY <1>5 DEF Replaced, file
  <2>2. QED
    BY <1>1, <1>2, <1>4, <1>5, <2>1, StoredSession DEF file
<1>6. CASE do = "store_auth"
  <2>1. config = store_user_auth_data(file, user_cfg(p))
    BY <1>6 DEF Replaced, file
  <2>2. QED
    BY <1>1, <1>2, <1>3, <1>6, <2>1, StoredAuth DEF file
<1>7. CASE do = "store_mounts"
  <2>1. config \in store_user_mountpoints(file, user_mounts(p))
    BY <1>7 DEF Replaced, file
  <2>2. QED
    BY <1>1, <1>2, <1>3, <1>7, <2>1, StoredMounts DEF file
<1>8. CASE do = "store_inner"
  <2>1. config \in store_user_mountpoints(file, procs[p].inner)
    BY <1>8 DEF Replaced, file
  <2>2. QED
    BY <1>1, <1>2, <1>3, <1>8, <2>1, StoredMounts DEF file
<1>9. QED
  BY <1>1, <1>5, <1>6, <1>7, <1>8 DEF Stores

\* Every step keeps the types and follows the plans.
LEMMA BaseStep ==
    ASSUME BaseInv, [Next]_vars
    PROVE  BaseInv'
<1>0. TypeOK /\ \A q \in Procs : ProcInv(procs[q])
  BY DEF BaseInv
<1>1. CASE UNCHANGED vars
  BY <1>0, <1>1 DEF vars, BaseInv, TypeOK
<1>2. ASSUME NEW p \in Procs, NEW inv \in Invocations, Start(p, inv) PROVE BaseInv'
  <2> DEFINE r == [pc |-> "load_auth", inv |-> inv, user_cfg |-> NewUserAuthData,
                   user_mounts |-> None, inner |-> None, todo |-> <<>>,
                   config |-> NewUserConfig]
  <2>1. NewUserAuthData \in UserAuthData /\ NewUserConfig \in UserConfig
    BY DEF NewUserAuthData, UserAuthData, NewUserConfig, UserConfig
  <2>2. r \in Running /\ ProcInv(r)
    BY <2>1 DEF Running, ProcInv
  <2>3. procs' = [procs EXCEPT ![p] = r] /\ starts' \in 0 .. MaxStarts
    BY <1>0, <1>2, PolyauthctlAssumption DEF Start, TypeOK
  <2> HIDE DEF r
  <2>4. QED
    BY <1>0, <1>2, <2>2, <2>3 DEF BaseInv, TypeOK, Start
<1>3. ASSUME NEW p \in Procs, Step(p) PROVE BaseInv'
  <2>1. ASSUME procs[p].pc # "idle", Fail(p) PROVE BaseInv'
    <3> DEFINE r == [procs[p] EXCEPT !.pc = "failed"]
    <3>1. r \in Running /\ r.pc = "failed"
      BY <1>0, <2>1, ProcessFields DEF Running
    <3>2. ProcInv(r) /\ Locally(p, r)
      BY <2>1, <3>1 DEF ProcInv, Fail
    <3> HIDE DEF r
    <3>3. QED
      BY <3>1, <3>2, LocallyKeeps
  <2>2. CASE LoadAuth(p)
    <3> DEFINE data == load_user_auth_data(Loaded(p))
               r == [procs[p] EXCEPT !.pc = "load_mounts",
                        !.user_cfg = IF data \in {None, Err} THEN NewUserAuthData ELSE data]
    <3>1. procs[p].pc = "load_auth" /\ (Fail(p) \/ Locally(p, r))
      BY <2>2 DEF LoadAuth, At
    <3>2. Loaded(p) \in File
      BY <1>0, <3>1, ProcessFields, InvocationFields DEF Loaded, TypeOK
    <3>3. data \in UserAuthData \cup {None, Err} /\ NewUserAuthData \in UserAuthData
      BY <3>2, LoadTypes DEF NewUserAuthData, UserAuthData
    <3> HIDE DEF data
    <3>4. r \in Running /\ r.pc = "load_mounts"
      BY <1>0, <3>1, <3>3, ProcessFields DEF Running
    <3>5. ProcInv(r)
      BY <3>4 DEF ProcInv
    <3> HIDE DEF r
    <3>6. QED
      BY <2>1, <3>1, <3>4, <3>5, LocallyKeeps
  <2>3. CASE LoadMounts(p)
    <3> DEFINE mounts == load_user_mountpoints(Loaded(p))
               r == [procs[p] EXCEPT !.pc = "command", !.user_mounts = mounts]
    <3>1. procs[p].pc = "load_mounts" /\ (Fail(p) \/ (mounts # Err /\ Locally(p, r)))
      BY <2>3 DEF LoadMounts, At
    <3>2. Loaded(p) \in File
      BY <1>0, <3>1, ProcessFields, InvocationFields DEF Loaded, TypeOK
    <3>3. mounts \in MountPoints \cup {None, Err}
      BY <3>2, LoadTypes
    <3> HIDE DEF mounts
    <3>4. mounts # Err => r \in Running /\ r.pc = "command"
      BY <1>0, <3>1, <3>3, ProcessFields DEF Running
    <3>5. mounts # Err => ProcInv(r)
      BY <3>4 DEF ProcInv
    <3> HIDE DEF r
    <3>6. QED
      BY <2>1, <3>1, <3>4, <3>5, LocallyKeeps
  <2>4. CASE RunCommand(p)
    <3>1. procs[p].pc = "command"
      BY <1>0, <2>4, CommandStep DEF At
    <3>2. CASE Fail(p)
      BY <2>1, <3>1, <3>2
    <3>3. CASE ~ Fail(p)
      <4>1. PICK cfg \in UserAuthData, mounts \in MountPoints \cup {None} :
              Accepted(Inv(p)) /\ Proceed(p, cfg, mounts, Plan(Inv(p)))
        BY <1>0, <2>4, <3>3, CommandStep
      <4> DEFINE r == [procs[p] EXCEPT !.pc = "todo", !.user_cfg = cfg,
                                       !.user_mounts = mounts, !.todo = Plan(Inv(p))]
      <4>2. /\ procs[p] \in Running /\ Inv(p) \in Invocations
            /\ Plan(Inv(p)) \in Seq(Accesses) /\ Planned(Plan(Inv(p)), Inv(p))
        BY <1>0, <3>1, <4>1, ProcessFields, PlanFacts
      <4>3. /\ r \in Running /\ r.pc = "todo" /\ r.inv = Inv(p) /\ r.todo = Plan(Inv(p))
            /\ Locally(p, r)
        BY <4>1, <4>2 DEF Running, Accesses, Proceed, Inv
      <4>4. ProcInv(r)
        BY <4>1, <4>2, <4>3 DEF ProcInv
      <4> HIDE DEF r
      <4>5. QED
        BY <4>3, <4>4, LocallyKeeps
    <3>4. QED
      BY <3>2, <3>3
  <2>5. CASE Reload(p)
    <3>1. procs[p].pc = "todo" /\ procs[p].todo # <<>> /\ Head(procs[p].todo).do \in Stores
      BY <2>5 DEF Reload, Next_, At
    <3>2. CASE Fail(p)
      BY <2>1, <3>1, <3>2
    <3>3. CASE ~ Fail(p)
      <4>1. PICK config \in Replaced(p, files[Source(p)]) :
              /\ files[Source(p)] # Torn
              /\ Locally(p, [procs[p] EXCEPT !.pc = "truncate", !.config = config])
        BY <2>5, <3>3 DEF Reload
      <4>2. config \in UserConfig
        BY <2>5, <4>1, ReplacedFacts DEF Reload
      <4> DEFINE r == [procs[p] EXCEPT !.pc = "truncate", !.config = config]
      <4>3. /\ procs[p] \in Running /\ r \in Running /\ r.pc = "truncate"
            /\ r.inv = procs[p].inv /\ r.todo = procs[p].todo
        BY <1>0, <3>1, <4>2, ProcessFields DEF Running
      <4>4. ProcInv(r)
        BY <1>0, <3>1, <4>3 DEF ProcInv
      <4> HIDE DEF r
      <4>5. QED
        BY <4>1, <4>3, <4>4, LocallyKeeps DEF r
    <3>4. QED
      BY <3>2, <3>3
  <2>6. CASE Truncate(p) \/ Write(p) \/ WriteUnlinked(p) \/ WriteFails(p)
    <3>1. /\ procs[p].pc \in {"truncate", "write"}
          /\ procs[p].todo # <<>> /\ Head(procs[p].todo).do \in Stores
      BY <1>0, <2>6 DEF Truncate, Write, WriteUnlinked, WriteFails, At, ProcInv
    <3>2. /\ procs[p] \in Running /\ Source(p) \in Sources
          /\ Done(p) \in Running /\ ProcInv(Done(p))
          /\ Accepted(Inv(p)) /\ Planned(procs[p].todo, Inv(p))
      BY <3>1, NextAccess
    <3>3. Torn \in File /\ procs[p].config \in File
      BY <3>2 DEF Running, File
    <3> DEFINE r(pc) == [procs[p] EXCEPT !.pc = pc]
    <3>4. /\ r("write") \in Running /\ r("write").pc = "write"
          /\ r("write").todo = procs[p].todo /\ r("write").inv = Inv(p)
          /\ r("write_failed") \in Running /\ r("write_failed").pc = "write_failed"
      BY <3>2 DEF Running, Inv
    <3>5. ProcInv(r("write")) /\ ProcInv(r("write_failed"))
      BY <3>1, <3>2, <3>4 DEF ProcInv
    <3>6. CASE Truncate(p)
      <4>1. Put(p, Source(p), Torn) /\ procs' = [procs EXCEPT ![p] = r("write")]
        BY <1>0, <3>6 DEF Truncate, TypeOK
      <4>2. QED
        BY <3>2, <3>3, <3>4, <3>5, <4>1, PutKeeps
    <3>7. CASE Write(p)
      BY <3>2, <3>3, <3>7, PutKeeps DEF Write
    <3>7a. CASE WriteUnlinked(p)
      <4>1. Locally(p, Done(p)) \/ Locally(p, r("write_failed"))
        BY <3>7a DEF WriteUnlinked
      <4>2. QED
        BY <3>2, <3>4, <3>5, <4>1, LocallyKeeps
    <3>8. CASE WriteFails(p)
      <4>1. /\ Put(p, Source(p), Torn) \/ Put(p, Source(p), procs[p].config)
            /\ procs' = [procs EXCEPT ![p] = r("write_failed")]
        BY <1>0, <3>8 DEF WriteFails, TypeOK
      <4>2. QED
        BY <3>2, <3>3, <3>4, <3>5, <4>1, PutKeeps
    <3>9. QED
      BY <2>6, <3>6, <3>7, <3>7a, <3>8
  <2>7. CASE Denied(p) \/ Finish(p)
    <3> DEFINE r(pc) == [procs[p] EXCEPT !.pc = pc]
    <3>1. /\ procs[p].pc \in {"truncate", "todo"}
          /\ \/ Locally(p, r("write_failed"))
             \/ Locally(p, r("finished")) /\ procs[p].pc = "todo"
      BY <2>7 DEF Denied, Finish, At, Next_
    <3>2. /\ procs[p] \in Running
          /\ r("finished") \in Running /\ r("finished").pc = "finished"
          /\ r("finished").todo = procs[p].todo /\ r("finished").inv = procs[p].inv
          /\ r("write_failed") \in Running /\ r("write_failed").pc = "write_failed"
      BY <1>0, <3>1, ProcessFields DEF Running
    <3>3. ProcInv(r("write_failed"))
      BY <3>2 DEF ProcInv
    <3>4. procs[p].pc = "todo" => ProcInv(r("finished"))
      BY <1>0, <3>2 DEF ProcInv
    <3> HIDE DEF r
    <3>5. QED
      BY <3>1, <3>2, <3>3, <3>4, LocallyKeeps
  <2>8. CASE RemoveFile(p)
    <3>1. procs[p].pc = "todo" /\ procs[p].todo # <<>>
      BY <2>8 DEF RemoveFile, Next_, At
    <3>2. Missing \in File /\ Source(p) \in Sources /\ Done(p) \in Running /\ ProcInv(Done(p))
      BY <3>1, NextAccess DEF File
    <3>3. QED
      BY <2>8, <3>2, PutKeeps DEF RemoveFile
  <2>9. CASE LoadInner(p)
    <3> DEFINE mounts == load_user_mountpoints(files[Source(p)])
               r == [Done(p) EXCEPT !.inner = mounts]
    <3>1. /\ procs[p].pc = "todo" /\ procs[p].todo # <<>>
          /\ Fail(p) \/ (mounts # Err /\ Locally(p, r))
      BY <2>9 DEF LoadInner, Next_, At
    <3>2. Source(p) \in Sources /\ Done(p) \in Running /\ ProcInv(Done(p)) /\ Done(p).pc = "todo"
      BY <3>1, NextAccess DEF Done, Running
    <3>3. mounts \in MountPoints \cup {None, Err}
      BY <1>0, <3>2, LoadTypes DEF TypeOK
    <3> HIDE DEF mounts
    <3>4. mounts # Err => /\ r \in Running /\ r.pc = "todo"
                          /\ r.inv = Done(p).inv /\ r.todo = Done(p).todo
      BY <3>2, <3>3 DEF Running
    <3>5. mounts # Err => ProcInv(r)
      BY <3>2, <3>4 DEF ProcInv
    <3> HIDE DEF r
    <3>6. QED
      BY <2>1, <3>1, <3>4, <3>5, LocallyKeeps
  <2>10. CASE Authorize(p)
    <3>1. /\ procs[p].pc = "todo" /\ procs[p].todo # <<>>
          /\ Head(procs[p].todo).do = "authorize"
      BY <2>10 DEF Authorize, Next_, At
    <3>2. /\ Done(p) \in Running /\ ProcInv(Done(p))
          /\ Head(procs[p].todo) = procs[p].todo[1] /\ 1 \in DOMAIN procs[p].todo
          /\ Planned(procs[p].todo, Inv(p))
      BY <3>1, NextAccess
    <3>3. Source(p) \in Users
      BY <3>1, <3>2 DEF Planned, Source
    <3>4. PICK digests : authorizations' = authorizations \cup ({Source(p)} \X digests)
      BY <2>10 DEF Authorize
    <3>5. \A grant \in authorizations' : grant[1] \in Users
      BY <1>0, <3>3, <3>4 DEF TypeOK
    <3>6. /\ procs' = [procs EXCEPT ![p] = Done(p)]
          /\ UNCHANGED <<files, handle, before, held, starts>>
      BY <2>10 DEF Authorize
    <3>7. QED
      BY <1>0, <3>2, <3>5, <3>6 DEF BaseInv, TypeOK
  <2>11. CASE AuthorizeFails(p)
    <3>1. /\ procs[p].pc = "todo" /\ procs[p].todo # <<>>
          /\ Fail(p) \/ Locally(p, Done(p))
      BY <2>11 DEF AuthorizeFails, Next_, At
    <3>2. Done(p) \in Running /\ ProcInv(Done(p))
      BY <3>1, NextAccess
    <3>3. QED
      BY <2>1, <3>1, <3>2, LocallyKeeps
  <2>12. CASE Exit(p) \/ Kill(p)
    <3>1. /\ procs' = [procs EXCEPT ![p] = Idle] /\ before' = [before EXCEPT ![p] = None]
          /\ UNCHANGED <<files, handle, authorizations, held, starts>>
      BY <2>12 DEF Exit, Kill
    <3>2. ProcInv(Idle)
      BY DEF ProcInv, Idle
    <3>3. QED
      BY <1>0, <3>1, <3>2 DEF BaseInv, TypeOK
  <2>13. QED
    BY <1>3, <2>2, <2>3, <2>4, <2>5, <2>6, <2>7, <2>8, <2>9, <2>10, <2>11, <2>12
       DEF Step, RunCommand
<1>4. QED
  BY <1>1, <1>2, <1>3 DEF Next

\* No process has a plan at first.
LEMMA BaseInit ==
    ASSUME Init
    PROVE  BaseInv
<1>1. files \in [Sources -> File]
  BY PolyauthctlAssumption DEF Init
<1>2. held \in [Users -> SUBSET MountPoints]
  BY <1>1, LoadTypes DEF Init, Sources
<1>3. QED
  BY <1>1, <1>2, PolyauthctlAssumption DEF Init, BaseInv, TypeOK, ProcInv, Idle

\* Every variable keeps its type, and what is left to do is part of a plan.
THEOREM BaseHolds == Spec => []BaseInv
<1>1. Init => BaseInv
  BY BaseInit
<1>2. BaseInv /\ [Next]_vars => BaseInv'
  BY BaseStep
<1>3. QED
  BY <1>1, <1>2, PTL DEF Spec

\* Every variable of the tool keeps its type.
THEOREM CtlTypeCorrect == Spec => []TypeOK
<1>1. BaseInv => TypeOK
  BY DEF BaseInv
<1>2. QED
  BY <1>1, BaseHolds, PTL

-----------------------------------------------------------------------------
(* Authorizations.                                                         *)

\* Mounts that are about to be authorized will be loaded from the user's file
\* first, or are some that this file has held.
InnerOwn(r, h) ==
    r.pc \in {"todo", "truncate", "write"} =>
        \A i \in DOMAIN r.todo : r.todo[i].do = "authorize" =>
            InnerDue(r.todo, i) \/ r.inner \in h[r.todo[i].at] \cup {None}

GrantInv ==
    /\ GrantsAreOwnMounts
    /\ \A u \in Users : load_user_mountpoints(files[u]) \in held[u] \cup {None, Err}
    /\ \A p \in Procs : InnerOwn(procs[p], held)

\* The mounts a file has held stay, and the other processes with them.
LEMMA GrantFrame ==
    ASSUME BaseInv, GrantInv, NEW p \in Procs, NEW r,
           procs' = [procs EXCEPT ![p] = r],
           \A u \in Users : held[u] \subseteq held'[u],
           InnerOwn(r, held')
    PROVE  \A q \in Procs : InnerOwn(procs'[q], held')
<1>1. ASSUME NEW q \in Procs PROVE InnerOwn(procs'[q], held')
  <2>1. CASE q = p
    BY <2>1 DEF BaseInv, TypeOK
  <2>2. CASE q # p
    <3>1. procs'[q] = procs[q] /\ InnerOwn(procs[q], held) /\ ProcInv(procs[q])
      BY <2>2 DEF BaseInv, TypeOK, GrantInv
    <3>2. QED
      BY <3>1 DEF InnerOwn, ProcInv, Planned
  <2>3. QED
    BY <2>1, <2>2
<1>2. QED
  BY <1>1

\* A local step does not touch files, authorizations or history.
LEMMA GrantLocally ==
    ASSUME BaseInv, GrantInv, NEW p \in Procs, NEW r, Locally(p, r), InnerOwn(r, held)
    PROVE  GrantInv'
<1>1. \A q \in Procs : InnerOwn(procs'[q], held')
  BY GrantFrame DEF Locally
<1>2. QED
  BY <1>1 DEF Locally, GrantInv, GrantsAreOwnMounts

\* What is put in a file is noted as held.
LEMMA GrantPut ==
    ASSUME BaseInv, GrantInv, NEW p \in Procs, NEW r, NEW source, NEW contents,
           Put(p, source, contents), procs' = [procs EXCEPT ![p] = r],
           ProcInv(r), InnerOwn(r, held)
    PROVE  GrantInv'
<1>0. TypeOK
  BY DEF BaseInv
<1> DEFINE new == {load_user_mountpoints(contents)} \ {None, Err}
<1>1. /\ files' = [files EXCEPT ![source] = contents] /\ authorizations' = authorizations
      /\ held' = [u \in Users |-> IF u = source THEN held[u] \cup new ELSE held[u]]
  BY DEF Put
<1>2. \A u \in Users : held[u] \subseteq held'[u]
  BY <1>1
<1>3. \A u \in Users : load_user_mountpoints(files'[u]) \in held'[u] \cup {None, Err}
  <2>1. ASSUME NEW u \in Users
        PROVE  load_user_mountpoints(files'[u]) \in held'[u] \cup {None, Err}
    <3>1. u \in Sources /\ files \in [Sources -> File]
      BY <1>0 DEF TypeOK, Sources
    <3>2. CASE u = source
      BY <1>1, <3>1, <3>2
    <3>3. CASE u # source
      <4>1. files'[u] = files[u]
        BY <1>1, <3>1, <3>3
      <4>2. QED
        BY <1>2, <4>1 DEF GrantInv
    <3>4. QED
      BY <3>2, <3>3
  <2>2. QED
    BY <2>1
<1>4. GrantsAreOwnMounts'
  <2>1. \A grant \in authorizations : grant[1] \in Users
    BY <1>0 DEF TypeOK
  <2> HIDE DEF new
  <2>2. QED
    BY <1>1, <1>2, <2>1 DEF GrantInv, GrantsAreOwnMounts
<1>5. InnerOwn(r, held')
  BY <1>2 DEF InnerOwn, ProcInv, Planned
<1>6. \A q \in Procs : InnerOwn(procs'[q], held')
  BY <1>2, <1>5, GrantFrame
<1>7. QED
  BY <1>3, <1>4, <1>6 DEF GrantInv

\* An access other than loading the mounts is done.
LEMMA GrantDone ==
    ASSUME BaseInv, NEW p \in Procs, procs[p].pc \in {"todo", "truncate", "write"},
           procs[p].todo # <<>>, Head(procs[p].todo).do # "load_inner",
           InnerOwn(procs[p], held)
    PROVE  InnerOwn(Done(p), held)
<1> DEFINE todo == procs[p].todo
           tail == Tail(todo)
<1>1. /\ todo[1].do # "load_inner" /\ procs[p] \in Running
      /\ Done(p) = [procs[p] EXCEPT !.pc = "todo", !.todo = tail]
      /\ \A i \in DOMAIN tail :
            i \in Nat /\ i >= 1 /\ i + 1 \in DOMAIN todo /\ tail[i] = todo[i + 1]
      /\ \A i \in DOMAIN todo : i \in Nat /\ i >= 1 /\ (i # 1 => i - 1 \in DOMAIN tail)
  BY NextAccess
<1>2. Done(p).todo = tail /\ Done(p).inner = procs[p].inner
  BY <1>1 DEF Running
<1> HIDE DEF tail
<1>3. ASSUME NEW i \in DOMAIN tail, tail[i].do = "authorize"
      PROVE  InnerDue(tail, i) \/ procs[p].inner \in held[tail[i].at] \cup {None}
  <2>1. InnerDue(todo, i + 1) \/ procs[p].inner \in held[tail[i].at] \cup {None}
    BY <1>1, <1>3 DEF InnerOwn
  <2>2. CASE InnerDue(todo, i + 1)
    <3>1. PICK j \in DOMAIN todo : j < i + 1 /\ todo[j].do = "load_inner"
      BY <2>2 DEF InnerDue
    <3>2. /\ i \in Nat /\ j \in Nat /\ j # 1 /\ j - 1 \in DOMAIN tail /\ j - 1 < i
          /\ tail[j - 1] = todo[(j - 1) + 1] /\ (j - 1) + 1 = j
      BY <1>1, <3>1
    <3>3. j - 1 \in DOMAIN tail /\ j - 1 < i /\ tail[j - 1].do = "load_inner"
      BY <3>1, <3>2
    <3>4. QED
      BY <3>3 DEF InnerDue
  <2>3. QED
    BY <2>1, <2>2
<1>4. QED
  BY <1>2, <1>3 DEF InnerOwn

\* Every step authorizes only what the user's own file has held.
LEMMA GrantStep ==
    ASSUME BaseInv, GrantInv, [Next]_vars
    PROVE  GrantInv'
<1>0. /\ TypeOK /\ \A q \in Procs : ProcInv(procs[q]) /\ InnerOwn(procs[q], held)
  BY DEF BaseInv, GrantInv
<1>1. CASE UNCHANGED vars
  BY <1>1 DEF vars, GrantInv, GrantsAreOwnMounts
<1>2. ASSUME NEW p \in Procs, NEW inv \in Invocations, Start(p, inv) PROVE GrantInv'
  <2> DEFINE r == [pc |-> "load_auth", inv |-> inv, user_cfg |-> NewUserAuthData,
                   user_mounts |-> None, inner |-> None, todo |-> <<>>,
                   config |-> NewUserConfig]
  <2>1. procs' = [procs EXCEPT ![p] = r] /\ UNCHANGED <<files, authorizations, held>>
    BY <1>2 DEF Start
  <2>2. InnerOwn(r, held')
    BY DEF InnerOwn
  <2> HIDE DEF r
  <2>3. \A q \in Procs : InnerOwn(procs'[q], held')
    BY <2>1, <2>2, GrantFrame
  <2>4. QED
    BY <2>1, <2>3 DEF GrantInv, GrantsAreOwnMounts
<1>3. ASSUME NEW p \in Procs, Step(p) PROVE GrantInv'
  \* A step to where nothing is left to authorize.
  <2>1. ASSUME procs[p].pc # "idle", NEW r, Locally(p, r),
               r.pc \notin {"todo", "truncate", "write"}
        PROVE  GrantInv'
    BY <2>1, GrantLocally DEF InnerOwn
  <2>2. ASSUME procs[p].pc # "idle", Fail(p) PROVE GrantInv'
    <3> DEFINE r == [procs[p] EXCEPT !.pc = "failed"]
    <3>1. Locally(p, r) /\ r.pc = "failed"
      BY <1>0, <2>2, ProcessFields DEF Fail, Running
    <3> HIDE DEF r
    <3>2. QED
      BY <2>1, <2>2, <3>1
  <2>3. CASE LoadAuth(p) \/ LoadMounts(p)
    <3>1. procs[p].pc # "idle" /\ procs[p] \in Running
      BY <1>0, <2>3, ProcessFields DEF LoadAuth, LoadMounts, At
    <3>2. \A cfg : [procs[p] EXCEPT !.pc = "load_mounts", !.user_cfg = cfg].pc = "load_mounts"
      BY <3>1 DEF Running
    <3>3. \A m : [procs[p] EXCEPT !.pc = "command", !.user_mounts = m].pc = "command"
      BY <3>1 DEF Running
    <3>4. Fail(p) \/ \E r : Locally(p, r) /\ r.pc \in {"load_mounts", "command"}
      BY <2>3, <3>2, <3>3, Zenon DEF LoadAuth, LoadMounts
    <3>5. QED
      BY <2>1, <2>2, <3>1, <3>4
  <2>4. CASE RunCommand(p)
    <3>1. procs[p].pc = "command"
      BY <1>0, <2>4, CommandStep DEF At
    <3>2. CASE Fail(p)
      BY <2>2, <3>1, <3>2
    <3>3. CASE ~ Fail(p)
      <4>1. PICK cfg \in UserAuthData, mounts \in MountPoints \cup {None} :
              Accepted(Inv(p)) /\ Proceed(p, cfg, mounts, Plan(Inv(p)))
        BY <1>0, <2>4, <3>3, CommandStep
      <4> DEFINE r == [procs[p] EXCEPT !.pc = "todo", !.user_cfg = cfg,
                                       !.user_mounts = mounts, !.todo = Plan(Inv(p))]
      <4>2. procs[p] \in Running /\ InnerFirst(Plan(Inv(p)))
        BY <1>0, <3>1, <4>1, ProcessFields, PlanFacts
      <4>3. r.todo = Plan(Inv(p)) /\ Locally(p, r)
        BY <4>1, <4>2 DEF Running, Proceed
      <4> HIDE DEF r
      <4>4. InnerOwn(r, held)
        BY <4>2, <4>3 DEF InnerOwn, InnerFirst
      <4>5. QED
        BY <4>3, <4>4, GrantLocally
    <3>4. QED
      BY <3>2, <3>3
  <2>5. CASE Reload(p)
    <3>1. procs[p].pc = "todo" /\ procs[p] \in Running
      BY <1>0, <2>5, ProcessFields DEF Reload, Next_, At
    <3>2. CASE Fail(p)
      BY <2>2, <3>1, <3>2
    <3>3. CASE ~ Fail(p)
      <4>1. PICK config \in Replaced(p, files[Source(p)]) :
              Locally(p, [procs[p] EXCEPT !.pc = "truncate", !.config = config])
        BY <2>5, <3>3 DEF Reload
      <4> DEFINE r == [procs[p] EXCEPT !.pc = "truncate", !.config = config]
      <4>2. r.todo = procs[p].todo /\ r.inner = procs[p].inner
        BY <3>1 DEF Running
      <4> HIDE DEF r
      <4>3. InnerOwn(r, held)
        BY <1>0, <3>1, <4>2 DEF InnerOwn
      <4>4. QED
        BY <4>1, <4>3, GrantLocally DEF r
    <3>4. QED
      BY <3>2, <3>3
  <2>6. CASE Truncate(p) \/ WriteFails(p)
    <3>1. procs[p].pc \in {"truncate", "write"} /\ procs[p] \in Running
      BY <1>0, <2>6, ProcessFields DEF Truncate, WriteFails, At
    <3> DEFINE r(pc) == [procs[p] EXCEPT !.pc = pc]
    <3>2. PICK pc \in {"write", "write_failed"} :
            /\ procs' = [procs EXCEPT ![p] = r(pc)]
            /\ \E contents : Put(p, Source(p), contents)
      BY <1>0, <2>6 DEF Truncate, WriteFails, TypeOK
    <3>3. /\ r(pc).pc = pc /\ r(pc).todo = procs[p].todo /\ r(pc).inner = procs[p].inner
          /\ r(pc).inv = procs[p].inv
      BY <3>1 DEF Running
    <3> HIDE DEF r
    <3>4. InnerOwn(r(pc), held)
      BY <1>0, <3>1, <3>3 DEF InnerOwn
    <3>5. ProcInv(r(pc))
      BY <1>0, <3>1, <3>2, <3>3 DEF ProcInv
    <3>6. QED
      BY <3>2, <3>4, <3>5, GrantPut
  <2>7. CASE Write(p) \/ RemoveFile(p)
    <3>1. /\ procs[p].pc \in {"todo", "write"} /\ procs[p].todo # <<>>
          /\ Head(procs[p].todo).do \in Stores \cup {"remove"}
      BY <1>0, <2>7 DEF Write, RemoveFile, Next_, At, ProcInv
    <3>2. InnerOwn(Done(p), held) /\ ProcInv(Done(p))
      BY <1>0, <3>1, NextAccess, GrantDone DEF Stores
    <3>3. \E contents : Put(p, Source(p), contents)
      BY <2>7 DEF Write, RemoveFile
    <3>4. procs' = [procs EXCEPT ![p] = Done(p)]
      BY <2>7 DEF Write, RemoveFile
    <3>5. QED
      BY <3>2, <3>3, <3>4, GrantPut
  <2>7a. CASE WriteUnlinked(p)
    <3>1. /\ procs[p].pc = "write" /\ procs[p].todo # <<>>
          /\ Head(procs[p].todo).do \in Stores
      BY <1>0, <2>7a DEF WriteUnlinked, At, ProcInv
    <3>2. InnerOwn(Done(p), held) /\ procs[p] \in Running
      BY <1>0, <3>1, NextAccess, GrantDone DEF Stores
    <3> DEFINE r == [procs[p] EXCEPT !.pc = "write_failed"]
    <3>3. r.pc = "write_failed"
      BY <3>2 DEF Running
    <3>4. Locally(p, Done(p)) \/ Locally(p, r)
      BY <2>7a DEF WriteUnlinked
    <3> HIDE DEF r
    <3>5. QED
      BY <2>1, <3>1, <3>2, <3>3, <3>4, GrantLocally
  <2>8. CASE Denied(p) \/ Finish(p)
    <3>1. procs[p].pc \in {"truncate", "todo"} /\ procs[p] \in Running
      BY <1>0, <2>8, ProcessFields DEF Denied, Finish, At, Next_
    <3>2. \A pc : [procs[p] EXCEPT !.pc = pc].pc = pc
      BY <3>1 DEF Running
    <3>3. \E r : Locally(p, r) /\ r.pc \in {"write_failed", "finished"}
      BY <2>8, <3>2, Zenon DEF Denied, Finish
    <3>4. QED
      BY <2>1, <3>1, <3>3
  <2>9. CASE LoadInner(p)
    <3> DEFINE mounts == load_user_mountpoints(files[Source(p)])
               r == [Done(p) EXCEPT !.inner = mounts]
               todo == procs[p].todo
    <3>1. /\ procs[p].pc = "todo" /\ todo # <<>> /\ Head(todo).do = "load_inner"
          /\ Fail(p) \/ (mounts # Err /\ Locally(p, r))
      BY <2>9 DEF LoadInner, Next_, At
    <3>2. /\ Done(p) \in Running /\ ProcInv(Done(p))
          /\ Done(p) = [procs[p] EXCEPT !.pc = "todo", !.todo = Tail(todo)]
          /\ procs[p] \in Running /\ Planned(todo, Inv(p))
          /\ Head(todo) = todo[1] /\ 1 \in DOMAIN todo
          /\ \A i \in DOMAIN Tail(todo) : i + 1 \in DOMAIN todo /\ Tail(todo)[i] = todo[i + 1]
      BY <3>1, NextAccess
    <3>3. r.todo = Tail(todo) /\ r.inner = mounts
      BY <3>2 DEF Running
    <3>4. ASSUME mounts # Err, NEW i \in DOMAIN Tail(todo), Tail(todo)[i].do = "authorize"
          PROVE  mounts \in held[Tail(todo)[i].at] \cup {None}
      <4>1. /\ i + 1 \in DOMAIN todo /\ todo[i + 1].do = "authorize"
            /\ Tail(todo)[i].at = todo[i + 1].at
        BY <3>2, <3>4
      <4>2. todo[i + 1].at = Source(p) /\ todo[i + 1].at \in Users
        BY <3>1, <3>2, <4>1 DEF Planned, Source
      <4>3. QED
        BY <3>4, <4>1, <4>2 DEF GrantInv
    <3> HIDE DEF r, mounts
    <3>5. mounts # Err => InnerOwn(r, held)
      BY <3>3, <3>4 DEF InnerOwn
    <3>6. QED
      BY <2>2, <3>1, <3>5, GrantLocally
  <2>10. CASE Authorize(p)
    <3> DEFINE todo == procs[p].todo
               inner == procs[p].inner
    <3>1. procs[p].pc = "todo" /\ todo # <<>> /\ Head(todo).do = "authorize"
      BY <2>10 DEF Authorize, Next_, At
    <3>2. /\ Head(todo) = todo[1] /\ 1 \in DOMAIN todo /\ Planned(todo, Inv(p))
          /\ \A i \in DOMAIN todo : i \in Nat /\ i >= 1
      BY <3>1, NextAccess
    <3>3. Source(p) \in Users /\ Source(p) = todo[1].at
      BY <3>1, <3>2 DEF Planned, Source
    <3>4. inner \in held[Source(p)] \cup {None}
      <4>1. ~ InnerDue(todo, 1)
        BY <3>2 DEF InnerDue
      <4>2. QED
        BY <1>0, <3>1, <3>2, <3>3, <4>1 DEF InnerOwn
    <3>5. PICK digests \in IF inner = None THEN {{}} ELSE {{d} : d \in Hashes(inner)} :
            authorizations' = authorizations \cup ({Source(p)} \X digests)
      BY <2>10 DEF Authorize
    <3>6. \A d \in digests : inner # None /\ d \in Hashes(inner)
      BY <3>5
    <3>7. procs' = [procs EXCEPT ![p] = Done(p)] /\ UNCHANGED <<files, before, held, starts>>
      BY <2>10 DEF Authorize
    <3>8. InnerOwn(Done(p), held')
      BY <1>0, <3>1, <3>7, GrantDone
    <3>9. \A q \in Procs : InnerOwn(procs'[q], held')
      BY <3>7, <3>8, GrantFrame
    <3>10. GrantsAreOwnMounts'
      <4>1. ASSUME NEW grant \in authorizations'
            PROVE  \E mounts \in held[grant[1]] : grant[2] \in Hashes(mounts)
        <5>1. CASE grant \in authorizations
          BY <5>1 DEF GrantInv, GrantsAreOwnMounts
        <5>2. CASE grant \in {Source(p)} \X digests
          <6>1. grant[1] = Source(p) /\ grant[2] \in digests
            BY <5>2
          <6>2. QED
            BY <3>4, <3>6, <6>1
        <5>3. QED
          BY <3>5, <5>1, <5>2
      <4>2. QED
        BY <3>7, <4>1 DEF GrantsAreOwnMounts
    <3>11. QED
      BY <3>7, <3>9, <3>10 DEF GrantInv
  <2>11. CASE AuthorizeFails(p)
    <3>1. /\ procs[p].pc = "todo" /\ procs[p].todo # <<>>
          /\ Head(procs[p].todo).do = "authorize" /\ (Fail(p) \/ Locally(p, Done(p)))
      BY <2>11 DEF AuthorizeFails, Next_, At
    <3>2. InnerOwn(Done(p), held)
      BY <1>0, <3>1, GrantDone
    <3>3. QED
      BY <2>2, <3>1, <3>2, GrantLocally
  <2>12. CASE Exit(p) \/ Kill(p)
    <3>1. procs' = [procs EXCEPT ![p] = Idle] /\ UNCHANGED <<files, authorizations, held>>
      BY <2>12 DEF Exit, Kill
    <3>2. InnerOwn(Idle, held')
      BY DEF InnerOwn, Idle
    <3>3. \A q \in Procs : InnerOwn(procs'[q], held')
      BY <3>1, <3>2, GrantFrame
    <3>4. QED
      BY <3>1, <3>3 DEF GrantInv, GrantsAreOwnMounts
  <2>13. QED
    BY <1>3, <2>3, <2>4, <2>5, <2>6, <2>7, <2>7a, <2>8, <2>9, <2>10, <2>11, <2>12
       DEF Step, RunCommand
<1>4. QED
  BY <1>1, <1>2, <1>3 DEF Next

\* main.rs:262: whatever file -c names, and whatever other processes store or
\* remove meanwhile, a user is only authorized for mounts that were in that
\* user's own file: the mounts are loaded before they are authorized, from the
\* file of the user they are authorized for.
THEOREM GrantsAreOwn == Spec => []GrantsAreOwnMounts
<1>1. ASSUME Init PROVE GrantInv
  <2>1. \A u \in Users : load_user_mountpoints(files[u]) \in held[u] \cup {None, Err}
    BY <1>1 DEF Init
  <2>2. QED
    BY <1>1, <2>1 DEF Init, GrantInv, GrantsAreOwnMounts, InnerOwn, Idle
<1>2. BaseInv /\ GrantInv /\ [Next]_vars => GrantInv'
  BY GrantStep
<1>3. GrantInv => GrantsAreOwnMounts
  BY DEF GrantInv
<1>4. QED
  BY <1>1, <1>2, <1>3, BaseHolds, PTL DEF Spec

-----------------------------------------------------------------------------
(* Methods and the main password they belong to.                           *)

\* The main password opens with the intermediate key, every method gives back what
\* it holds, and a method that holds a key of setup holds this account's.
Sound(d) ==
    IF has_main(d)
    THEN /\ Sealed(d.main) /\ CurrentMain(d) \notin SetupKeys
         /\ \A i \in DOMAIN d.auth :
               LET key == d.auth[i].enc_intermediate.plain
               IN  /\ intermediate(d.auth[i], d.auth[i].password_hash.of) = key
                   /\ key \in SetupKeys => key = IntermediateKey(d)
    ELSE d.auth = <<>>

\* No main password is also the intermediate key of some setup, and the data that
\* is there at first belongs together.
KeysDistinct ==
    /\ \A inv \in Invocations : inv.password \notin SetupKeys
    /\ \A file \in InitialFiles :
          load_user_auth_data(file) \in UserAuthData => Sound(load_user_auth_data(file))

\* set_main and add_secondary_password (user.rs) keep data sound.
LEMMA SoundComputed ==
    ASSUME SecretsDiffer, KeysDistinct, NEW inv \in Invocations, NEW cfg \in UserAuthData, Sound(cfg),
           NEW mounts, NEW new_cfg, NEW new_mounts,
           Computed(inv, cfg, mounts, new_cfg, new_mounts)
    PROVE  Sound(new_cfg)
<1>0. Complete(inv) /\ inv.password \notin SetupKeys
  BY PolyauthctlAssumption DEF KeysDistinct
<1>1. ASSUME inv.password \in Secrets, inv.intermediate \in Secrets,
             MaySetMain(cfg, inv.intermediate),
             NEW e \in WithMain(cfg, inv.password, inv.intermediate)
      PROVE  Sound(e) /\ e \in UserAuthData
  <2>1. /\ e \in UserAuthData /\ has_main(e) /\ Sealed(e.main)
        /\ CurrentMain(e) = inv.password /\ IntermediateKey(e) = inv.intermediate
        /\ e.auth = cfg.auth
    BY <1>1, NewMainSealed
  <2>2. CASE has_main(cfg)
    <3>1. IntermediateKey(e) = IntermediateKey(cfg)
      <4>1. bcrypt_verify(inv.intermediate, cfg.main.intermediate_key_hash)
        BY <1>1, <2>2 DEF MaySetMain
      <4>2. cfg.main.intermediate_key_hash \in BcryptHashes
        BY <2>2 DEF UserAuthData, has_main, MainPassword
      <4>3. QED
        BY <1>1, <2>1, <4>1, <4>2, Verifies DEF IntermediateKey
    <3>2. QED
      BY <1>0, <2>1, <2>2, <3>1 DEF Sound
  <2>3. CASE ~ has_main(cfg)
    <3>1. DOMAIN e.auth = {}
      BY <2>1, <2>3 DEF Sound
    <3>2. QED
      BY <1>0, <2>1, <3>1 DEF Sound
  <2>4. QED
    BY <2>2, <2>3
<1>2. CASE inv.op \notin {"setup", "add"}
  BY <1>2 DEF Computed
<1>3. CASE inv.op = "setup"
  BY <1>0, <1>1, <1>3 DEF Computed, Complete, MaySetMain
<1>4. CASE inv.op = "add"
  <2>0. inv.intermediate \in Secrets /\ inv.secondary_pw \in Secrets
    BY <1>0, <1>4 DEF Complete
  <2>1. PICK d \in UserAuthData :
          /\ \/ d = cfg
             \/ /\ MaySetMain(cfg, inv.intermediate)
                /\ inv.password \in Secrets
                /\ d \in WithMain(cfg, inv.password, inv.intermediate)
          /\ MayAdd(d, inv.intermediate)
          /\ new_cfg \in WithSecondary(d, inv.intermediate, inv.secondary_pw)
    BY <1>4 DEF Computed
  <2>2. Sound(d)
    BY <1>1, <2>0, <2>1
  <2>3. has_main(d) /\ inv.intermediate \in {CurrentMain(d), IntermediateKey(d)}
    <3>1. has_main(d) /\ plain(d.main, inv.intermediate) # None
      BY <2>1 DEF MayAdd
    <3>2. d.main \in MainPassword
      BY <3>1 DEF UserAuthData, has_main
    <3>3. QED
      BY <2>0, <3>1, <3>2, PlainYields DEF CurrentMain, IntermediateKey
  <2>4. inv.intermediate \in SetupKeys => inv.intermediate = IntermediateKey(d)
    BY <2>2, <2>3 DEF Sound
  <2>5. /\ new_cfg.main = d.main
        /\ \A i \in DOMAIN d.auth : new_cfg.auth[i] = d.auth[i]
    BY <2>0, <2>1, SecondaryAdded
  <2>6. PICK n \in DOMAIN new_cfg.auth, salt \in Salts :
          /\ DOMAIN new_cfg.auth = DOMAIN d.auth \cup {n}
          /\ new_cfg.auth[n] = NewSecondary(inv.intermediate, inv.secondary_pw, salt)
          /\ intermediate(new_cfg.auth[n], inv.secondary_pw) = inv.intermediate
    BY <2>0, <2>1, SecondaryAdded
  <2>7. /\ new_cfg.auth[n].enc_intermediate.plain = inv.intermediate
        /\ new_cfg.auth[n].password_hash.of = inv.secondary_pw
    BY <2>6 DEF NewSecondary, encrypt, bcrypt_hash
  <2>8. /\ has_main(new_cfg) /\ Sealed(new_cfg.main) /\ CurrentMain(new_cfg) \notin SetupKeys
        /\ IntermediateKey(new_cfg) = IntermediateKey(d)
    BY <2>2, <2>3, <2>5 DEF Sound, has_main, CurrentMain, IntermediateKey
  <2>9. ASSUME NEW i \in DOMAIN new_cfg.auth
        PROVE  LET key == new_cfg.auth[i].enc_intermediate.plain
               IN  /\ intermediate(new_cfg.auth[i], new_cfg.auth[i].password_hash.of) = key
                   /\ key \in SetupKeys => key = IntermediateKey(new_cfg)
    <3>1. CASE i = n
      BY <2>4, <2>6, <2>7, <2>8, <3>1
    <3>2. CASE i \in DOMAIN d.auth
      BY <2>2, <2>3, <2>5, <2>8, <3>2 DEF Sound
    <3>3. QED
      BY <2>6, <3>1, <3>2
  <2>10. QED
    BY <2>8, <2>9 DEF Sound
<1>5. QED
  BY <1>2, <1>3, <1>4

SoundFile(file) ==
    load_user_auth_data(file) \in UserAuthData => Sound(load_user_auth_data(file))

SoundProc(r) ==
    r.pc # "idle" =>
        Sound(r.user_cfg) /\ (r.pc \in {"truncate", "write"} => SoundFile(r.config))

SoundInv ==
    /\ \A s \in Sources : SoundFile(files[s])
    /\ \A p \in Procs : SoundProc(procs[p])

\* A step of a process on its locals leaves the files sound.
LEMMA SoundLocally ==
    ASSUME BaseInv, SoundInv, NEW p \in Procs, NEW r, Locally(p, r), SoundProc(r)
    PROVE  SoundInv'
  BY DEF BaseInv, TypeOK, SoundInv, Locally

\* Sound data that is put in a file leaves the files sound.
LEMMA SoundPut ==
    ASSUME BaseInv, SoundInv, NEW p \in Procs, NEW r, NEW source, NEW contents,
           Put(p, source, contents), procs' = [procs EXCEPT ![p] = r],
           SoundProc(r), SoundFile(contents)
    PROVE  SoundInv'
  BY DEF BaseInv, TypeOK, SoundInv, Put

\* What is not a configuration has no authentication data, and neither has a
\* new one.
LEMMA SoundNothing ==
    /\ SoundFile(Torn) /\ SoundFile(Missing) /\ Sound(NewUserAuthData)
    /\ NewUserAuthData \in UserAuthData
<1>1. load_user_auth_data(Torn) = Err /\ load_user_auth_data(Missing) = None
  BY StorageAssumption DEF load_user_auth_data, load_config_from_source
<1>2. QED
  BY <1>1, StorageAssumption
     DEF SoundFile, Sound, NewUserAuthData, has_main, UserAuthData

\* Every step keeps the data in files and in memory sound.
LEMMA SoundStep ==
    ASSUME SecretsDiffer, KeysDistinct, BaseInv, SoundInv, [Next]_vars
    PROVE  SoundInv'
<1>0. /\ TypeOK /\ \A q \in Procs : ProcInv(procs[q]) /\ SoundProc(procs[q])
  BY DEF BaseInv, SoundInv
<1>1. CASE UNCHANGED vars
  BY <1>1 DEF vars, SoundInv
<1>2. ASSUME NEW p \in Procs, NEW inv \in Invocations, Start(p, inv) PROVE SoundInv'
  <2> DEFINE r == [pc |-> "load_auth", inv |-> inv, user_cfg |-> NewUserAuthData,
                   user_mounts |-> None, inner |-> None, todo |-> <<>>,
                   config |-> NewUserConfig]
  <2>1. procs' = [procs EXCEPT ![p] = r] /\ files' = files
    BY <1>2 DEF Start
  <2>2. SoundProc(r)
    BY SoundNothing DEF SoundProc
  <2> HIDE DEF r
  <2>3. QED
    BY <1>0, <2>1, <2>2 DEF SoundInv, TypeOK
<1>3. ASSUME NEW p \in Procs, Step(p) PROVE SoundInv'
  \* A step that keeps the authentication data and does not begin a store.
  <2>1. ASSUME procs[p].pc # "idle", NEW r, Locally(p, r),
               r.user_cfg = user_cfg(p), r.pc \notin {"truncate", "write"}
        PROVE  SoundInv'
    BY <1>0, <2>1, SoundLocally DEF SoundProc, user_cfg
  <2>2. ASSUME procs[p].pc # "idle", Fail(p) PROVE SoundInv'
    <3> DEFINE r == [procs[p] EXCEPT !.pc = "failed"]
    <3>1. Locally(p, r) /\ r.pc = "failed" /\ r.user_cfg = user_cfg(p)
      BY <1>0, <2>2, ProcessFields DEF Fail, Running, user_cfg
    <3> HIDE DEF r
    <3>2. QED
      BY <2>1, <2>2, <3>1
  <2>3. CASE LoadAuth(p)
    <3> DEFINE data == load_user_auth_data(Loaded(p))
               cfg == IF data \in {None, Err} THEN NewUserAuthData ELSE data
               r == [procs[p] EXCEPT !.pc = "load_mounts", !.user_cfg = cfg]
    <3>1. procs[p].pc = "load_auth" /\ (Fail(p) \/ Locally(p, r))
      BY <2>3 DEF LoadAuth, At
    <3>2. Loaded(p) \in File /\ SoundFile(Loaded(p)) /\ procs[p] \in Running
      BY <1>0, <3>1, ProcessFields, InvocationFields DEF Loaded, TypeOK, SoundInv
    <3>3. data \in UserAuthData \cup {None, Err}
      BY <3>2, LoadTypes
    <3>4. Sound(cfg)
      BY <3>2, <3>3, SoundNothing DEF SoundFile
    <3> HIDE DEF cfg
    <3>5. r.pc = "load_mounts" /\ r.user_cfg = cfg
      BY <3>2 DEF Running
    <3> HIDE DEF r
    <3>6. SoundProc(r)
      BY <3>4, <3>5 DEF SoundProc
    <3>7. QED
      BY <2>2, <3>1, <3>6, SoundLocally
  <2>4. CASE LoadMounts(p)
    <3> DEFINE r(m) == [procs[p] EXCEPT !.pc = "command", !.user_mounts = m]
    <3>1. procs[p].pc = "load_mounts" /\ (Fail(p) \/ \E m : Locally(p, r(m)))
      BY <2>4 DEF LoadMounts, At
    <3>2. \A m : r(m).pc = "command" /\ r(m).user_cfg = user_cfg(p)
      BY <1>0, <3>1, ProcessFields DEF Running, user_cfg
    <3> HIDE DEF r
    <3>3. QED
      BY <2>1, <2>2, <3>1, <3>2
  <2>5. CASE RunCommand(p)
    <3>1. procs[p].pc = "command"
      BY <1>0, <2>5, CommandStep DEF At
    <3>2. CASE Fail(p)
      BY <2>2, <3>1, <3>2
    <3>3. CASE ~ Fail(p)
      <4>1. PICK cfg \in UserAuthData, mounts \in MountPoints \cup {None} :
              /\ Proceed(p, cfg, mounts, Plan(Inv(p)))
              /\ Computed(Inv(p), user_cfg(p), user_mounts(p), cfg, mounts)
        BY <1>0, <2>5, <3>3, CommandStep
      <4>2. /\ procs[p] \in Running /\ Inv(p) \in Invocations
            /\ user_cfg(p) \in UserAuthData /\ Sound(user_cfg(p))
        BY <1>0, <3>1, ProcessFields DEF SoundProc, user_cfg
      <4>3. Sound(cfg)
        BY <4>1, <4>2, SoundComputed
      <4> DEFINE r == [procs[p] EXCEPT !.pc = "todo", !.user_cfg = cfg,
                                       !.user_mounts = mounts, !.todo = Plan(Inv(p))]
      <4>4. Locally(p, r) /\ r.pc = "todo" /\ r.user_cfg = cfg
        BY <4>1, <4>2 DEF Proceed, Running
      <4> HIDE DEF r
      <4>5. SoundProc(r)
        BY <4>3, <4>4 DEF SoundProc
      <4>6. QED
        BY <4>4, <4>5, SoundLocally
    <3>4. QED
      BY <3>2, <3>3
  <2>6. CASE Reload(p)
    <3>1. procs[p].pc = "todo" /\ procs[p].todo # <<>> /\ Next_(p, Stores)
      BY <2>6 DEF Reload, Next_, At
    <3>2. CASE Fail(p)
      BY <2>2, <3>1, <3>2
    <3>3. CASE ~ Fail(p)
      <4>1. PICK config \in Replaced(p, files[Source(p)]) :
              /\ files[Source(p)] # Torn
              /\ Locally(p, [procs[p] EXCEPT !.pc = "truncate", !.config = config])
        BY <2>6, <3>3 DEF Reload
      <4>2. \/ load_user_auth_data(config) = load_user_auth_data(files[Source(p)])
            \/ load_user_auth_data(config) \in {user_cfg(p), None}
        BY <3>1, <4>1, ReplacedFacts
      <4>3. /\ procs[p] \in Running /\ Source(p) \in Sources
            /\ SoundFile(files[Source(p)]) /\ Sound(user_cfg(p))
        BY <1>0, <3>1, NextAccess DEF SoundInv, SoundProc, user_cfg
      <4>4. SoundFile(config)
        BY <4>2, <4>3, StorageAssumption DEF SoundFile
      <4> DEFINE r == [procs[p] EXCEPT !.pc = "truncate", !.config = config]
      <4>5. r.user_cfg = user_cfg(p) /\ r.config = config
        BY <4>3 DEF Running, user_cfg
      <4> HIDE DEF r
      <4>6. SoundProc(r)
        BY <4>3, <4>4, <4>5 DEF SoundProc
      <4>7. QED
        BY <4>1, <4>6, SoundLocally DEF r
    <3>4. QED
      BY <3>2, <3>3
  <2>7. CASE Truncate(p) \/ Write(p) \/ WriteFails(p) \/ RemoveFile(p)
    <3>1. procs[p].pc \in {"truncate", "write", "todo"} /\ procs[p] \in Running
      BY <1>0, <2>7, ProcessFields DEF Truncate, Write, WriteFails, RemoveFile, Next_, At
    <3>2. procs[p].pc \in {"truncate", "write"} => SoundFile(procs[p].config)
      BY <1>0, <3>1 DEF SoundProc
    <3>3. PICK contents : Put(p, Source(p), contents) /\ SoundFile(contents)
      <4>1. CASE Truncate(p)
        BY <4>1, SoundNothing DEF Truncate
      <4>2. CASE Write(p)
        BY <3>2, <4>2, SoundNothing DEF Write, At
      <4>3. CASE WriteFails(p)
        BY <3>2, <4>3, SoundNothing DEF WriteFails, At
      <4>4. CASE RemoveFile(p)
        BY <4>4, SoundNothing DEF RemoveFile
      <4>5. QED
        BY <2>7, <4>1, <4>2, <4>3, <4>4
    <3> DEFINE r(pc) == [procs[p] EXCEPT !.pc = pc]
    <3>4. \/ procs' = [procs EXCEPT ![p] = Done(p)]
          \/ procs' = [procs EXCEPT ![p] = r("write")] /\ procs[p].pc = "truncate"
          \/ procs' = [procs EXCEPT ![p] = r("write_failed")]
      BY <1>0, <2>7 DEF Truncate, Write, WriteFails, RemoveFile, At, TypeOK
    <3>5. \A pc : r(pc).pc = pc /\ r(pc).user_cfg = user_cfg(p) /\ r(pc).config = procs[p].config
      BY <3>1 DEF Running, user_cfg
    <3>6. Done(p).pc = "todo" /\ Done(p).user_cfg = user_cfg(p)
      BY <3>1 DEF Done, Running, user_cfg
    <3> HIDE DEF r
    <3>7. Sound(user_cfg(p))
      BY <1>0, <3>1 DEF SoundProc, user_cfg
    <3>8. /\ SoundProc(Done(p)) /\ SoundProc(r("write_failed"))
          /\ procs[p].pc = "truncate" => SoundProc(r("write"))
      BY <3>2, <3>5, <3>6, <3>7 DEF SoundProc
    <3>9. QED
      BY <3>3, <3>4, <3>8, SoundPut
  <2>7a. CASE WriteUnlinked(p)
    <3> DEFINE r == [procs[p] EXCEPT !.pc = "write_failed"]
    <3>1. procs[p].pc = "write" /\ (Locally(p, Done(p)) \/ Locally(p, r))
      BY <2>7a DEF WriteUnlinked, At
    <3>2. procs[p] \in Running
      BY <1>0, <3>1, ProcessFields
    <3>3. /\ Done(p).pc = "todo" /\ Done(p).user_cfg = user_cfg(p)
          /\ r.pc = "write_failed" /\ r.user_cfg = user_cfg(p)
      BY <3>2 DEF Done, Running, user_cfg
    <3> HIDE DEF r
    <3>4. QED
      BY <2>1, <3>1, <3>3
  <2>8. CASE Denied(p) \/ Finish(p)
    <3>1. procs[p].pc \in {"truncate", "todo"} /\ procs[p] \in Running
      BY <1>0, <2>8, ProcessFields DEF Denied, Finish, At, Next_
    <3>2. \A pc : LET r == [procs[p] EXCEPT !.pc = pc] IN r.pc = pc /\ r.user_cfg = user_cfg(p)
      BY <3>1 DEF Running, user_cfg
    <3>3. \E r : /\ Locally(p, r) /\ r.pc \in {"write_failed", "finished"}
                 /\ r.user_cfg = user_cfg(p)
      BY <2>8, <3>2, Zenon DEF Denied, Finish
    <3>4. QED
      BY <2>1, <3>1, <3>3
  <2>9. CASE LoadInner(p) \/ AuthorizeFails(p)
    <3> DEFINE r(m) == [Done(p) EXCEPT !.inner = m]
    <3>1. /\ procs[p].pc = "todo"
          /\ Fail(p) \/ Locally(p, Done(p)) \/ (\E m : Locally(p, r(m)))
      BY <2>9 DEF LoadInner, AuthorizeFails, Next_, At
    <3>2. procs[p] \in Running
      BY <1>0, <3>1, ProcessFields
    <3>3. Done(p).pc = "todo" /\ Done(p).user_cfg = user_cfg(p)
      BY <3>2 DEF Done, Running, user_cfg
    <3>4. \A m : r(m).pc = Done(p).pc /\ r(m).user_cfg = Done(p).user_cfg
      BY <3>2 DEF Done, Running
    <3> HIDE DEF r
    <3>5. QED
      BY <2>1, <2>2, <3>1, <3>3, <3>4
  <2>10. CASE Authorize(p)
    <3>1. procs[p].pc = "todo" /\ procs' = [procs EXCEPT ![p] = Done(p)] /\ files' = files
      BY <2>10 DEF Authorize, Next_, At
    <3>2. procs[p] \in Running
      BY <1>0, <3>1, ProcessFields
    <3>3. Done(p).pc = "todo" /\ Done(p).user_cfg = user_cfg(p)
      BY <3>2 DEF Done, Running, user_cfg
    <3>4. SoundProc(Done(p))
      BY <1>0, <3>1, <3>3 DEF SoundProc, user_cfg
    <3>5. QED
      BY <1>0, <3>1, <3>4 DEF SoundInv, TypeOK
  <2>11. CASE Exit(p) \/ Kill(p)
    <3>1. procs' = [procs EXCEPT ![p] = Idle] /\ files' = files
      BY <2>11 DEF Exit, Kill
    <3>2. SoundProc(Idle)
      BY DEF SoundProc, Idle
    <3>3. QED
      BY <1>0, <3>1, <3>2 DEF SoundInv, TypeOK
  <2>12. QED
    BY <1>3, <2>3, <2>4, <2>5, <2>6, <2>7, <2>7a, <2>8, <2>9, <2>10, <2>11
       DEF Step, RunCommand
<1>4. QED
  BY <1>1, <1>2, <1>3 DEF Next

\* storage.rs:306: however invocations overlap or are killed, each method that holds
\* an intermediate key opens the account it is stored in, if bcrypt tells the secrets
\* apart and no main password doubles as an intermediate key: store_user_auth_data replaces the main
\* password and the methods together, from one copy.
THEOREM MethodsTogether ==
    ASSUME SecretsDiffer, KeysDistinct
    PROVE  Spec => []MethodsBelongTogether
<1>1. ASSUME Init PROVE SoundInv
  BY <1>1 DEF Init, SoundInv, SoundFile, SoundProc, Idle, KeysDistinct
<1>2. BaseInv /\ SoundInv /\ [Next]_vars => SoundInv'
  BY SoundStep
<1>3. ASSUME BaseInv, SoundInv PROVE MethodsBelongTogether
  <2>1. ASSUME NEW s \in Sources, load_user_auth_data(files[s]) \notin {None, Err},
               NEW i \in DOMAIN load_user_auth_data(files[s]).auth,
               load_user_auth_data(files[s]).auth[i].enc_intermediate.plain \in SetupKeys
        PROVE  main_by_auth(load_user_auth_data(files[s]),
                            load_user_auth_data(files[s]).auth[i].password_hash.of) # None
    <3> DEFINE d == load_user_auth_data(files[s])
               password == d.auth[i].password_hash.of
    <3>1. files[s] \in File /\ SoundFile(files[s])
      BY <1>3, <2>1 DEF BaseInv, TypeOK, SoundInv
    <3>2. d \in UserAuthData /\ has_main(d)
      BY <2>1, <3>1, LoadTypes
    <3>3. Sound(d)
      BY <3>1, <3>2 DEF SoundFile
    <3>4. i \in DOMAIN d.auth /\ d.auth[i].enc_intermediate.plain \in SetupKeys
      BY <2>1
    <3> HIDE DEF d
    <3>5. Sealed(d.main) /\ intermediate(d.auth[i], password) = IntermediateKey(d)
      BY <3>2, <3>3, <3>4 DEF Sound
    <3>6. main_by_auth(d, password) # None
      BY <3>2, <3>4, <3>5, MethodTyped, MethodOpens
    <3>7. QED
      BY <3>6 DEF d
  <2>2. QED
    BY <2>1 DEF MethodsBelongTogether
<1>4. QED
  BY <1>1, <1>2, <1>3, BaseHolds, PTL DEF Spec

-----------------------------------------------------------------------------
(* An invocation that nobody interferes with.                              *)

\* What an invocation takes for the authentication data of a file.
AuthOf(file) ==
    IF load_user_auth_data(file) \in {None, Err} THEN NewUserAuthData
    ELSE load_user_auth_data(file)

\* The parts of a file that the command is not about are as they were.
Kept(inv, old, new) ==
    /\ \/ "session" \in Changes(inv.op)
       \/ load_user_session_command(new) = load_user_session_command(old)
    /\ \/ "auth" \in Changes(inv.op)
       \/ load_user_auth_data(new) = load_user_auth_data(old)
       \/ load_user_auth_data(old) = Err
    /\ \/ "mounts" \in Changes(inv.op)
       \/ load_user_mountpoints(new) = load_user_mountpoints(old)

\* Until it is at work on its plan, the invocation has read files only.
Reading(r, b, fs) ==
    /\ r.pc \in {"load_auth", "load_mounts", "command", "failed"} => fs = b
    /\ r.pc \in {"load_mounts", "command"} =>
          /\ r.user_cfg = AuthOf(b[storage_source(r.inv)])
          /\ r.inv.op = "setup" => load_user_auth_data(b[storage_source(r.inv)]) # Err
    /\ r.pc = "command" => r.user_mounts = load_user_mountpoints(b[storage_source(r.inv)])

\* The data that add makes of the data it loaded.
AddedTo(inv, cfg, new_cfg) ==
    \E with_main \in UserAuthData :
        /\ \/ with_main = cfg
           \/ /\ MaySetMain(cfg, inv.intermediate)
              /\ inv.password \in Secrets
              /\ with_main \in WithMain(cfg, inv.password, inv.intermediate)
        /\ MayAdd(with_main, inv.intermediate)
        /\ new_cfg \in WithSecondary(with_main, inv.intermediate, inv.secondary_pw)

\* What it is about to store, and the files it does not store to.
Working(r, b, fs) ==
    r.pc \in {"todo", "truncate", "write", "finished"} =>
        /\ \A s \in Sources \ {Target(r.inv)} : fs[s] = b[s]
        /\ r.inv.op \notin {"setup", "add"} => r.user_cfg = AuthOf(b[Target(r.inv)])
        /\ r.inv.op \notin {"setup", "set-home-mount", "set-pre-mount"} =>
              r.user_mounts = load_user_mountpoints(b[Target(r.inv)])
        /\ r.inv.op = "setup" =>
              /\ load_user_auth_data(b[storage_source(r.inv)]) = None
              /\ \A i \in DOMAIN r.todo : r.todo[i].do = "store_inner" =>
                    \/ InnerDue(r.todo, i)
                    \/ r.inner = load_user_mountpoints(b[Target(r.inv)])
        /\ r.inv.op = "add" =>
              has_main(r.user_cfg) /\ AddedTo(r.inv, AuthOf(b[Target(r.inv)]), r.user_cfg)

\* Between two stores: once a file has been changed, nothing is left that can
\* fail on what it holds.
OnFile(r, b, fs) ==
    r.pc \in {"todo", "truncate", "finished"} =>
        /\ Kept(r.inv, b[Target(r.inv)], fs[Target(r.inv)])
        /\ \/ fs = b
           \/ /\ fs[Target(r.inv)] # Torn
              /\ \A i \in DOMAIN r.todo : r.todo[i].do \in Stores \/ r.inv.op = "setup"

\* add stores the data it computed; `config` is what the store is to leave.
Adding(r, fs) ==
    r.inv.op = "add" =>
        /\ r.pc = "finished" => r.todo = <<>>
        /\ r.pc \in {"todo", "finished"} =>
              \/ \E i \in DOMAIN r.todo : r.todo[i].do = "store_auth"
              \/ load_user_auth_data(fs[Target(r.inv)]) = r.user_cfg
        /\ r.pc \in {"truncate", "write"} =>
              \/ \E i \in DOMAIN r.todo : i # 1 /\ r.todo[i].do = "store_auth"
              \/ load_user_auth_data(r.config) = r.user_cfg

InHand(r, b) ==
    r.pc \in {"truncate", "write"} => Kept(r.inv, b[Target(r.inv)], r.config)

Alone(r, b, fs) ==
    r.pc # "idle" =>
        /\ Reading(r, b, fs) /\ Working(r, b, fs) /\ OnFile(r, b, fs)
        /\ Adding(r, fs) /\ InHand(r, b)

AloneInv == \A p \in Procs : before[p] # None => Alone(procs[p], before[p], files)

\* A step of a process on its locals does not interfere with another.
LEMMA AloneLocally ==
    ASSUME BaseInv, AloneInv, NEW p \in Procs, NEW r, Locally(p, r),
           before[p] # None => Alone(r, before[p], files)
    PROVE  AloneInv'
<1>1. ASSUME NEW q \in Procs, before[q] # None PROVE Alone(procs'[q], before[q], files)
  <2>1. procs'[q] = IF q = p THEN r ELSE procs[q]
    BY DEF Locally, BaseInv, TypeOK
  <2>2. QED
    BY <1>1, <2>1 DEF AloneInv
<1>2. QED
  BY <1>1 DEF AloneInv, Locally

\* A process that changes a file interferes with every other one.
LEMMA AlonePut ==
    ASSUME BaseInv, AloneInv, NEW p \in Procs, NEW r, NEW source, NEW contents,
           Put(p, source, contents), procs' = [procs EXCEPT ![p] = r],
           before[p] # None => Alone(r, before[p], files')
    PROVE  AloneInv'
<1>1. ASSUME NEW q \in Procs, before'[q] # None PROVE Alone(procs'[q], before'[q], files')
  <2>1. q = p /\ before'[q] = before[p] /\ procs'[q] = r
    BY <1>1 DEF Put, BaseInv, TypeOK
  <2>2. QED
    BY <1>1, <2>1
<1>2. QED
  BY <1>1 DEF AloneInv

\* A step to an end, at which nothing has been changed or nothing is claimed.
LEMMA AloneEnds ==
    ASSUME NEW r, NEW b, NEW fs,
           r.pc = "write_failed" \/ (r.pc = "failed" /\ fs = b)
    PROVE  Alone(r, b, fs)
  BY DEF Alone, Reading, Working, OnFile, Adding, InHand

\* Files that are not cut short have no mounts that fail to load.
LEMMA MountsLoad ==
    ASSUME NEW file \in File, file # Torn
    PROVE  load_user_mountpoints(file) # Err
<1>1. CASE file = Missing
  BY <1>1, StorageAssumption DEF load_user_mountpoints, load_config_from_source
<1>2. CASE file \in UserConfig
  BY <1>2, LoadTypes
<1>3. QED
  BY <1>1, <1>2 DEF File

\* The password of the method that add makes opens the account.
LEMMA AddOpens ==
    ASSUME NEW inv \in Invocations, inv.op = "add", NEW cfg, NEW new_cfg,
           AddedTo(inv, cfg, new_cfg)
    PROVE  has_main(new_cfg) /\ main_by_auth(new_cfg, inv.secondary_pw) # None
<1>0. Complete(inv) /\ inv.intermediate \in Secrets /\ inv.secondary_pw \in Secrets
  BY PolyauthctlAssumption DEF Complete
<1>1. PICK d \in UserAuthData :
        /\ MayAdd(d, inv.intermediate)
        /\ new_cfg \in WithSecondary(d, inv.intermediate, inv.secondary_pw)
  BY DEF AddedTo
<1>2. new_cfg \in UserAuthData /\ new_cfg.main = d.main
  BY <1>0, <1>1, SecondaryAdded
<1>3. PICK n \in DOMAIN new_cfg.auth :
        intermediate(new_cfg.auth[n], inv.secondary_pw) = inv.intermediate
  BY <1>0, <1>1, SecondaryAdded
<1>4. has_main(new_cfg) /\ plain(new_cfg.main, inv.intermediate) # None
  BY <1>1, <1>2 DEF MayAdd, has_main
<1>5. n \in Good(new_cfg, inv.secondary_pw)
  BY <1>0, <1>3, <1>4, AuthDataAssumption DEF Good, Opens
<1>6. QED
  BY <1>0, <1>2, <1>4, <1>5, MainByAuth

\* add keeps the account open to every secret that opened it, or, where the main
\* password is set, to every one of these that gives the intermediate key.
LEMMA AddKeeps ==
    ASSUME SecretsDiffer, NEW inv \in Invocations, inv.op = "add",
           NEW cfg \in UserAuthData, has_main(cfg), NEW new_cfg, AddedTo(inv, cfg, new_cfg),
           NEW s \in Secrets, main_by_auth(cfg, s) # None,
           inv.password # None => GivesKey(cfg, s)
    PROVE  main_by_auth(new_cfg, s) # None
<1>0. Complete(inv) /\ inv.intermediate \in Secrets /\ inv.secondary_pw \in Secrets
  BY PolyauthctlAssumption DEF Complete
<1>1. PICK d \in UserAuthData :
        /\ \/ d = cfg
           \/ /\ MaySetMain(cfg, inv.intermediate)
              /\ inv.password \in Secrets
              /\ d \in WithMain(cfg, inv.password, inv.intermediate)
        /\ MayAdd(d, inv.intermediate)
        /\ new_cfg \in WithSecondary(d, inv.intermediate, inv.secondary_pw)
  BY DEF AddedTo
<1>2. /\ new_cfg \in UserAuthData /\ new_cfg.main = d.main
      /\ \A i \in DOMAIN d.auth : i \in DOMAIN new_cfg.auth /\ new_cfg.auth[i] = d.auth[i]
  BY <1>0, <1>1, SecondaryAdded
<1>3. has_main(new_cfg)
  BY <1>1, <1>2 DEF MayAdd, has_main
<1>4. CASE d = cfg
  <2>1. plain(cfg.main, s) # None \/ Good(cfg, s) # {}
    BY MainByAuth
  <2>2. ASSUME NEW i \in Good(cfg, s) PROVE i \in Good(new_cfg, s)
    BY <1>2, <1>4, <2>2 DEF Good, Opens
  <2>3. QED
    BY <1>2, <1>3, <1>4, <2>1, <2>2, MainByAuth
<1>5. CASE /\ MaySetMain(cfg, inv.intermediate) /\ inv.password \in Secrets
           /\ d \in WithMain(cfg, inv.password, inv.intermediate)
  <2>1. GivesKey(cfg, s)
    BY <1>5, AuthDataAssumption
  <2>2. Sealed(d.main) /\ IntermediateKey(d) = inv.intermediate /\ d.auth = cfg.auth
    BY <1>0, <1>5, NewMainSealed
  <2>3. IntermediateKey(cfg) = inv.intermediate
    <3>1. cfg.main.intermediate_key_hash \in BcryptHashes
      BY DEF UserAuthData, has_main, MainPassword
    <3>2. QED
      BY <1>0, <1>5, <3>1, Verifies DEF MaySetMain, IntermediateKey
  <2>4. Sealed(new_cfg.main) /\ IntermediateKey(new_cfg) = IntermediateKey(cfg)
    BY <1>2, <2>2, <2>3 DEF IntermediateKey
  <2>5. CASE s = IntermediateKey(cfg)
    <3>1. new_cfg.main \in MainPassword
      BY <1>2, <1>3 DEF UserAuthData, has_main
    <3>2. plain(new_cfg.main, s) # None
      BY <2>4, <2>5, <3>1, KeyOpens DEF IntermediateKey
    <3>3. QED
      BY <1>2, <1>3, <3>2, MainByAuth
  <2>6. CASE \E i \in DOMAIN cfg.auth : intermediate(cfg.auth[i], s) = IntermediateKey(cfg)
    <3>1. PICK i \in DOMAIN cfg.auth : intermediate(cfg.auth[i], s) = IntermediateKey(cfg)
      BY <2>6
    <3>2. i \in DOMAIN new_cfg.auth /\ intermediate(new_cfg.auth[i], s) = IntermediateKey(new_cfg)
      BY <1>2, <2>2, <2>4, <3>1
    <3>3. QED
      BY <1>2, <1>3, <2>4, <3>2, MethodOpens
  <2>7. QED
    BY <2>1, <2>5, <2>6 DEF GivesKey
<1>6. QED
  BY <1>1, <1>4, <1>5

\* A store leaves, of the parts the command is not about, what it loaded.
LEMMA KeptReload ==
    ASSUME BaseInv, NEW p \in Procs, Next_(p, Stores), files[Source(p)] # Torn,
           NEW config \in Replaced(p, files[Source(p)]), before[p] # None,
           Alone(procs[p], before[p], files)
    PROVE  /\ Kept(Inv(p), before[p][Target(Inv(p))], config)
           /\ Inv(p).op = "add" =>
                 \/ \E i \in DOMAIN procs[p].todo : i # 1 /\ procs[p].todo[i].do = "store_auth"
                 \/ load_user_auth_data(config) = user_cfg(p)
<1> DEFINE todo == procs[p].todo
           inv == Inv(p)
           op == inv.op
           do == Head(todo).do
           T == Target(inv)
           old == before[p][T]
           file == files[Source(p)]
<1>0. procs[p].pc = "todo" /\ todo # <<>> /\ do \in Stores
  BY DEF Next_, At
<1>1. /\ Accepted(inv) /\ Planned(todo, inv) /\ todo[1].do = do /\ Source(p) = todo[1].at
      /\ 1 \in DOMAIN todo /\ \A i \in DOMAIN todo : i \in Nat /\ i >= 1
  BY <1>0, NextAccess DEF Source
<1>2. Source(p) = T
  BY <1>0, <1>1 DEF Planned
<1>3. inv \in Invocations /\ T \in Sources
  BY <1>0, <1>1, ProcessFields, InvocationFields DEF BaseInv
<1>4. old \in File
  BY <1>3 DEF BaseInv, TypeOK
<1>5. /\ do = "store_session" => op = "set-session"
      /\ do = "store_mounts" => op \notin {"setup", "reset"}
      /\ do = "store_inner" => op = "setup"
  BY <1>1 DEF Planned
<1>6. Kept(inv, old, file)
  BY <1>0, <1>2 DEF Alone, OnFile, Inv
<1>7. /\ op \notin {"setup", "add"} => user_cfg(p) = AuthOf(old)
      /\ op \notin {"setup", "set-home-mount", "set-pre-mount"} =>
            user_mounts(p) = load_user_mountpoints(old)
      /\ op = "setup" => \A i \in DOMAIN todo : todo[i].do = "store_inner" =>
            InnerDue(todo, i) \/ procs[p].inner = load_user_mountpoints(old)
      /\ op = "add" => has_main(user_cfg(p))
  BY <1>0 DEF Alone, Working, Inv, user_cfg, user_mounts
<1>8. do = "store_inner" => procs[p].inner = load_user_mountpoints(old)
  <2>1. ~ InnerDue(todo, 1)
    BY <1>1 DEF InnerDue
  <2>2. QED
    BY <1>1, <1>5, <1>7, <2>1
<1>9. /\ do # "store_session" =>
            load_user_session_command(config) = load_user_session_command(file)
      /\ do # "store_auth" => load_user_auth_data(config) = load_user_auth_data(file)
      /\ do \notin {"store_mounts", "store_inner"} =>
            load_user_mountpoints(config) = load_user_mountpoints(file)
      /\ do = "store_auth" => load_user_auth_data(config) =
                                 (IF has_main(user_cfg(p)) THEN user_cfg(p) ELSE None)
      /\ do = "store_mounts" => load_user_mountpoints(config) = user_mounts(p)
      /\ do = "store_inner" => load_user_mountpoints(config) = procs[p].inner
  BY ReplacedFacts
<1>10. \/ load_user_auth_data(old) \in {None, Err}
       \/ load_user_auth_data(old) \in UserAuthData /\ has_main(load_user_auth_data(old))
  BY <1>4, LoadTypes
<1> HIDE DEF old, file, do, T, inv, todo
<1>11. /\ Changes("set-session") = {"session"} /\ Changes("setup") = {"auth"}
       /\ Changes("add") = {"auth"}
       /\ Changes("set-home-mount") = {"mounts"} /\ Changes("set-pre-mount") = {"mounts"}
  BY DEF Changes
<1>12. \/ "session" \in Changes(op)
       \/ load_user_session_command(config) = load_user_session_command(old)
  BY <1>5, <1>6, <1>9, <1>11 DEF Kept
<1>13. \/ "auth" \in Changes(op)
       \/ load_user_auth_data(config) = load_user_auth_data(old)
       \/ load_user_auth_data(old) = Err
  <2>1. CASE do # "store_auth"
    BY <1>6, <1>9, <2>1 DEF Kept
  <2>2. CASE do = "store_auth" /\ op \notin {"setup", "add"}
    <3>1. ~ has_main(NewUserAuthData)
      BY DEF has_main, NewUserAuthData
    <3>2. QED
      BY <1>7, <1>9, <1>10, <2>2, <3>1 DEF AuthOf
  <2>3. QED
    BY <1>11, <2>1, <2>2
<1>14. \/ "mounts" \in Changes(op)
       \/ load_user_mountpoints(config) = load_user_mountpoints(old)
  BY <1>5, <1>6, <1>7, <1>8, <1>9, <1>11 DEF Kept
<1>15. Kept(inv, old, config)
  BY <1>12, <1>13, <1>14 DEF Kept
<1>16. op = "add" => \/ \E i \in DOMAIN todo : i # 1 /\ todo[i].do = "store_auth"
                     \/ load_user_auth_data(config) = user_cfg(p)
  <2>1. ASSUME op = "add", do # "store_auth", \A i \in DOMAIN todo : todo[i].do # "store_auth"
        PROVE  load_user_auth_data(file) = user_cfg(p)
    BY <1>0, <1>2, <2>1 DEF Alone, Adding, Inv, user_cfg, inv, todo, file, T
  <2>2. QED
    BY <1>1, <1>7, <1>9, <2>1
<1>17. QED
  BY <1>15, <1>16 DEF old, T, inv, todo

\* A command that goes on with its plan has changed nothing yet.
LEMMA AloneCommand ==
    ASSUME BaseInv, NEW p \in Procs, procs[p].pc = "command", Accepted(Inv(p)),
           before[p] # None, Alone(procs[p], before[p], files),
           NEW cfg \in UserAuthData, NEW mounts \in MountPoints \cup {None},
           Computed(Inv(p), user_cfg(p), user_mounts(p), cfg, mounts),
           NEW r, r.pc = "todo", r.inv = Inv(p), r.user_cfg = cfg, r.user_mounts = mounts,
           r.todo = Plan(Inv(p))
    PROVE  Alone(r, before[p], files)
<1> DEFINE inv == Inv(p)
           b == before[p]
           T == Target(inv)
           S == storage_source(inv)
<1>1. /\ files = b /\ user_cfg(p) = AuthOf(b[S])
      /\ inv.op = "setup" => load_user_auth_data(b[S]) # Err
      /\ user_mounts(p) = load_user_mountpoints(b[S])
  BY DEF Alone, Reading, Inv, user_cfg, user_mounts
<1>2. /\ inv \in Invocations /\ user_cfg(p) \in UserAuthData
      /\ S \in Sources /\ (inv.op # "setup" => T = S)
  BY ProcessFields, InvocationFields DEF BaseInv
<1>3. b[S] \in File
  BY <1>2 DEF BaseInv, TypeOK
<1>4. /\ InnerFirst(Plan(inv))
      /\ inv.op = "add" => \E i \in DOMAIN Plan(inv) : Plan(inv)[i].do = "store_auth"
  BY <1>2, PlanFacts
<1>5. /\ inv.op \notin {"setup", "add"} => cfg = AuthOf(b[T])
      /\ inv.op \notin {"setup", "set-home-mount", "set-pre-mount"} =>
            mounts = load_user_mountpoints(b[T])
  BY <1>1, <1>2 DEF Computed
<1>6. inv.op = "setup" => load_user_auth_data(b[S]) = None
  BY <1>1, <1>3, LoadTypes DEF Computed, AuthOf
<1>7. inv.op = "add" => has_main(cfg) /\ AddedTo(inv, AuthOf(b[T]), cfg)
  <2>1. inv.op = "add" => AddedTo(inv, user_cfg(p), cfg)
    BY DEF Computed, AddedTo
  <2>2. QED
    BY <1>1, <1>2, <2>1, AddOpens
<1> HIDE DEF inv, b
<1>8. Working(r, b, files)
  BY <1>1, <1>4, <1>5, <1>6, <1>7 DEF Working, InnerFirst, inv
<1>9. OnFile(r, b, files)
  BY <1>1 DEF OnFile, Kept
<1>10. Adding(r, files)
  BY <1>4 DEF Adding, inv
<1>11. Reading(r, b, files) /\ InHand(r, b)
  BY DEF Reading, InHand
<1>12. QED
  BY <1>8, <1>9, <1>10, <1>11 DEF Alone, b

\* An access that changes no file is done: the mounts are loaded, or authorized.
LEMMA AloneAccess ==
    ASSUME BaseInv, NEW p \in Procs, Next_(p, {"load_inner", "authorize"}),
           before[p] # None, Alone(procs[p], before[p], files),
           NEW r, r.pc = "todo", r.inv = Inv(p), r.user_cfg = user_cfg(p),
           r.user_mounts = user_mounts(p), r.todo = Tail(procs[p].todo),
           r.inner = IF Head(procs[p].todo).do = "load_inner"
                     THEN load_user_mountpoints(files[Source(p)]) ELSE procs[p].inner
    PROVE  Alone(r, before[p], files)
<1> DEFINE inv == Inv(p)
           b == before[p]
           T == Target(inv)
           todo == procs[p].todo
           tail == Tail(todo)
<1>0. procs[p].pc = "todo" /\ todo # <<>> /\ Head(todo).do \in {"load_inner", "authorize"}
  BY DEF Next_, At
<1>1. /\ Planned(todo, inv) /\ Head(todo) = todo[1] /\ 1 \in DOMAIN todo
      /\ \A i \in DOMAIN tail :
            i \in Nat /\ i >= 1 /\ i + 1 \in DOMAIN todo /\ tail[i] = todo[i + 1]
      /\ \A i \in DOMAIN todo : i \in Nat /\ i >= 1 /\ (i # 1 => i - 1 \in DOMAIN tail)
  BY <1>0, NextAccess
<1>2. Working(procs[p], b, files) /\ OnFile(procs[p], b, files) /\ Adding(procs[p], files)
  BY <1>0 DEF Alone
<1>3. inv.op # "add" /\ (inv.op = "setup" => Source(p) = T)
  BY <1>0, <1>1 DEF Planned, Source
<1>4. inv.op = "setup" => load_user_mountpoints(files[T]) = load_user_mountpoints(b[T])
  <2>1. inv.op = "setup" => "mounts" \notin Changes(inv.op)
    BY DEF Changes
  <2>2. QED
    BY <1>0, <1>2, <2>1 DEF OnFile, Kept, Inv
<1> HIDE DEF tail
<1>5. ASSUME inv.op = "setup", NEW i \in DOMAIN tail, tail[i].do = "store_inner"
      PROVE  InnerDue(tail, i) \/ r.inner = load_user_mountpoints(b[T])
  <2>1. CASE Head(todo).do = "load_inner"
    BY <1>3, <1>4, <1>5, <2>1
  <2>2. CASE Head(todo).do # "load_inner"
    <3>1. InnerDue(todo, i + 1) \/ procs[p].inner = load_user_mountpoints(b[T])
      BY <1>0, <1>1, <1>2, <1>5 DEF Working, Inv
    <3>2. ASSUME InnerDue(todo, i + 1) PROVE InnerDue(tail, i)
      <4>1. PICK j \in DOMAIN todo : j < i + 1 /\ todo[j].do = "load_inner"
        BY <3>2 DEF InnerDue
      <4>2. /\ i \in Nat /\ j \in Nat /\ j # 1 /\ j - 1 \in DOMAIN tail /\ j - 1 < i
            /\ tail[j - 1] = todo[(j - 1) + 1] /\ (j - 1) + 1 = j
        BY <1>1, <1>5, <2>2, <4>1
      <4>3. j - 1 \in DOMAIN tail /\ j - 1 < i /\ tail[j - 1].do = "load_inner"
        BY <4>1, <4>2
      <4>4. QED
        BY <4>3 DEF InnerDue
    <3>3. QED
      BY <2>2, <3>1, <3>2
  <2>3. QED
    BY <2>1, <2>2
<1>6. Working(r, b, files)
  BY <1>0, <1>2, <1>3, <1>5 DEF Working, Inv, user_cfg, user_mounts, tail
<1>7. OnFile(r, b, files)
  <2>1. \/ files = b
        \/ files[T] # Torn /\ \A i \in DOMAIN todo : todo[i].do \in Stores \/ inv.op = "setup"
    BY <1>0, <1>2 DEF OnFile, Inv
  <2>2. \/ files = b
        \/ files[T] # Torn /\ \A i \in DOMAIN tail : tail[i].do \in Stores \/ inv.op = "setup"
    BY <1>1, <2>1
  <2>3. QED
    BY <1>0, <1>2, <2>2 DEF OnFile, Inv, tail
<1>8. Reading(r, b, files) /\ InHand(r, b) /\ Adding(r, files)
  BY <1>3 DEF Reading, InHand, Adding
<1>9. QED
  BY <1>6, <1>7, <1>8 DEF Alone

\* A file has been written or removed: the others are as they were, and nothing
\* that is left can fail on this one.
LEMMA AloneChanged ==
    ASSUME BaseInv, NEW p \in Procs, procs[p].todo # <<>>,
           \/ procs[p].pc = "write" /\ Head(procs[p].todo).do \in Stores
           \/ procs[p].pc = "todo" /\ Head(procs[p].todo).do = "remove",
           before[p] # None, Alone(procs[p], before[p], files),
           NEW contents \in File,
           contents = IF procs[p].pc = "write" THEN procs[p].config ELSE Missing,
           NEW fs, fs = [files EXCEPT ![Source(p)] = contents],
           NEW r, r.pc = "todo", r.inv = Inv(p), r.user_cfg = user_cfg(p),
           r.user_mounts = user_mounts(p), r.todo = Tail(procs[p].todo),
           r.inner = procs[p].inner
    PROVE  Alone(r, before[p], fs)
<1> DEFINE inv == Inv(p)
           b == before[p]
           T == Target(inv)
           todo == procs[p].todo
           tail == Tail(todo)
<1>1. /\ Planned(todo, inv) /\ Head(todo) = todo[1] /\ 1 \in DOMAIN todo
      /\ \A i \in DOMAIN tail :
            i \in Nat /\ i >= 1 /\ i + 1 \in DOMAIN todo /\ tail[i] = todo[i + 1]
      /\ \A i \in DOMAIN todo : i \in Nat /\ i >= 1 /\ (i # 1 => i - 1 \in DOMAIN tail)
      /\ procs[p] \in Running /\ Source(p) \in Sources
  BY NextAccess
<1>2. Working(procs[p], b, files) /\ Adding(procs[p], files) /\ InHand(procs[p], b)
  BY DEF Alone
<1>3. Source(p) = T /\ todo[1].do \notin {"load_inner"}
  BY <1>1 DEF Planned, Source, Stores
<1>4. /\ \A s \in Sources \ {T} : fs[s] = files[s]
      /\ fs[T] = contents /\ contents # Torn
  <2>1. contents # Torn
    BY <1>1, StorageAssumption DEF Running
  <2>2. QED
    BY <1>1, <1>3, <2>1 DEF BaseInv, TypeOK
<1>5. Kept(inv, b[T], contents)
  <2>1. CASE procs[p].pc = "write"
    BY <1>2, <2>1 DEF InHand, Inv
  <2>2. CASE procs[p].pc # "write"
    <3>1. inv.op = "reset"
      BY <1>1, <2>2 DEF Planned
    <3>2. Changes("reset") = {"session", "auth", "mounts"}
      BY DEF Changes
    <3>3. QED
      BY <3>1, <3>2 DEF Kept
  <2>3. QED
    BY <2>1, <2>2
<1> HIDE DEF tail
<1>6. \A i \in DOMAIN tail : tail[i].do \in Stores \/ inv.op = "setup"
  <2>1. ASSUME NEW i \in DOMAIN tail PROVE tail[i].do \in Stores \/ inv.op = "setup"
    <3>1. i + 1 \in DOMAIN todo /\ 1 < i + 1 /\ tail[i] = todo[i + 1]
      BY <1>1
    <3>2. QED
      BY <1>1, <3>1 DEF Planned
  <2>2. QED
    BY <2>1
<1>7. ASSUME inv.op = "setup", NEW i \in DOMAIN tail, tail[i].do = "store_inner"
      PROVE  InnerDue(tail, i) \/ r.inner = load_user_mountpoints(b[T])
  <2>1. InnerDue(todo, i + 1) \/ r.inner = load_user_mountpoints(b[T])
    BY <1>1, <1>2, <1>7 DEF Working, Inv
  <2>2. ASSUME InnerDue(todo, i + 1) PROVE InnerDue(tail, i)
    <3>1. PICK j \in DOMAIN todo : j < i + 1 /\ todo[j].do = "load_inner"
      BY <2>2 DEF InnerDue
    <3>2. j # 1
      BY <1>3, <3>1
    <3>3. /\ i \in Nat /\ j \in Nat /\ j - 1 \in DOMAIN tail /\ j - 1 < i
          /\ tail[j - 1] = todo[(j - 1) + 1] /\ (j - 1) + 1 = j
      BY <1>1, <1>7, <3>1, <3>2
    <3>4. j - 1 \in DOMAIN tail /\ j - 1 < i /\ tail[j - 1].do = "load_inner"
      BY <3>1, <3>3
    <3>5. QED
      BY <3>4 DEF InnerDue
  <2>3. QED
    BY <2>1, <2>2
<1>8. Working(r, b, fs)
  BY <1>2, <1>4, <1>7 DEF Working, Inv, user_cfg, user_mounts, tail
<1>9. OnFile(r, b, fs)
  BY <1>4, <1>5, <1>6 DEF OnFile, tail
<1>10. Adding(r, fs)
  <2>1. ASSUME inv.op = "add"
        PROVE  \/ \E i \in DOMAIN tail : tail[i].do = "store_auth"
               \/ load_user_auth_data(fs[T]) = user_cfg(p)
    <3>1. procs[p].pc = "write"
      BY <1>1, <2>1 DEF Planned
    <3>2. \/ \E i \in DOMAIN todo : i # 1 /\ todo[i].do = "store_auth"
          \/ load_user_auth_data(procs[p].config) = user_cfg(p)
      BY <1>2, <2>1, <3>1 DEF Adding, Inv, user_cfg
    <3>3. ASSUME NEW i \in DOMAIN todo, i # 1, todo[i].do = "store_auth"
          PROVE  \E j \in DOMAIN tail : tail[j].do = "store_auth"
      <4>1. i \in Nat /\ i - 1 \in DOMAIN tail /\ (i - 1) + 1 = i /\ tail[i - 1] = todo[(i - 1) + 1]
        BY <1>1, <3>3
      <4>2. i - 1 \in DOMAIN tail /\ tail[i - 1].do = "store_auth"
        BY <3>3, <4>1
      <4>3. QED
        BY <4>2
    <3>4. QED
      BY <1>4, <3>1, <3>2, <3>3
  <2>2. QED
    BY <2>1 DEF Adding, tail
<1>11. Reading(r, b, fs) /\ InHand(r, b)
  BY DEF Reading, InHand
<1>12. QED
  BY <1>8, <1>9, <1>10, <1>11 DEF Alone

\* A process that does not have the file it writes for itself is not alone.
HandleInv ==
    \A p \in Procs : procs[p].pc = "write" /\ handle[p] # "own" => before[p] = None

\* A process finds the file it writes its own when it has truncated it.
LEMMA HandleStep ==
    ASSUME BaseInv, HandleInv, [Next]_vars
    PROVE  HandleInv'
<1>0. /\ TypeOK /\ \A q \in Procs : ProcInv(procs[q])
      /\ \A q \in Procs : procs[q].pc = "write" /\ handle[q] # "own" => before[q] = None
  BY DEF BaseInv, HandleInv
<1>1. CASE UNCHANGED vars
  BY <1>1 DEF vars, HandleInv
\* A step that changes a file.
<1>2. ASSUME NEW p \in Procs, NEW source, NEW contents, Put(p, source, contents)
      PROVE  HandleInv'
  <2>1. ASSUME NEW q \in Procs PROVE handle'[q] = "own" \/ before'[q] = None
    BY <1>2 DEF Put
  <2>2. QED
    BY <2>1 DEF HandleInv
\* One that does not, and does not go on to write.
<1>3. ASSUME NEW p \in Procs, NEW r, procs' = [procs EXCEPT ![p] = r], r.pc # "write",
             handle' = handle, \A q \in Procs \ {p} : before'[q] = before[q]
      PROVE  HandleInv'
  <2>1. ASSUME NEW q \in Procs, procs'[q].pc = "write", handle'[q] # "own"
        PROVE  before'[q] = None
    BY <1>0, <1>3, <2>1 DEF TypeOK
  <2>2. QED
    BY <2>1 DEF HandleInv
<1>4. ASSUME NEW p \in Procs, NEW r, Locally(p, r), r.pc # "write" PROVE HandleInv'
  BY <1>3, <1>4 DEF Locally
<1>5. ASSUME NEW p \in Procs, NEW inv \in Invocations, Start(p, inv) PROVE HandleInv'
  <2> DEFINE r == [pc |-> "load_auth", inv |-> inv, user_cfg |-> NewUserAuthData,
                   user_mounts |-> None, inner |-> None, todo |-> <<>>,
                   config |-> NewUserConfig]
  <2>1. /\ procs' = [procs EXCEPT ![p] = r] /\ r.pc # "write" /\ handle' = handle
        /\ before' = [before EXCEPT ![p] = files]
    BY <1>5 DEF Start
  <2> HIDE DEF r
  <2>2. \A q \in Procs \ {p} : before'[q] = before[q]
    BY <1>0, <2>1 DEF TypeOK
  <2>3. QED
    BY <1>3, <2>1, <2>2
<1>6. ASSUME NEW p \in Procs, Step(p) PROVE HandleInv'
  <2>1. CASE Truncate(p) \/ Write(p) \/ WriteFails(p) \/ RemoveFile(p)
    <3>1. \E source, contents : Put(p, source, contents)
      BY <2>1 DEF Truncate, Write, WriteFails, RemoveFile
    <3>2. QED
      BY <1>2, <3>1
  <2>2. CASE Exit(p) \/ Kill(p)
    <3>1. /\ procs' = [procs EXCEPT ![p] = Idle] /\ handle' = handle
          /\ before' = [before EXCEPT ![p] = None]
      BY <2>2 DEF Exit, Kill
    <3>2. (\A q \in Procs \ {p} : before'[q] = before[q]) /\ Idle.pc # "write"
      BY <1>0, <3>1 DEF TypeOK, Idle
    <3>3. QED
      BY <1>3, <3>1, <3>2
  <2> DEFINE end(pc) == [procs[p] EXCEPT !.pc = pc]
             loaded(cfg) == [procs[p] EXCEPT !.pc = "load_mounts", !.user_cfg = cfg]
             mounted(m) == [procs[p] EXCEPT !.pc = "command", !.user_mounts = m]
             stored(c) == [procs[p] EXCEPT !.pc = "truncate", !.config = c]
             chosen(m) == [Done(p) EXCEPT !.inner = m]
  <2>3. ASSUME procs[p].pc # "idle"
        PROVE  /\ \A pc : end(pc).pc = pc
               /\ \A x : /\ loaded(x).pc = "load_mounts" /\ mounted(x).pc = "command"
                         /\ stored(x).pc = "truncate" /\ chosen(x).pc = "todo"
               /\ Done(p).pc = "todo"
    <3>1. procs[p] \in Running
      BY <1>0, <2>3, ProcessFields
    <3>2. QED
      BY <3>1 DEF Running, Done
  <2>4. Fail(p) <=> Locally(p, end("failed"))
    BY DEF Fail
  <2>5. LoadAuth(p) \/ LoadMounts(p) \/ Reload(p) \/ LoadInner(p) =>
          \/ Fail(p)
          \/ \E x : \/ Locally(p, loaded(x)) \/ Locally(p, mounted(x))
                   \/ Locally(p, stored(x)) \/ Locally(p, chosen(x))
    BY Zenon DEF LoadAuth, LoadMounts, Reload, LoadInner
  <2>6. WriteUnlinked(p) \/ Denied(p) \/ Finish(p) =>
          Locally(p, Done(p)) \/ Locally(p, end("write_failed")) \/ Locally(p, end("finished"))
    BY Zenon DEF WriteUnlinked, Denied, Finish
  <2> HIDE DEF end, loaded, mounted, stored, chosen
  <2>7. ASSUME procs[p].pc # "idle", Fail(p) PROVE HandleInv'
    BY <1>4, <2>3, <2>7, <2>4
  <2>8. CASE LoadAuth(p) \/ LoadMounts(p) \/ Reload(p) \/ LoadInner(p)
    <3>1. procs[p].pc # "idle"
      BY <2>8 DEF LoadAuth, LoadMounts, Reload, LoadInner, Next_, At
    <3>2. QED
      BY <1>4, <2>3, <2>7, <2>8, <2>5, <3>1
  <2>9. CASE RunCommand(p)
    <3>1. procs[p].pc = "command"
      BY <1>0, <2>9, CommandStep DEF At
    <3>2. CASE Fail(p)
      BY <2>7, <3>1, <3>2
    <3>3. CASE ~ Fail(p)
      <4>1. PICK cfg \in UserAuthData, mounts \in MountPoints \cup {None} :
              Proceed(p, cfg, mounts, Plan(Inv(p)))
        BY <1>0, <2>9, <3>3, CommandStep
      <4> DEFINE r == [procs[p] EXCEPT !.pc = "todo", !.user_cfg = cfg,
                                       !.user_mounts = mounts, !.todo = Plan(Inv(p))]
      <4>2. procs[p] \in Running
        BY <1>0, <3>1, ProcessFields
      <4>3. Locally(p, r) /\ r.pc = "todo"
        BY <4>1, <4>2 DEF Proceed, Running
      <4> HIDE DEF r
      <4>4. QED
        BY <1>4, <4>3
    <3>4. QED
      BY <3>2, <3>3
  <2>10. CASE WriteUnlinked(p) \/ Denied(p) \/ Finish(p)
    <3>1. procs[p].pc # "idle"
      BY <2>10 DEF WriteUnlinked, Denied, Finish, Next_, At
    <3>2. QED
      BY <1>4, <2>3, <2>10, <2>6, <3>1
  <2>11. CASE Authorize(p) \/ AuthorizeFails(p)
    <3>1. procs[p].pc # "idle"
      BY <2>11 DEF Authorize, AuthorizeFails, Next_, At
    <3>2. \/ Fail(p)
          \/ procs' = [procs EXCEPT ![p] = Done(p)] /\ handle' = handle /\ before' = before
      BY <2>11 DEF Authorize, AuthorizeFails, Locally
    <3>3. QED
      BY <1>3, <2>3, <2>7, <3>1, <3>2
  <2>12. QED
    BY <1>6, <2>1, <2>2, <2>8, <2>9, <2>10, <2>11 DEF Step, RunCommand
<1>7. QED
  BY <1>1, <1>5, <1>6 DEF Next

\* Every step keeps what is known of an invocation that nobody interferes with.
LEMMA AloneStep ==
    ASSUME BaseInv, HandleInv, AloneInv, [Next]_vars
    PROVE  AloneInv'
<1>0. /\ TypeOK /\ \A q \in Procs : ProcInv(procs[q])
      /\ \A q \in Procs : before[q] # None => Alone(procs[q], before[q], files)
  BY DEF BaseInv, AloneInv
<1>1. CASE UNCHANGED vars
  BY <1>1 DEF vars, AloneInv
<1>2. ASSUME NEW p \in Procs, NEW inv \in Invocations, Start(p, inv) PROVE AloneInv'
  <2> DEFINE r == [pc |-> "load_auth", inv |-> inv, user_cfg |-> NewUserAuthData,
                   user_mounts |-> None, inner |-> None, todo |-> <<>>,
                   config |-> NewUserConfig]
  <2>1. /\ procs' = [procs EXCEPT ![p] = r] /\ files' = files
        /\ before' = [before EXCEPT ![p] = files]
    BY <1>2 DEF Start
  <2>2. Alone(r, files, files)
    BY DEF Alone, Reading, Working, OnFile, Adding, InHand
  <2> HIDE DEF r
  <2>3. ASSUME NEW q \in Procs, before'[q] # None PROVE Alone(procs'[q], before'[q], files')
    BY <1>0, <2>1, <2>2, <2>3 DEF TypeOK
  <2>4. QED
    BY <2>3 DEF AloneInv
<1>3. ASSUME NEW p \in Procs, Step(p) PROVE AloneInv'
  <2>1. ASSUME procs[p].pc # "idle", Fail(p), before[p] # None => files = before[p]
        PROVE  AloneInv'
    <3> DEFINE r == [procs[p] EXCEPT !.pc = "failed"]
    <3>1. Locally(p, r) /\ r.pc = "failed"
      BY <1>0, <2>1, ProcessFields DEF Fail, Running
    <3> HIDE DEF r
    <3>2. QED
      BY <2>1, <3>1, AloneEnds, AloneLocally
  <2>2. CASE LoadAuth(p)
    <3> DEFINE data == load_user_auth_data(Loaded(p))
               cfg == IF data \in {None, Err} THEN NewUserAuthData ELSE data
               r == [procs[p] EXCEPT !.pc = "load_mounts", !.user_cfg = cfg]
    <3>1. /\ procs[p].pc = "load_auth"
          /\ \/ Fail(p)
             \/ Locally(p, r) /\ ~ (data = Err /\ Inv(p).op = "setup")
      BY <2>2, Zenon DEF LoadAuth, At
    <3>2. procs[p] \in Running
      BY <1>0, <3>1, ProcessFields
    <3>3. before[p] # None => files = before[p]
      BY <1>0, <3>1 DEF Alone, Reading
    <3>4. r.pc = "load_mounts" /\ r.user_cfg = cfg /\ r.inv = Inv(p)
      BY <3>2 DEF Running, Inv
    <3>5. before[p] # None => cfg = AuthOf(before[p][storage_source(Inv(p))])
      BY <3>3 DEF AuthOf, Loaded
    <3> HIDE DEF cfg, r
    <3>6. ASSUME before[p] # None, Locally(p, r), ~ (data = Err /\ Inv(p).op = "setup")
          PROVE  Alone(r, before[p], files)
      BY <3>3, <3>4, <3>5, <3>6
         DEF Alone, Reading, Working, OnFile, Adding, InHand, Loaded
    <3>7. QED
      BY <2>1, <3>1, <3>3, <3>6, AloneLocally
  <2>3. CASE LoadMounts(p)
    <3> DEFINE mounts == load_user_mountpoints(Loaded(p))
               r == [procs[p] EXCEPT !.pc = "command", !.user_mounts = mounts]
    <3>1. procs[p].pc = "load_mounts" /\ (Fail(p) \/ Locally(p, r))
      BY <2>3 DEF LoadMounts, At
    <3>2. procs[p] \in Running
      BY <1>0, <3>1, ProcessFields
    <3>3. before[p] # None => files = before[p]
      BY <1>0, <3>1 DEF Alone, Reading
    <3>4. /\ r.pc = "command" /\ r.user_mounts = mounts /\ r.inv = procs[p].inv
          /\ r.user_cfg = procs[p].user_cfg
      BY <3>2 DEF Running
    <3>5. before[p] # None => mounts = load_user_mountpoints(before[p][storage_source(procs[p].inv)])
      BY <3>3 DEF Loaded, Inv
    <3> HIDE DEF mounts, r
    <3>6. ASSUME before[p] # None PROVE Alone(r, before[p], files)
      BY <1>0, <3>1, <3>3, <3>4, <3>5, <3>6
         DEF Alone, Reading, Working, OnFile, Adding, InHand
    <3>7. QED
      BY <2>1, <3>1, <3>3, <3>6, AloneLocally
  <2>4. CASE RunCommand(p)
    <3>1. procs[p].pc = "command"
      BY <1>0, <2>4, CommandStep DEF At
    <3>2. CASE Fail(p)
      <4>1. before[p] # None => files = before[p]
        BY <1>0, <3>1 DEF Alone, Reading
      <4>2. QED
        BY <2>1, <3>1, <3>2, <4>1
    <3>3. CASE ~ Fail(p)
      <4>1. PICK cfg \in UserAuthData, mounts \in MountPoints \cup {None} :
              /\ Accepted(Inv(p)) /\ Proceed(p, cfg, mounts, Plan(Inv(p)))
              /\ Computed(Inv(p), user_cfg(p), user_mounts(p), cfg, mounts)
        BY <1>0, <2>4, <3>3, CommandStep
      <4> DEFINE r == [procs[p] EXCEPT !.pc = "todo", !.user_cfg = cfg,
                                       !.user_mounts = mounts, !.todo = Plan(Inv(p))]
      <4>2. procs[p] \in Running
        BY <1>0, <3>1, ProcessFields
      <4>3. /\ r.pc = "todo" /\ r.inv = Inv(p) /\ r.user_cfg = cfg
            /\ r.user_mounts = mounts /\ r.todo = Plan(Inv(p)) /\ Locally(p, r)
        BY <4>1, <4>2 DEF Running, Proceed, Inv
      <4> HIDE DEF r
      <4>4. before[p] # None => Alone(r, before[p], files)
        BY <1>0, <3>1, <4>1, <4>3, AloneCommand
      <4>5. QED
        BY <4>3, <4>4, AloneLocally
    <3>4. QED
      BY <3>2, <3>3
  <2>5. CASE Reload(p)
    <3>1. /\ procs[p].pc = "todo" /\ procs[p].todo # <<>> /\ Next_(p, Stores)
          /\ Head(procs[p].todo).do \in Stores
      BY <2>5 DEF Reload, Next_, At
    <3>2. /\ procs[p] \in Running /\ Planned(procs[p].todo, Inv(p))
          /\ Head(procs[p].todo) = procs[p].todo[1] /\ 1 \in DOMAIN procs[p].todo
      BY <3>1, NextAccess
    <3>3. Source(p) = Target(Inv(p))
      BY <3>1, <3>2 DEF Planned, Source
    <3>4. CASE files[Source(p)] = Torn
      <4>1. Fail(p)
        BY <2>5, <3>4 DEF Reload
      <4>2. before[p] # None => files = before[p]
        BY <1>0, <3>1, <3>3, <3>4 DEF Alone, OnFile, Inv
      <4>3. QED
        BY <2>1, <3>1, <4>1, <4>2
    <3>5. CASE files[Source(p)] # Torn
      <4>1. PICK config \in Replaced(p, files[Source(p)]) :
              Locally(p, [procs[p] EXCEPT !.pc = "truncate", !.config = config])
        BY <2>5, <3>5 DEF Reload
      <4> DEFINE r == [procs[p] EXCEPT !.pc = "truncate", !.config = config]
      <4>2. /\ r.pc = "truncate" /\ r.config = config /\ r.inv = procs[p].inv
            /\ r.user_cfg = procs[p].user_cfg /\ r.user_mounts = procs[p].user_mounts
            /\ r.todo = procs[p].todo /\ r.inner = procs[p].inner
        BY <3>2 DEF Running
      <4> HIDE DEF r
      <4>3. ASSUME before[p] # None PROVE Alone(r, before[p], files)
        <5>1. Alone(procs[p], before[p], files)
          BY <1>0, <4>3
        <5>2. /\ Kept(Inv(p), before[p][Target(Inv(p))], config)
              /\ Inv(p).op = "add" =>
                    \/ \E i \in DOMAIN procs[p].todo :
                          i # 1 /\ procs[p].todo[i].do = "store_auth"
                    \/ load_user_auth_data(config) = user_cfg(p)
          BY <3>1, <3>5, <4>1, <4>3, <5>1, KeptReload
        <5>3. Adding(r, files) /\ InHand(r, before[p])
          BY <4>2, <5>2 DEF Adding, InHand, Inv, user_cfg
        <5>4. Working(r, before[p], files) /\ OnFile(r, before[p], files)
          BY <3>1, <4>2, <5>1 DEF Alone, Working, OnFile
        <5>5. Reading(r, before[p], files)
          BY <4>2 DEF Reading
        <5>6. QED
          BY <5>3, <5>4, <5>5 DEF Alone
      <4>4. QED
        BY <4>1, <4>3, AloneLocally DEF r
    <3>6. QED
      BY <3>4, <3>5
  <2>6. CASE Truncate(p)
    <3>1. /\ procs[p].pc = "truncate" /\ procs[p].todo # <<>>
          /\ Head(procs[p].todo).do \in Stores
      BY <1>0, <2>6 DEF Truncate, At, ProcInv
    <3>2. /\ procs[p] \in Running /\ Planned(procs[p].todo, Inv(p))
          /\ Head(procs[p].todo) = procs[p].todo[1] /\ 1 \in DOMAIN procs[p].todo
      BY <3>1, NextAccess
    <3>3. Source(p) = Target(Inv(p))
      BY <3>1, <3>2 DEF Planned, Source
    <3> DEFINE r == [procs[p] EXCEPT !.pc = "write"]
    <3>4. /\ r.pc = "write" /\ r.config = procs[p].config /\ r.inv = procs[p].inv
          /\ r.user_cfg = procs[p].user_cfg /\ r.user_mounts = procs[p].user_mounts
          /\ r.todo = procs[p].todo /\ r.inner = procs[p].inner
      BY <3>2 DEF Running
    <3>5. Put(p, Source(p), Torn) /\ procs' = [procs EXCEPT ![p] = r]
      BY <1>0, <2>6 DEF Truncate, TypeOK
    <3> HIDE DEF r
    <3>6. \A s \in Sources \ {Target(Inv(p))} : files'[s] = files[s]
      BY <1>0, <3>3, <3>5 DEF Put, TypeOK
    <3>7. ASSUME before[p] # None PROVE Alone(r, before[p], files')
      <4>1. Alone(procs[p], before[p], files)
        BY <1>0, <3>7
      <4>2. Working(r, before[p], files')
        BY <3>1, <3>4, <3>6, <4>1 DEF Alone, Working, Inv
      <4>3. Adding(r, files') /\ InHand(r, before[p])
        BY <3>1, <3>4, <4>1 DEF Alone, Adding, InHand
      <4>4. Reading(r, before[p], files') /\ OnFile(r, before[p], files')
        BY <3>4 DEF Reading, OnFile
      <4>5. QED
        BY <4>2, <4>3, <4>4 DEF Alone
    <3>8. QED
      BY <3>5, <3>7, AlonePut
  <2>7. CASE (Write(p) /\ Put(p, Source(p), procs[p].config)) \/ RemoveFile(p)
    <3> DEFINE contents == IF procs[p].pc = "write" THEN procs[p].config ELSE Missing
    <3>1. /\ procs[p].todo # <<>>
          /\ \/ procs[p].pc = "write" /\ Head(procs[p].todo).do \in Stores
             \/ procs[p].pc = "todo" /\ Head(procs[p].todo).do = "remove"
      BY <1>0, <2>7 DEF Write, RemoveFile, Next_, At, ProcInv
    <3>2. Put(p, Source(p), contents) /\ procs' = [procs EXCEPT ![p] = Done(p)]
      BY <2>7 DEF Write, RemoveFile, Next_, At
    <3>3. procs[p] \in Running /\ contents \in File
      BY <1>0, <3>1, ProcessFields DEF File
    <3>4. /\ Done(p).pc = "todo" /\ Done(p).inv = Inv(p) /\ Done(p).user_cfg = user_cfg(p)
          /\ Done(p).user_mounts = user_mounts(p) /\ Done(p).todo = Tail(procs[p].todo)
          /\ Done(p).inner = procs[p].inner
      BY <3>3 DEF Done, Running, Inv, user_cfg, user_mounts
    <3>5. files' = [files EXCEPT ![Source(p)] = contents]
      BY <3>2 DEF Put
    <3>6. before[p] # None => Alone(Done(p), before[p], files')
      BY <1>0, <3>1, <3>3, <3>4, <3>5, AloneChanged
    <3>7. QED
      BY <3>2, <3>6, AlonePut
  <2>7a. CASE Write(p) /\ ~ Put(p, Source(p), procs[p].config)
    <3>1. /\ procs[p].pc = "write" /\ handle[p] = "shared" /\ Put(p, Source(p), Torn)
          /\ procs' = [procs EXCEPT ![p] = Done(p)]
      BY <2>7a DEF Write, At
    <3>2. before[p] = None
      BY <3>1 DEF HandleInv
    <3>3. QED
      BY <3>1, <3>2, AlonePut
  <2>7b. CASE WriteUnlinked(p)
    <3>1. /\ procs[p].pc = "write" /\ handle[p] = "unlinked"
          /\ \E r : Locally(p, r)
      BY <2>7b DEF WriteUnlinked, At
    <3>2. before[p] = None
      BY <3>1 DEF HandleInv
    <3>3. QED
      BY <3>1, <3>2, AloneLocally
  <2>8. CASE WriteFails(p)
    <3> DEFINE r == [procs[p] EXCEPT !.pc = "write_failed"]
    <3>1. /\ procs[p].pc = "write" /\ \E contents : Put(p, Source(p), contents)
          /\ procs' = [procs EXCEPT ![p] = r]
      BY <1>0, <2>8 DEF WriteFails, At, TypeOK
    <3>2. r.pc = "write_failed"
      BY <1>0, <3>1, ProcessFields DEF Running
    <3> HIDE DEF r
    <3>3. QED
      BY <3>1, <3>2, AloneEnds, AlonePut
  <2>9. CASE Denied(p)
    <3> DEFINE r == [procs[p] EXCEPT !.pc = "write_failed"]
    <3>1. procs[p].pc \in {"truncate", "todo"} /\ Locally(p, r)
      BY <2>9 DEF Denied, At, Next_
    <3>2. r.pc = "write_failed"
      BY <1>0, <3>1, ProcessFields DEF Running
    <3> HIDE DEF r
    <3>3. QED
      BY <3>1, <3>2, AloneEnds, AloneLocally
  <2>10. CASE Finish(p)
    <3> DEFINE r == [procs[p] EXCEPT !.pc = "finished"]
    <3>1. procs[p].pc = "todo" /\ procs[p].todo = <<>> /\ Locally(p, r)
      BY <2>10 DEF Finish, At
    <3>2. procs[p] \in Running
      BY <1>0, <3>1, ProcessFields
    <3>3. /\ r.pc = "finished" /\ r.inv = procs[p].inv
          /\ r.user_cfg = procs[p].user_cfg /\ r.user_mounts = procs[p].user_mounts
          /\ r.todo = procs[p].todo /\ r.inner = procs[p].inner
      BY <3>2 DEF Running
    <3> HIDE DEF r
    <3>4. ASSUME before[p] # None PROVE Alone(r, before[p], files)
      <4>1. Alone(procs[p], before[p], files)
        BY <1>0, <3>4
      <4>2. Working(r, before[p], files) /\ OnFile(r, before[p], files)
        BY <3>1, <3>3, <4>1 DEF Alone, Working, OnFile
      <4>3. Adding(r, files)
        BY <3>1, <3>3, <4>1 DEF Alone, Adding
      <4>4. Reading(r, before[p], files) /\ InHand(r, before[p])
        BY <3>3 DEF Reading, InHand
      <4>5. QED
        BY <4>2, <4>3, <4>4 DEF Alone
    <3>5. QED
      BY <3>1, <3>4, AloneLocally
  <2>11. CASE LoadInner(p) \/ Authorize(p) \/ AuthorizeFails(p)
    <3> DEFINE todo == procs[p].todo
               mounts == load_user_mountpoints(files[Source(p)])
    <3>1. /\ procs[p].pc = "todo" /\ todo # <<>>
          /\ Head(todo).do \in {"load_inner", "authorize"}
          /\ Next_(p, {"load_inner", "authorize"})
      BY <2>11 DEF LoadInner, Authorize, AuthorizeFails, Next_, At
    <3>2. /\ procs[p] \in Running /\ Planned(todo, Inv(p)) /\ Source(p) \in Sources
          /\ Head(todo) = todo[1] /\ 1 \in DOMAIN todo
      BY <3>1, NextAccess
    <3>3. /\ Done(p).pc = "todo" /\ Done(p).inv = Inv(p) /\ Done(p).user_cfg = user_cfg(p)
          /\ Done(p).user_mounts = user_mounts(p) /\ Done(p).todo = Tail(todo)
          /\ Done(p).inner = procs[p].inner
      BY <3>2 DEF Done, Running, Inv, user_cfg, user_mounts
    \* Nothing fails once a file has been changed.
    <3>4. ASSUME Fail(p), mounts = Err \/ Inv(p).op # "setup" PROVE AloneInv'
      <4>1. ASSUME before[p] # None, files # before[p] PROVE FALSE
        <5>1. /\ files[Target(Inv(p))] # Torn
              /\ \A i \in DOMAIN todo : todo[i].do \in Stores \/ Inv(p).op = "setup"
          BY <1>0, <3>1, <4>1 DEF Alone, OnFile, Inv
        <5>2. Inv(p).op = "setup"
          BY <3>1, <3>2, <5>1 DEF Stores
        <5>3. Source(p) = Target(Inv(p))
          BY <3>1, <3>2, <5>2 DEF Planned, Source
        <5>4. mounts # Err
          BY <1>0, <3>2, <5>1, <5>3, MountsLoad DEF TypeOK
        <5>5. QED
          BY <3>4, <5>2, <5>4
      <4>2. QED
        BY <2>1, <3>1, <3>4, <4>1
    <3>5. CASE LoadInner(p)
      <4> DEFINE r == [Done(p) EXCEPT !.inner = mounts]
      <4>1. /\ Head(todo).do = "load_inner"
            /\ \/ Fail(p) /\ (mounts = Err \/ Inv(p).op = "authorize")
               \/ Locally(p, r)
        BY <3>5 DEF LoadInner, Next_
      <4>2. /\ r.pc = Done(p).pc /\ r.inv = Done(p).inv /\ r.user_cfg = Done(p).user_cfg
            /\ r.user_mounts = Done(p).user_mounts /\ r.todo = Done(p).todo /\ r.inner = mounts
        BY <3>2 DEF Done, Running
      <4> HIDE DEF r
      <4>3. before[p] # None => Alone(r, before[p], files)
        BY <1>0, <3>1, <3>3, <4>1, <4>2, AloneAccess
      <4>4. QED
        BY <3>4, <4>1, <4>3, AloneLocally
    <3>6. ASSUME Head(todo).do = "authorize", before[p] # None
          PROVE  Alone(Done(p), before[p], files)
      BY <1>0, <3>1, <3>3, <3>6, AloneAccess
    <3>7. CASE AuthorizeFails(p)
      <4>1. /\ Head(todo).do = "authorize"
            /\ (Fail(p) /\ Inv(p).op # "setup") \/ Locally(p, Done(p))
        BY <3>7 DEF AuthorizeFails, Next_
      <4>2. QED
        BY <3>4, <3>6, <4>1, AloneLocally
    <3>8. CASE Authorize(p)
      <4>1. /\ Head(todo).do = "authorize"
            /\ procs' = [procs EXCEPT ![p] = Done(p)] /\ files' = files /\ before' = before
        BY <3>8 DEF Authorize, Next_
      <4>2. ASSUME NEW q \in Procs, before'[q] # None
            PROVE  Alone(procs'[q], before'[q], files')
        BY <1>0, <3>6, <4>1, <4>2 DEF TypeOK
      <4>3. QED
        BY <4>2 DEF AloneInv
    <3>9. QED
      BY <2>11, <3>5, <3>7, <3>8
  <2>12. CASE Exit(p) \/ Kill(p)
    <3>1. /\ procs' = [procs EXCEPT ![p] = Idle] /\ files' = files
          /\ before' = [before EXCEPT ![p] = None]
      BY <2>12 DEF Exit, Kill
    <3>2. ASSUME NEW q \in Procs, before'[q] # None
          PROVE  Alone(procs'[q], before'[q], files')
      BY <1>0, <3>1, <3>2 DEF TypeOK
    <3>3. QED
      BY <3>2 DEF AloneInv
  <2>13. QED
    BY <1>3, <2>2, <2>3, <2>4, <2>5, <2>6, <2>7, <2>7a, <2>7b, <2>8, <2>9, <2>10, <2>11,
       <2>12
       DEF Step, RunCommand
<1>4. QED
  BY <1>1, <1>2, <1>3 DEF Next

\* The inductive invariant of the invocations that nobody interferes with: what
\* they have in memory and what is left to do fits the files they started from.
THEOREM AloneHolds == Spec => []AloneInv
<1>1. Init => AloneInv /\ HandleInv
  BY DEF Init, AloneInv, HandleInv
<1>2. BaseInv /\ HandleInv /\ [Next]_vars => HandleInv'
  BY HandleStep
<1>3. BaseInv /\ HandleInv /\ AloneInv /\ [Next]_vars => AloneInv'
  BY AloneStep
<1>4. QED
  BY <1>1, <1>2, <1>3, BaseHolds, PTL DEF Spec

\* main.rs:229-245: a command that nobody interfered with and that reports an
\* error, other than one of writing, has not changed any file: once it has stored
\* something, nothing that is left to do can fail for what the files hold.
THEOREM ErrorsAreClean == Spec => []ErrorsChangeNothing
<1>1. ASSUME AloneInv PROVE ErrorsChangeNothing
  BY <1>1 DEF AloneInv, Alone, Reading, ErrorsChangeNothing, EndedAlone, At
<1>2. QED
  BY <1>1, AloneHolds, PTL

\* storage.rs:274, 306, 350: a command that nobody interfered with leaves other
\* files alone and, in its own, the parts it is not about, whatever it stores
\* and in whatever order the pre-mounts are written.
THEOREM PartsAreKept == Spec => []PartsKept
<1>1. ASSUME AloneInv PROVE PartsKept
  <2>1. ASSUME NEW p \in Procs, EndedAlone(p, "finished"), NEW s \in Sources
        PROVE  IF s # Target(Inv(p)) THEN files[s] = before[p][s]
               ELSE \A part \in DOMAIN Parts(files[s]) \ Changes(Inv(p).op) :
                       \/ Parts(files[s])[part] = Parts(before[p][s])[part]
                       \/ part = "auth" /\ Parts(before[p][s]).auth = Err
    <3>1. /\ \A t \in Sources \ {Target(Inv(p))} : files[t] = before[p][t]
          /\ Kept(Inv(p), before[p][Target(Inv(p))], files[Target(Inv(p))])
      BY <1>1, <2>1 DEF AloneInv, Alone, Working, OnFile, EndedAlone, At, Inv
    <3>2. \A file : /\ DOMAIN Parts(file) = {"session", "auth", "mounts"}
                    /\ Parts(file)["session"] = load_user_session_command(file)
                    /\ Parts(file)["auth"] = load_user_auth_data(file)
                    /\ Parts(file).auth = load_user_auth_data(file)
                    /\ Parts(file)["mounts"] = load_user_mountpoints(file)
      BY DEF Parts
    <3>3. QED
      BY <3>1, <3>2 DEF Kept
  <2>2. QED
    BY <2>1 DEF PartsKept
<1>2. QED
  BY <1>1, AloneHolds, PTL

\* main.rs:659: after "Secondary password added" by an invocation that nobody
\* interfered with, the new password opens the account, and so does every secret
\* that did before; where -p has changed the main password, every one that gives
\* the intermediate key.
THEOREM AddedOpens ==
    ASSUME SecretsDiffer
    PROVE  Spec => []AddedMethodOpens
<1>1. ASSUME BaseInv, AloneInv PROVE AddedMethodOpens
  <2>1. ASSUME NEW p \in Procs, EndedAlone(p, "finished"), Inv(p).op = "add"
        PROVE  LET old == load_user_auth_data(before[p][Target(Inv(p))])
                   new == load_user_auth_data(files[Target(Inv(p))])
               IN  /\ new \notin {None, Err}
                   /\ main_by_auth(new, Inv(p).secondary_pw) # None
                   /\ old \notin {None, Err} =>
                         \A s \in Secrets :
                             \/ main_by_auth(new, s) # None
                             \/ main_by_auth(old, s) = None
                             \/ Inv(p).password # None /\ ~ GivesKey(old, s)
    <3> DEFINE old == load_user_auth_data(before[p][Target(Inv(p))])
    <3>1. Alone(procs[p], before[p], files) /\ procs[p].pc = "finished"
      BY <1>1, <2>1 DEF AloneInv, EndedAlone, At
    <3>2. procs[p].todo = <<>>
      BY <2>1, <3>1 DEF Alone, Adding, Inv
    <3>3. load_user_auth_data(files[Target(Inv(p))]) = user_cfg(p)
      <4>1. DOMAIN procs[p].todo = {}
        BY <3>2
      <4>2. QED
        BY <2>1, <3>1, <4>1 DEF Alone, Adding, Inv, user_cfg
    <3>4. AddedTo(Inv(p), AuthOf(before[p][Target(Inv(p))]), user_cfg(p))
      BY <2>1, <3>1 DEF Alone, Working, Inv, user_cfg
    <3>5. Inv(p) \in Invocations /\ user_cfg(p) \in UserAuthData
      BY <1>1, <3>1, ProcessFields DEF BaseInv
    <3>6. main_by_auth(user_cfg(p), Inv(p).secondary_pw) # None
      BY <2>1, <3>4, <3>5, AddOpens
    <3>7. ASSUME old \notin {None, Err}, NEW s \in Secrets, main_by_auth(old, s) # None,
                 Inv(p).password # None => GivesKey(old, s)
          PROVE  main_by_auth(user_cfg(p), s) # None
      <4>1. before[p][Target(Inv(p))] \in File
        <5>1. Target(Inv(p)) \in Sources
          <6>1. Accepted(Inv(p))
            BY <1>1, <3>1 DEF BaseInv, ProcInv, Inv
          <6>2. QED
            BY <1>1, <3>1, <3>5, <6>1, InvocationFields DEF BaseInv
        <5>2. QED
          BY <1>1, <2>1, <5>1 DEF BaseInv, TypeOK, EndedAlone
      <4>2. old \in UserAuthData /\ has_main(old)
        BY <3>7, <4>1, LoadTypes
      <4>3. AddedTo(Inv(p), old, user_cfg(p))
        BY <3>4, <3>7 DEF AuthOf
      <4> HIDE DEF old
      <4>4. QED
        BY <2>1, <3>5, <3>7, <4>2, <4>3, AddKeeps
    <3>8. QED
      BY <3>3, <3>5, <3>6, <3>7, StorageAssumption
  <2>2. QED
    BY <2>1 DEF AddedMethodOpens
<1>2. QED
  BY <1>1, BaseHolds, AloneHolds, PTL

\* Every setup without -c is for the account that runs it.
SetupsAreOwn ==
    \A inv \in Invocations :
        inv.op = "setup" /\ inv.config_file = None => inv.username \in {inv.me, None}

\* Manual/README.md:114 holds of every setup that is run by the account it sets
\* up or on the file that -c names: main.rs:224 loads the data of
\* storage_source to be tested, line 417 stores to setup_storage_source.
THEOREM SetupKeepsKey ==
    ASSUME SetupsAreOwn
    PROVE  Spec => []SetupKeepsExistingKey
<1>1. ASSUME BaseInv, AloneInv PROVE SetupKeepsExistingKey
  <2>1. ASSUME NEW p \in Procs, EndedAlone(p, "finished"), Inv(p).op = "setup"
        PROVE  load_user_auth_data(before[p][Target(Inv(p))]) = None
    <3>1. load_user_auth_data(before[p][storage_source(Inv(p))]) = None
      BY <1>1, <2>1 DEF AloneInv, Alone, Working, EndedAlone, At, Inv
    <3>2. Accepted(Inv(p)) /\ procs[p].pc = "finished"
      BY <1>1, <2>1 DEF BaseInv, ProcInv, EndedAlone, At, Inv
    <3>3. Inv(p) \in Invocations
      BY <1>1, <3>2, ProcessFields DEF BaseInv
    <3>4. Inv(p).config_file = None => Inv(p).username = Inv(p).me
      BY <2>1, <3>2, <3>3, PolyauthctlAssumption DEF SetupsAreOwn, Accepted, Sources
    <3>5. storage_source(Inv(p)) = Target(Inv(p))
      BY <2>1, <3>4 DEF storage_source, Target, setup_storage_source
    <3>6. QED
      BY <3>1, <3>5
  <2>2. QED
    BY <2>1 DEF SetupKeepsExistingKey
<1>2. QED
  BY <1>1, BaseHolds, AloneHolds, PTL
============================================================================
