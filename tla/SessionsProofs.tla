--------------------------- MODULE SessionsProofs ---------------------------
(* Theorems about the session service, for every set of users, clients,    *)
(* tokens and configurations and every combination of faults.              *)
EXTENDS Sessions, FiniteSetTheorems, SequenceTheorems, TLAPS

\* What each step of the handler has established: the call it serves, the
\* configuration it loaded and, once it mounts, that this configuration was
\* authorized and which prefix of the plan is mounted.
HandlerInv ==
    /\ handler.step = "idle" => handler = IdleHandler
    /\ service = "Down" => handler = IdleHandler
    /\ handler.step # "idle" =>
          handler.client \in Clients /\ calls[handler.client] \in Calls
    /\ handler.step \in {"open_key", "open_auth", "open_mount"} =>
          /\ calls[handler.client].op = "open_user_session"
          /\ User \in Users \ DOMAIN sessions
    /\ handler.step = "initiate_key" =>
          calls[handler.client].op = "initiate_session"
    /\ handler.step # "open_mount" => handler.mounted = <<>>
    /\ handler.step = "open_key" => handler.loaded = None
    /\ handler.step = "open_auth" => handler.loaded # None
    /\ handler.step \in {"open_auth", "open_mount"} /\ handler.loaded # None =>
          handler.order \in Orders(handler.loaded)
    /\ handler.step = "open_mount" =>
          /\ handler.loaded # None => Digest \in authorizations[User]
          /\ Len(handler.mounted) < Len(Plan)
          /\ \A i \in DOMAIN handler.mounted : handler.mounted[i] = Plan[i]

\* A token is available only between its issue and its acceptance.
TokenInv ==
    \A t \in Tokens :
        /\ accepted[t] <= 1
        /\ t \in one_time_tokens => t \in issued /\ accepted[t] = 0
        /\ t \notin issued => accepted[t] = 0

\* The inductive invariant.
IInv == TypeOK /\ HandlerInv /\ TokenInv /\ SessionsCounted
            /\ AuthorizedMountsOnly

-----------------------------------------------------------------------------
(* Facts about the operators.                                              *)

\* An iteration order of the pre-mounts (mount.rs:69) lists directories.
LEMMA OrdersAreSequences ==
    ASSUME NEW m \in Configs, NEW order \in Orders(m)
    PROVE  order \in Seq(Targets)
<1>1. DOMAIN m.mounts \subseteq Targets
  BY SessionsAssumption DEF MountPoints
<1>2. Cardinality(DOMAIN m.mounts) \in Nat
  BY <1>1, TargetsAssumption, FS_Subset, FS_CardinalityType
<1>3. order \in [1 .. Cardinality(DOMAIN m.mounts) -> DOMAIN m.mounts]
  BY DEF Orders, Bijection, Injection
<1>4. QED
  BY <1>1, <1>2, <1>3, SeqDef

\* mount_all always has something to mount: the run-time directory.
LEMMA PlanIsSequence ==
    ASSUME NEW u \in Users, NEW m \in Configs \cup {None},
           NEW order \in Seq(Targets)
    PROVE  /\ MountPlan(u, m, order) \in Seq(Targets)
           /\ Len(MountPlan(u, m, order)) >= 1
  BY SessionsAssumption DEF MountPlan

\* The number of guards for a target (pam/mount.rs:204) is a number.
LEMMA OccurrencesType ==
    ASSUME NEW S, NEW held \in Seq(S), NEW t
    PROVE  Occurrences(held, t) \in Nat
<1> DEFINE I == {i \in DOMAIN held : held[i] = t}
<1>1. I \subseteq 1 .. Len(held) /\ Len(held) \in Nat
  BY LenProperties
<1>2. IsFiniteSet(1 .. Len(held))
  BY <1>1, FS_Interval
<1>3. IsFiniteSet(I)
  BY <1>1, <1>2, FS_Subset
<1>4. Cardinality(I) \in Nat
  BY <1>3, FS_CardinalityType
<1>5. QED
  BY <1>4 DEF Occurrences

\* Of the guards for a target some are hidden when they are dropped.
LEMMA HiddenType ==
    ASSUME NEW S, NEW held \in Seq(S), NEW t
    PROVE  /\ HiddenAt(held, t) \in Nat
           /\ HiddenAt(held, t) <= Occurrences(held, t)
<1> DEFINE I == {i \in DOMAIN held : held[i] = t}
           H == {i \in Hidden(held) : held[i] = t}
<1>1. I \subseteq 1 .. Len(held) /\ Len(held) \in Nat
  BY LenProperties
<1>2. IsFiniteSet(I)
  BY <1>1, FS_Interval, FS_Subset
<1>3. H \subseteq I
  BY DEF Hidden
<1>4. IsFiniteSet(H) /\ Cardinality(H) <= Cardinality(I)
  BY <1>2, <1>3, FS_Subset
<1>5. Cardinality(H) \in Nat
  BY <1>4, FS_CardinalityType
<1>6. QED
  BY <1>4, <1>5 DEF HiddenAt, Occurrences

\* Unmounting (pam/mount.rs:140) keeps a mount table a mount table.
LEMMA UnmountType ==
    ASSUME NEW S, NEW table \in [Targets -> Seq(S)], NEW held \in Seq(Targets)
    PROVE  Unmount(table, held) \in [Targets -> Seq(S)]
<1>1. SUFFICES ASSUME NEW t \in Targets
               PROVE  SubSeq(table[t], 1, Len(table[t])
                          - (Occurrences(held, t) - HiddenAt(held, t))) \in Seq(S)
  BY DEF Unmount
<1> DEFINE n == Len(table[t]) - (Occurrences(held, t) - HiddenAt(held, t))
<1>2. /\ Occurrences(held, t) \in Nat /\ HiddenAt(held, t) \in Nat
      /\ HiddenAt(held, t) <= Occurrences(held, t)
  BY OccurrencesType, HiddenType
<1>3. n \in Int /\ n <= Len(table[t])
  BY <1>2, LenProperties
<1>4. \A i \in 1 .. n : table[t][i] \in S
  BY <1>3, ElementOfSeq
<1>5. QED
  BY <1>3, <1>4, SubSeqProperties

\* So does the drop of a vector of guards.
LEMMA DropType ==
    ASSUME TypeOK, NEW held \in Seq(Targets), DropGuards(held)
    PROVE  /\ mtab' \in [Targets -> Seq(Users \cup {Leftover})]
           /\ stuck' \in [Targets -> Nat]
<1>1. mtab' \in [Targets -> Seq(Users \cup {Leftover})]
  BY UnmountType DEF DropGuards, TypeOK
<1>2. \A t \in Targets : HiddenAt(held, t) \in Nat
  BY HiddenType
<1>3. stuck' \in [Targets -> Nat]
  BY <1>2 DEF DropGuards, TypeOK
<1>4. QED
  BY <1>1, <1>3

-----------------------------------------------------------------------------
(* Type correctness and the state of the handler.                          *)

\* Sessions::new (session.rs:76) establishes the inductive invariant.
LEMMA InitIInv == Init => IInv
<1>1. ASSUME Init PROVE TypeOK
  BY <1>1, SessionsAssumption
     DEF Init, TypeOK, NoSessions, IdleHandler, Handler
<1>2. ASSUME Init PROVE HandlerInv /\ TokenInv
  BY <1>2 DEF Init, HandlerInv, TokenInv, IdleHandler
<1>3. ASSUME Init PROVE SessionsCounted /\ AuthorizedMountsOnly
  BY <1>3 DEF Init, SessionsCounted, AuthorizedMountsOnly, NoSessions
<1>4. QED
  BY <1>1, <1>2, <1>3 DEF IInv

\* The answer of a call keeps the types of what the clients see.
LEMMA AnswerType ==
    ASSUME TypeOK, NEW c, NEW r \in Results \cup Tokens, Answer(c, r)
    PROVE  /\ calls' \in [Clients -> Calls \cup {NoCall}]
           /\ replies' \in [Clients -> Results \cup Tokens \cup {NoReply}]
  BY DEF TypeOK, Answer

\* A call that is queued disturbs nothing but what its client waits for.
LEMMA ClientType ==
    ASSUME TypeOK, NEW c \in Clients, ClientStep(c)
    PROVE  TypeOK'
<1>1. SUFFICES ASSUME NEW call \in Calls, Call(c, call)
               PROVE  TypeOK'
  BY DEF ClientStep, CallInitiate, CallOpen, CallClose, CallEnabled, Calls, TypeOK
<1>2. QED
  BY <1>1 DEF Call, TypeOK, outside, tokens, kernel

\* The start of a handler (session.rs:136, 179, 298), and the handlers that
\* never await, keep the types.
LEMMA HandleType ==
    ASSUME TypeOK, HandlerInv, NEW c \in Clients, Handle(c)
    PROVE  TypeOK'
<1>1. CASE InitiateSession(c) \/ OpenFirst(c)
  <2>1. \E s \in {"initiate_key", "open_key"} :
           handler' = [step |-> s, client |-> c, loaded |-> None,
                       order |-> <<>>, mounted |-> <<>>]
    BY <1>1 DEF InitiateSession, OpenFirst, IdleHandler
  <2>2. handler' \in Handler
    BY <2>1 DEF Handler
  <2>3. QED
    BY <1>1, <2>2
       DEF InitiateSession, OpenFirst, TypeOK, outside, tokens, clients, kernel
<1>2. CASE OpenUnknownUser(c) \/ CloseNone(c) \/ IsUserPolyauthEnabled(c)
  <2>1. \E r \in {"Ok", "CannotIdentifyUser", "SessionAlreadyClosed"} : Answer(c, r)
    BY <1>2 DEF OpenUnknownUser, CloseNone, IsUserPolyauthEnabled
  <2>2. QED
    BY <1>2, <2>1, AnswerType
       DEF OpenUnknownUser, CloseNone, IsUserPolyauthEnabled, TypeOK, outside,
           tokens, Results, kernel
<1>3. CASE OpenAgain(c) \/ CloseOne(c)
  <2>1. Answer(c, "Ok") /\ "Ok" \in Results
    BY <1>3 DEF OpenAgain, CloseOne, Results
  <2>2. /\ DOMAIN sessions' = DOMAIN sessions
        /\ sessions' \in [DOMAIN sessions -> UserSession]
    <3> DEFINE u == calls[c].user
    <3>1. u \in DOMAIN sessions /\ sessions[u] \in UserSession
      BY <1>3 DEF OpenAgain, CloseOne, TypeOK
    <3>2. sessions[u].count + 1 \in Int /\ sessions[u].count - 1 \in Int
      BY <3>1 DEF UserSession
    <3>3. \A n \in Int : [sessions[u] EXCEPT !.count = n] \in UserSession
      BY <3>1 DEF UserSession
    <3>4. \E n \in Int :
             sessions' = [sessions EXCEPT ![u] = [sessions[u] EXCEPT !.count = n]]
      BY <1>3, <3>2 DEF OpenAgain, CloseOne
    <3>5. QED
      BY <3>1, <3>3, <3>4 DEF TypeOK
  <2>3. QED
    BY <1>3, <2>1, <2>2, AnswerType
       DEF OpenAgain, CloseOne, TypeOK, outside, tokens, kernel
<1>4. CASE CloseLast(c)
  <2>1. Answer(c, "Ok") /\ "Ok" \in Results
    BY <1>4 DEF CloseLast, Results
  <2>2. sessions[calls[c].user].mounts \in Seq(Targets)
    BY <1>4 DEF CloseLast, TypeOK, UserSession
  <2>3. /\ mtab' \in [Targets -> Seq(Users \cup {Leftover})]
        /\ stuck' \in [Targets -> Nat]
    BY <1>4, <2>2, DropType DEF CloseLast
  <2>4. QED
    BY <1>4, <2>1, <2>3, AnswerType
       DEF CloseLast, TypeOK, outside, tokens
<1>5. QED
  BY <1>1, <1>2, <1>3, <1>4 DEF Handle

\* A handler that returns leaves well-typed clients and the object free.
LEMMA ReturnType ==
    ASSUME TypeOK, NEW r \in Results \cup Tokens, Return(r)
    PROVE  /\ calls' \in [Clients -> Calls \cup {NoCall}]
           /\ replies' \in [Clients -> Results \cup Tokens \cup {NoReply}]
           /\ handler' \in Handler
<1>1. IdleHandler \in Handler
  BY DEF IdleHandler, Handler
<1>2. QED
  BY <1>1, AnswerType DEF Return

\* While mount_all runs, there is a next directory of its plan to mount.
LEMMA MountingFacts ==
    ASSUME TypeOK, HandlerInv, handler.step = "open_mount"
    PROVE  /\ User \in Users
           /\ Plan \in Seq(Targets)
           /\ Len(handler.mounted) \in 0 .. Len(Plan) - 1
           /\ Plan[Len(handler.mounted) + 1] \in Targets
           /\ Mounted \in Seq(Targets)
           /\ Len(Mounted) = Len(handler.mounted) + 1
<1>1. User \in Users /\ Len(handler.mounted) < Len(Plan)
  BY DEF HandlerInv
<1>2. /\ handler.loaded \in Configs \cup {None}
      /\ handler.order \in Seq(Targets)
      /\ handler.mounted \in Seq(Targets)
  BY DEF TypeOK, Handler
<1>3. Plan \in Seq(Targets)
  BY <1>1, <1>2, PlanIsSequence DEF Plan
<1>4. Len(handler.mounted) \in 0 .. Len(Plan) - 1
  BY <1>1, <1>2, <1>3, LenProperties
<1>5. Plan[Len(handler.mounted) + 1] \in Targets
  BY <1>3, <1>4, ElementOfSeq
<1>6. QED
  BY <1>1, <1>2, <1>3, <1>4, <1>5, AppendProperties DEF Mounted

\* So does every later step of a handler: the key, the token, the load, the
\* authorization and the mounts (session.rs:199 to 288).
LEMMA ResumeType ==
    ASSUME TypeOK, HandlerInv, Resume
    PROVE  TypeOK'
<1>1. ASSUME NEW t \in Tokens \ issued, InitiateToken(t) PROVE TypeOK'
  BY <1>1, ReturnType DEF InitiateToken, FetchOk, TypeOK, outside, kernel
<1>2. CASE InitiateEmpty \/ OpenNoKey \/ OpenBadOtp
  <2>1. /\ \E r \in {"EmptyPrelude", "PubKeyError", "DataDecryptionFailed",
                     "EncryptionError"} : Return(r)
        /\ priv_key' \in {"Ready", "Polled"}
        /\ UNCHANGED <<outside, tokens, sessions, kernel>>
    BY <1>2 DEF InitiateEmpty, OpenNoKey, OpenBadOtp, FetchOk, FetchErr
  <2>2. QED
    BY <2>1, ReturnType DEF TypeOK, outside, tokens, Results, kernel
<1>3. CASE FetchPanic \/ OpenAuthorized
  <2>1. IdleHandler \in Handler /\ [op |-> "panicked"] \in Calls
    BY DEF IdleHandler, Handler, Calls
  <2>2. handler' \in Handler
    BY <1>3, <2>1 DEF FetchPanic, OpenAuthorized, TypeOK, Handler
  <2>3. calls' \in [Clients -> Calls \cup {NoCall}] /\ replies' = replies
    BY <1>3, <2>1 DEF FetchPanic, OpenAuthorized, TypeOK, clients
  <2>4. QED
    BY <1>3, <2>2, <2>3
       DEF FetchPanic, OpenAuthorized, TypeOK, outside, tokens, kernel
<1>4. ASSUME UseToken
      PROVE  /\ one_time_tokens' \subseteq Tokens
             /\ issued' \subseteq Tokens
             /\ accepted' \in [Tokens -> Nat]
  BY <1>4 DEF UseToken, TypeOK
<1>5. CASE OpenBadConfig
  <2>1. Return("CannotLoadUserMountError") /\ priv_key' = "Ready"
    BY <1>5 DEF OpenBadConfig, FetchOk
  <2>2. QED
    BY <1>4, <1>5, <2>1, ReturnType DEF OpenBadConfig, TypeOK, outside, Results, kernel
<1>6. CASE OpenNoMounts \/ OpenLoad
  <2>1. CASE OpenNoMounts
    <3>1. handler' \in Handler
      BY <2>1 DEF OpenNoMounts, TypeOK, Handler
    <3>2. QED
      BY <1>4, <2>1, <3>1 DEF OpenNoMounts, FetchOk, TypeOK, outside, clients, kernel
  <2>2. CASE OpenLoad
    <3>1. PICK order \in Orders(mount_cfg[User]) :
             handler' = [handler EXCEPT !.step = "open_auth", !.order = order,
                                        !.loaded = mount_cfg[User]]
      BY <2>2 DEF OpenLoad
    <3>2. mount_cfg[User] \in Configs
      BY <2>2 DEF OpenLoad
    <3>3. order \in Seq(Targets)
      BY <3>2, OrdersAreSequences
    <3>4. handler' \in Handler
      BY <3>1, <3>2, <3>3 DEF TypeOK, Handler
    <3>5. QED
      BY <1>4, <2>2, <3>4 DEF OpenLoad, FetchOk, TypeOK, outside, clients, kernel
  <2>3. QED
    BY <1>6, <2>1, <2>2
<1>7. CASE OpenRefused
  <2>1. Return("UnauthorizedMount")
    BY <1>7 DEF OpenRefused
  <2>2. QED
    BY <1>7, <2>1, ReturnType DEF OpenRefused, TypeOK, outside, tokens, Results,
                                        kernel
<1>8. ASSUME handler.step = "open_mount"
      PROVE  /\ User \in Users
             /\ Plan \in Seq(Targets)
             /\ Len(handler.mounted) \in 0 .. Len(Plan) - 1
             /\ Plan[Len(handler.mounted) + 1] \in Targets
             /\ Mounted \in Seq(Targets)
             /\ Len(Mounted) = Len(handler.mounted) + 1
  BY <1>8, MountingFacts
<1>9. ASSUME MountOne
      PROVE  mtab' \in [Targets -> Seq(Users \cup {Leftover})]
  BY <1>8, <1>9, AppendProperties DEF MountOne, TypeOK
<1>10. CASE MountNext
  <2>1. handler' \in Handler
    BY <1>8, <1>10 DEF MountNext, MountOne, TypeOK, Handler
  <2>2. QED
    BY <1>9, <1>10, <2>1 DEF MountNext, MountOne, TypeOK, outside, tokens, clients
<1>11. CASE MountLast
  <2>1. Return("Ok")
    BY <1>11 DEF MountLast
  <2>2. DOMAIN sessions' = DOMAIN sessions \cup {User}
    BY <1>11 DEF MountLast
  <2>3. DOMAIN sessions' \subseteq Users
    BY <1>8, <1>11, <2>2 DEF MountLast, MountOne, TypeOK
  <2>4. [mounts |-> Mounted, count |-> 1, loaded |-> handler.loaded]
            \in UserSession
    BY <1>8, <1>11 DEF MountLast, MountOne, TypeOK, UserSession, Handler
  <2>5. sessions' \in [DOMAIN sessions' -> UserSession]
    BY <1>11, <2>2, <2>4 DEF MountLast, TypeOK
  <2>6. QED
    BY <1>9, <1>11, <2>1, <2>3, <2>5, ReturnType
       DEF MountLast, MountOne, TypeOK, outside, tokens, Results
<1>12. CASE MountFails
  <2>1. Return("MountError")
    BY <1>12 DEF MountFails
  <2>2. /\ mtab' \in [Targets -> Seq(Users \cup {Leftover})]
        /\ stuck' \in [Targets -> Nat]
    BY <1>12, DropType DEF MountFails, TypeOK, Handler
  <2>3. QED
    BY <1>12, <2>1, <2>2, ReturnType
       DEF MountFails, TypeOK, outside, tokens, Results
<1>13. QED
  BY <1>1, <1>2, <1>3, <1>5, <1>6, <1>7, <1>10, <1>11, <1>12 DEF Resume

\* There are finitely many guards for a target.
LEMMA GuardsFinite ==
    ASSUME TypeOK, NEW t
    PROVE  IsFiniteSet(Guards(t)) /\ Cardinality(Guards(t)) \in Nat
<1> DEFINE G(u) == {u} \X {i \in DOMAIN sessions[u].mounts :
                                sessions[u].mounts[i] = t}
<1>1. IsFiniteSet(DOMAIN sessions)
  BY SessionsAssumption, FS_Subset DEF TypeOK
<1>2. IsFiniteSet({G(u) : u \in DOMAIN sessions})
  <2> DEFINE f == [u \in DOMAIN sessions |-> G(u)]
  <2>1. f \in Surjection(DOMAIN sessions, {G(u) : u \in DOMAIN sessions})
    BY DEF Surjection
  <2>2. QED
    BY <1>1, <2>1, FS_Surjection
<1>3. ASSUME NEW u \in DOMAIN sessions PROVE IsFiniteSet(G(u))
  <2> DEFINE I == {i \in DOMAIN sessions[u].mounts : sessions[u].mounts[i] = t}
  <2>1. sessions[u].mounts \in Seq(Targets)
    BY <1>3 DEF TypeOK, UserSession
  <2>2. I \subseteq 1 .. Len(sessions[u].mounts)
        /\ Len(sessions[u].mounts) \in Nat
    BY <2>1, LenProperties
  <2>3. IsFiniteSet(I)
    BY <2>2, FS_Interval, FS_Subset
  <2>4. IsFiniteSet({u})
    BY FS_Singleton
  <2>5. QED
    BY <2>3, <2>4, FS_Product
<1>4. IsFiniteSet(UNION {G(u) : u \in DOMAIN sessions})
  BY <1>2, <1>3, FS_UNION
<1>5. QED
  BY <1>4, FS_CardinalityType DEF Guards

\* So do the key task, the files, the administrator and the end and the start
\* of the process (service main.rs:99).
LEMMA SurroundingsType ==
    ASSUME TypeOK, Surroundings
    PROVE  TypeOK'
<1>1. CASE KeyTaskEnds
  BY <1>1 DEF KeyTaskEnds, TypeOK, object, tokens, clients, kernel
<1>2. CASE Start
  BY <1>2 DEF Start, TypeOK, tokens, clients, kernel
<1>3. ASSUME NEW u \in Users, NEW m \in Configs \cup {None, Unreadable},
             ChangeConfig(u, m)
      PROVE  TypeOK'
  BY <1>3 DEF ChangeConfig, TypeOK, object, tokens, clients, kernel
<1>4. ASSUME NEW u \in Users, NEW digest \in Digests, Authorize(u, digest)
      PROVE  TypeOK'
  BY <1>4 DEF Authorize, TypeOK, object, tokens, clients, kernel
<1>5. ASSUME NEW table, Stop(table),
             \A t \in Targets : \E n \in Int : DOMAIN table[t] = 1 .. n
      PROVE  TypeOK'
  <2>1. mtab' \in [Targets -> Seq(Users \cup {Leftover})]
    <3>1. SUFFICES ASSUME NEW t \in Targets
                   PROVE  [i \in DOMAIN table[t] |-> Leftover]
                              \in Seq(Users \cup {Leftover})
      BY <1>5 DEF Stop
    <3>2. PICK n \in Nat : DOMAIN table[t] = 1 .. n
      <4>1. PICK k \in Int : DOMAIN table[t] = 1 .. k
        BY <1>5
      <4>2. k \in Nat \/ 1 .. k = 1 .. 0
        BY <4>1
      <4>3. QED
        BY <4>1, <4>2
    <3>3. QED
      BY <3>2, SeqDef
  <2>2. IdleHandler \in Handler
    BY DEF IdleHandler, Handler
  <2>3. sessions' \in [DOMAIN sessions' -> UserSession] /\ DOMAIN sessions' = {}
    BY <1>5 DEF Stop, NoSessions
  <2>4. QED
    BY <1>5, <2>1, <2>2, <2>3 DEF Stop, TypeOK, clients
<1>6. CASE Crash
  BY <1>5, <1>6, LenProperties DEF Crash, TypeOK
<1>7. CASE Sigterm
  <2> DEFINE table == [t \in Targets |->
                 SubSeq(mtab[t], 1, Len(mtab[t])
                     - Cardinality(Guards(t) \ HiddenGuards(t)))]
  <2>1. Stop(table)
    BY <1>7 DEF Sigterm
  <2>2. ASSUME NEW t \in Targets
        PROVE  \E n \in Int : DOMAIN table[t] = 1 .. n
    <3> DEFINE k == Cardinality(Guards(t) \ HiddenGuards(t))
    <3>1. mtab[t] \in Seq(Users \cup {Leftover})
      BY DEF TypeOK
    <3>2. k \in Nat
      BY GuardsFinite, FS_Subset, FS_CardinalityType
    <3> HIDE DEF k
    <3>3. Len(mtab[t]) - k \in Int /\ Len(mtab[t]) - k <= Len(mtab[t])
      BY <3>1, <3>2, LenProperties
    <3>4. \A i \in 1 .. Len(mtab[t]) - k : mtab[t][i] \in Users \cup {Leftover}
      BY <3>1, <3>3, ElementOfSeq
    <3>5. table[t] = SubSeq(mtab[t], 1, Len(mtab[t]) - k)
      BY DEF k
    <3>6. SubSeq(mtab[t], 1, Len(mtab[t]) - k) \in Seq(Users \cup {Leftover})
      BY <3>3, <3>4, SubSeqProperties
    <3>7. QED
      BY <3>5, <3>6, LenProperties
  <2>3. QED
    BY <1>5, <2>1, <2>2
<1>8. QED
  BY <1>1, <1>2, <1>3, <1>4, <1>6, <1>7 DEF Surroundings

\* TypeOK is inductive together with HandlerInv.
LEMMA TypeStep ==
    ASSUME TypeOK, HandlerInv, [Next]_vars
    PROVE  TypeOK'
<1>1. ASSUME NEW c \in Clients, CallLost(c) PROVE TypeOK'
  <2>1. Answer(c, "DBusError") /\ "DBusError" \in Results
    BY <1>1 DEF CallLost, Results
  <2>2. QED
    BY <1>1, <2>1, AnswerType DEF CallLost, TypeOK, outside, object, tokens, kernel
<1>2. CASE UNCHANGED vars
  BY <1>2 DEF TypeOK, vars
<1>3. QED
  BY <1>1, <1>2, ClientType, HandleType, ResumeType, SurroundingsType DEF Next

-----------------------------------------------------------------------------
(* The state of the handler.                                               *)

\* A handler that has returned satisfies HandlerInv.
LEMMA HandlerIdle ==
    ASSUME handler' = IdleHandler
    PROVE  HandlerInv'
  BY DEF HandlerInv, IdleHandler

\* Whatever leaves the handler, its call and the sessions alone and revokes no
\* authorization does not disturb it.
LEMMA HandlerFrame ==
    ASSUME HandlerInv, handler' = handler, sessions' = sessions,
           service' = "Down" => service = "Down",
           handler.step # "idle" =>
               calls'[handler.client] = calls[handler.client],
           \A u \in Users : authorizations[u] \subseteq authorizations'[u]
    PROVE  HandlerInv'
<1>1. CASE handler.step = "idle"
  BY <1>1, HandlerIdle DEF HandlerInv
<1>2. CASE handler.step # "idle"
  <2>1. User' = User
    BY <1>2 DEF User
  <2>2. Plan' = Plan /\ Digest' = Digest
    BY <2>1 DEF Plan, Digest
  <2>3. QED
    BY <1>2, <2>1, <2>2 DEF HandlerInv
<1>3. QED
  BY <1>1, <1>2

\* HandlerInv is inductive: what a handler established before an await
\* (session.rs:199, 249) still holds after it.
LEMMA HandlerStep ==
    ASSUME TypeOK, HandlerInv, [Next]_vars
    PROVE  HandlerInv'
<1>1. ASSUME NEW c \in Clients, ClientStep(c) PROVE HandlerInv'
  <2>1. calls[c] = NoCall /\ UNCHANGED <<outside, sessions, handler>>
    BY <1>1
       DEF ClientStep, CallInitiate, CallOpen, CallClose, CallEnabled, Call
  <2>2. ASSUME NEW d \in Clients, d # c PROVE calls'[d] = calls[d]
    BY <1>1, <2>2
       DEF ClientStep, CallInitiate, CallOpen, CallClose, CallEnabled, Call,
           TypeOK
  <2>3. handler.step # "idle" => handler.client \in Clients \ {c}
    BY <2>1, SessionsAssumption DEF HandlerInv
  <2>4. QED
    BY <2>1, <2>2, <2>3, HandlerFrame DEF outside
<1>2. ASSUME NEW c \in Clients, Handle(c) PROVE HandlerInv'
  <2>1. service = "Up" /\ handler = IdleHandler /\ service' = "Up"
    BY <1>2
       DEF Handle, InitiateSession, OpenUnknownUser, OpenAgain, OpenFirst,
           CloseNone, CloseOne, CloseLast, IsUserPolyauthEnabled, Dispatch,
           outside, HandlerInv
  <2>2. CASE InitiateSession(c) \/ OpenFirst(c)
    <3>1. calls[c] \in Calls /\ calls' = calls /\ sessions' = sessions
      BY <2>2 DEF InitiateSession, OpenFirst, Dispatch, Pending, TypeOK, clients
    <3>2. CASE InitiateSession(c)
      <4>1. /\ handler'.step = "initiate_key" /\ handler'.client = c
            /\ handler'.mounted = <<>>
            /\ calls[c].op = "initiate_session"
        BY <3>2 DEF InitiateSession, IdleHandler, Dispatch, Pending
      <4>2. QED
        BY <2>1, <3>1, <4>1 DEF HandlerInv
    <3>3. CASE OpenFirst(c)
      <4>1. handler' = [step |-> "open_key", client |-> c, loaded |-> None,
                        order |-> <<>>, mounted |-> <<>>]
        BY <3>3 DEF OpenFirst, IdleHandler
      <4>2. /\ calls[c].op = "open_user_session"
            /\ calls[c].user \in Users \ DOMAIN sessions
        BY <3>3 DEF OpenFirst, Dispatch, Pending
      <4>3. QED
        BY <2>1, <3>1, <4>1, <4>2 DEF HandlerInv, User
    <3>4. QED
      BY <2>2, <3>2, <3>3
  <2>3. CASE OpenUnknownUser(c) \/ OpenAgain(c) \/ CloseNone(c) \/ CloseOne(c)
                \/ CloseLast(c) \/ IsUserPolyauthEnabled(c)
    BY <2>1, <2>3, HandlerIdle
       DEF OpenUnknownUser, OpenAgain, CloseNone, CloseOne, CloseLast,
           IsUserPolyauthEnabled
  <2>4. QED
    BY <1>2, <2>2, <2>3 DEF Handle
<1>3. ASSUME Resume PROVE HandlerInv'
  <2>1. ASSUME NEW t \in Tokens \ issued, InitiateToken(t) PROVE HandlerInv'
    BY <2>1, HandlerIdle DEF InitiateToken, Return
  <2>2. CASE InitiateEmpty \/ OpenNoKey \/ OpenBadOtp \/ OpenBadConfig
                \/ OpenRefused \/ MountLast \/ MountFails \/ FetchPanic
    BY <2>2, HandlerIdle
       DEF InitiateEmpty, OpenNoKey, OpenBadOtp, OpenBadConfig, OpenRefused,
           MountLast, MountFails, FetchPanic, Return
  <2>4. CASE OpenNoMounts
    <3>1. /\ handler' = [handler EXCEPT !.step = "open_mount"]
          /\ UNCHANGED <<outside, calls, sessions>>
      BY <2>4 DEF OpenNoMounts, clients
    <3>2. /\ handler.step = "open_key" /\ handler.loaded = None
          /\ handler.mounted = <<>> /\ service # "Down"
          /\ handler.client \in Clients /\ calls[handler.client] \in Calls
          /\ calls[handler.client].op = "open_user_session"
          /\ User \in Users \ DOMAIN sessions
      BY <2>4 DEF OpenNoMounts, HandlerInv, IdleHandler
    <3>3. /\ handler'.step = "open_mount" /\ handler'.loaded = None
          /\ handler'.mounted = <<>> /\ handler'.client = handler.client
      BY <3>1, <3>2 DEF TypeOK, Handler
    <3>4. Plan' = <<XdgPath[User]>> /\ User' = User
      BY <3>1, <3>3 DEF Plan, MountPlan, User
    <3>5. QED
      BY <3>1, <3>2, <3>3, <3>4 DEF HandlerInv, outside
  <2>5. CASE OpenLoad
    <3>1. PICK order \in Orders(mount_cfg[User]) :
             handler' = [handler EXCEPT !.step = "open_auth", !.order = order,
                                        !.loaded = mount_cfg[User]]
      BY <2>5 DEF OpenLoad
    <3>2. /\ UNCHANGED <<outside, calls, sessions>>
          /\ mount_cfg[User] \in Configs /\ mount_cfg[User] # None
      BY <2>5, SessionsAssumption DEF OpenLoad, clients
    <3>3. /\ handler.step = "open_key"
          /\ handler.mounted = <<>> /\ service # "Down"
          /\ handler.client \in Clients /\ calls[handler.client] \in Calls
          /\ calls[handler.client].op = "open_user_session"
          /\ User \in Users \ DOMAIN sessions
      BY <2>5 DEF OpenLoad, HandlerInv, IdleHandler
    <3>4. /\ handler'.step = "open_auth" /\ handler'.loaded = mount_cfg[User]
          /\ handler'.order = order
          /\ handler'.mounted = <<>> /\ handler'.client = handler.client
      BY <3>1, <3>3 DEF TypeOK, Handler
    <3>5. User' = User
      BY <3>2, <3>4 DEF User
    <3>6. QED
      BY <3>2, <3>3, <3>4, <3>5 DEF HandlerInv, outside
  <2>6. CASE OpenAuthorized
    <3>1. /\ handler' = [handler EXCEPT !.step = "open_mount"]
          /\ UNCHANGED <<outside, calls, sessions>>
          /\ Digest \in authorizations[User]
      BY <2>6 DEF OpenAuthorized, clients
    <3>2. /\ handler.step = "open_auth" /\ handler.loaded # None
          /\ handler.order \in Orders(handler.loaded)
          /\ handler.mounted = <<>> /\ service # "Down"
          /\ handler.client \in Clients /\ calls[handler.client] \in Calls
          /\ calls[handler.client].op = "open_user_session"
          /\ User \in Users \ DOMAIN sessions
      BY <2>6 DEF OpenAuthorized, HandlerInv, IdleHandler
    <3>3. /\ handler'.step = "open_mount" /\ handler'.loaded = handler.loaded
          /\ handler'.order = handler.order
          /\ handler'.mounted = <<>> /\ handler'.client = handler.client
      BY <3>1, <3>2 DEF TypeOK, Handler
    <3>4. User' = User /\ Plan' = Plan /\ Digest' = Digest
      BY <3>1, <3>3 DEF Plan, User, Digest
    <3>5. Len(Plan) >= 1
      BY <3>2, PlanIsSequence DEF Plan, TypeOK, Handler
    <3>6. QED
      BY <3>1, <3>2, <3>3, <3>4, <3>5 DEF HandlerInv, outside
  <2>7. CASE MountNext
    <3>1. /\ handler' = [handler EXCEPT !.mounted = Mounted]
          /\ UNCHANGED <<outside, calls, sessions>>
          /\ Len(Mounted) < Len(Plan)
      BY <2>7 DEF MountNext, MountOne, clients
    <3>2. handler.step = "open_mount" /\ handler.mounted \in Seq(Targets)
      BY <2>7 DEF MountNext, MountOne, TypeOK, Handler
    <3>3. /\ handler'.step = handler.step /\ handler'.loaded = handler.loaded
          /\ handler'.order = handler.order
          /\ handler'.mounted = Mounted /\ handler'.client = handler.client
      BY <3>1 DEF TypeOK, Handler
    <3>4. User' = User /\ Plan' = Plan /\ Digest' = Digest
      BY <3>1, <3>3 DEF Plan, User, Digest
    <3>5. \A i \in DOMAIN Mounted : Mounted[i] = Plan[i]
      <4>1. /\ DOMAIN handler.mounted = 1 .. Len(handler.mounted)
            /\ Len(handler.mounted) \in Nat
        BY <3>2, LenProperties
      <4>2. \A i \in 1 .. Len(handler.mounted) : handler.mounted[i] = Plan[i]
        BY <3>2, <4>1 DEF HandlerInv
      <4>3. QED
        BY <3>2, <4>1, <4>2 DEF Mounted
    <3>6. service # "Down"
      BY <3>2 DEF HandlerInv, IdleHandler
    <3>7. QED
      BY <3>1, <3>2, <3>3, <3>4, <3>5, <3>6 DEF HandlerInv, outside
  <2>8. QED
    BY <1>3, <2>1, <2>2, <2>4, <2>5, <2>6, <2>7 DEF Resume
<1>4. ASSUME Surroundings PROVE HandlerInv'
  <2>1. CASE KeyTaskEnds \/ Start
    BY <2>1, HandlerFrame DEF KeyTaskEnds, Start, object, clients
  <2>2. ASSUME NEW u \in Users, NEW m \in Configs \cup {None, Unreadable},
               ChangeConfig(u, m)
        PROVE  HandlerInv'
    BY <2>2, HandlerFrame DEF ChangeConfig, object, clients
  <2>3. ASSUME NEW u \in Users, NEW digest \in Digests, Authorize(u, digest)
        PROVE  HandlerInv'
    <3>1. \A v \in Users : authorizations[v] \subseteq authorizations'[v]
      BY <2>3 DEF Authorize, TypeOK
    <3>2. QED
      BY <2>3, <3>1, HandlerFrame DEF Authorize, object, clients
  <2>4. CASE Crash \/ Sigterm
    BY <2>4, HandlerIdle DEF Crash, Sigterm, Stop
  <2>5. QED
    BY <1>4, <2>1, <2>2, <2>3, <2>4 DEF Surroundings
<1>5. ASSUME NEW c \in Clients, CallLost(c) PROVE HandlerInv'
  BY <1>5, HandlerIdle DEF CallLost, object, HandlerInv
<1>6. CASE UNCHANGED vars
  BY <1>6, HandlerFrame DEF vars
<1>7. QED
  BY <1>1, <1>2, <1>3, <1>4, <1>5, <1>6 DEF Next

-----------------------------------------------------------------------------
(* Tokens, counts and authorizations.                                      *)

\* TokenInv is inductive: session.rs:218 removes the token it accepts, and no
\* token is drawn twice.
LEMMA TokenStep ==
    ASSUME TypeOK, TokenInv, [Next]_vars
    PROVE  TokenInv'
<1>1. ASSUME UNCHANGED tokens PROVE TokenInv'
  BY <1>1 DEF TokenInv, tokens
<1>2. ASSUME NEW t \in Tokens \ issued, InitiateToken(t) PROVE TokenInv'
  BY <1>2 DEF InitiateToken, TokenInv, TypeOK
<1>3. ASSUME UseToken PROVE TokenInv'
  BY <1>3 DEF UseToken, TokenInv, TypeOK
<1>4. ASSUME NEW table, Stop(table) PROVE TokenInv'
  BY <1>4 DEF Stop, TokenInv
<1>5. ASSUME NEW c \in Clients, ClientStep(c) \/ Handle(c) \/ CallLost(c)
      PROVE  UNCHANGED tokens
  BY <1>5
     DEF ClientStep, CallInitiate, CallOpen, CallClose, CallEnabled, Call, Handle,
         InitiateSession, OpenUnknownUser, OpenAgain, OpenFirst, CloseNone,
         CloseOne, CloseLast, IsUserPolyauthEnabled, CallLost
<1>6. ASSUME Resume PROVE TokenInv'
  <2>1. CASE InitiateEmpty \/ FetchPanic \/ OpenNoKey \/ OpenBadOtp
                \/ OpenAuthorized \/ OpenRefused
    BY <1>1, <2>1
       DEF InitiateEmpty, FetchPanic, OpenNoKey, OpenBadOtp, OpenAuthorized,
           OpenRefused
  <2>2. CASE MountNext \/ MountLast \/ MountFails
    BY <1>1, <2>2 DEF MountNext, MountLast, MountFails, MountOne
  <2>3. CASE OpenBadConfig \/ OpenNoMounts \/ OpenLoad
    BY <1>3, <2>3 DEF OpenBadConfig, OpenNoMounts, OpenLoad
  <2>4. QED
    BY <1>2, <1>6, <2>1, <2>2, <2>3 DEF Resume
<1>7. ASSUME Surroundings PROVE TokenInv'
  <2>1. CASE Crash \/ Sigterm
    BY <1>4, <2>1 DEF Crash, Sigterm
  <2>2. CASE ~(Crash \/ Sigterm)
    BY <1>1, <1>7, <2>2
       DEF Surroundings, KeyTaskEnds, ChangeConfig, Authorize, Start
  <2>3. QED
    BY <2>1, <2>2
<1>8. QED
  BY <1>1, <1>5, <1>6, <1>7 DEF Next, vars, tokens

\* The steps that touch the sessions: a further open or a close that is not the
\* last changes one count, the last close removes a session, the last mount
\* adds one and the end of the process removes all.
LEMMA SessionSteps ==
    ASSUME [Next]_vars
    PROVE  \/ UNCHANGED sessions
           \/ \E c \in Clients : OpenAgain(c) \/ CloseOne(c) \/ CloseLast(c)
           \/ MountLast
           \/ sessions' = NoSessions /\ service' = "Down"
<1>1. ASSUME NEW c \in Clients, ClientStep(c) \/ CallLost(c)
      PROVE  UNCHANGED sessions
  BY <1>1
     DEF ClientStep, CallInitiate, CallOpen, CallClose, CallEnabled, Call,
         CallLost, object
<1>2. ASSUME NEW c \in Clients, Handle(c)
      PROVE  \/ UNCHANGED sessions
             \/ OpenAgain(c) \/ CloseOne(c) \/ CloseLast(c)
  BY <1>2
     DEF Handle, InitiateSession, OpenUnknownUser, OpenFirst, CloseNone,
         IsUserPolyauthEnabled
<1>3. ASSUME Resume PROVE UNCHANGED sessions \/ MountLast
  BY <1>3
     DEF Resume, InitiateToken, InitiateEmpty, FetchPanic, OpenNoKey,
         OpenBadOtp, OpenBadConfig, OpenNoMounts, OpenLoad, OpenAuthorized,
         OpenRefused, MountNext, MountFails
<1>4. ASSUME Surroundings
      PROVE  UNCHANGED sessions \/ (sessions' = NoSessions /\ service' = "Down")
  BY <1>4
     DEF Surroundings, KeyTaskEnds, ChangeConfig, Authorize, Start, Crash,
         Sigterm, Stop, object
<1>5. QED
  BY <1>1, <1>2, <1>3, <1>4 DEF Next, vars

\* The count is at least one after every step: session.rs:309 removes the
\* session whose count would be zero.
LEMMA CountStep ==
    ASSUME TypeOK, SessionsCounted, [Next]_vars
    PROVE  SessionsCounted'
<1>1. ASSUME NEW c \in Clients, OpenAgain(c) \/ CloseOne(c) PROVE SessionsCounted'
  <2> DEFINE u == calls[c].user
  <2>1. PICK n \in {sessions[u].count + 1, sessions[u].count - 1} :
           /\ sessions' = [sessions EXCEPT ![u].count = n]
           /\ n # 0
           /\ u \in DOMAIN sessions
    BY <1>1 DEF OpenAgain, CloseOne, TypeOK, UserSession, SessionsCounted
  <2>2. sessions[u].count \in Int /\ sessions[u].count >= 1
    BY <2>1 DEF TypeOK, UserSession, SessionsCounted
  <2>3. n >= 1
    BY <2>1, <2>2
  <2>4. QED
    BY <2>1, <2>3 DEF TypeOK, UserSession, SessionsCounted
<1>2. ASSUME NEW c \in Clients, CloseLast(c) PROVE SessionsCounted'
  BY <1>2 DEF CloseLast, SessionsCounted
<1>3. CASE MountLast
  BY <1>3 DEF MountLast, SessionsCounted
<1>4. CASE sessions' = NoSessions
  BY <1>4 DEF NoSessions, SessionsCounted
<1>5. CASE UNCHANGED sessions
  BY <1>5 DEF SessionsCounted
<1>6. QED
  BY <1>1, <1>2, <1>3, <1>4, <1>5, SessionSteps

\* Counting an open or a close leaves the mounts of every session alone.
LEMMA CountingKeepsMounts ==
    ASSUME TypeOK, NEW c, OpenAgain(c) \/ CloseOne(c)
    PROVE  /\ DOMAIN sessions' = DOMAIN sessions
           /\ \A u \in DOMAIN sessions : /\ sessions'[u].loaded = sessions[u].loaded
                                         /\ sessions'[u].mounts = sessions[u].mounts
<1> DEFINE v == calls[c].user
<1>1. \A u \in DOMAIN sessions : sessions[u] \in UserSession
  BY DEF TypeOK
<1>2. PICK n : sessions' = [sessions EXCEPT ![v] = [sessions[v] EXCEPT !.count = n]]
  BY DEF OpenAgain, CloseOne
<1>3. v \in DOMAIN sessions
  BY DEF OpenAgain, CloseOne
<1>4. /\ [sessions[v] EXCEPT !.count = n].loaded = sessions[v].loaded
      /\ [sessions[v] EXCEPT !.count = n].mounts = sessions[v].mounts
  BY <1>1, <1>3 DEF UserSession
<1>5. QED
  BY <1>2, <1>3, <1>4

\* No step of the service or of its surroundings revokes an authorization.
LEMMA AuthorizationsGrow ==
    ASSUME TypeOK, [Next]_vars
    PROVE  \A u \in Users : authorizations[u] \subseteq authorizations'[u]
<1>1. ASSUME NEW c \in Clients, ClientStep(c) \/ Handle(c) \/ CallLost(c)
      PROVE  UNCHANGED authorizations
  BY <1>1
     DEF ClientStep, CallInitiate, CallOpen, CallClose, CallEnabled, Call, Handle,
         InitiateSession, OpenUnknownUser, OpenAgain, OpenFirst, CloseNone,
         CloseOne, CloseLast, IsUserPolyauthEnabled, CallLost, outside
<1>2. ASSUME Resume PROVE UNCHANGED authorizations
  BY <1>2
     DEF Resume, InitiateToken, InitiateEmpty, FetchPanic, OpenNoKey,
         OpenBadOtp, OpenBadConfig, OpenNoMounts, OpenLoad, OpenAuthorized,
         OpenRefused, MountNext, MountLast, MountFails, MountOne, outside
<1>3. ASSUME NEW u \in Users, NEW digest \in Digests, Authorize(u, digest)
      PROVE  \A v \in Users : authorizations[v] \subseteq authorizations'[v]
  BY <1>3 DEF Authorize, TypeOK
<1>4. ASSUME KeyTaskEnds \/ Crash \/ Sigterm \/ Start
                 \/ \E u \in Users, m \in Configs \cup {None, Unreadable} :
                        ChangeConfig(u, m)
      PROVE  UNCHANGED authorizations
  BY <1>4 DEF KeyTaskEnds, Crash, Sigterm, Stop, Start, ChangeConfig
<1>5. QED
  BY <1>1, <1>2, <1>3, <1>4 DEF Next, Surroundings, vars

\* AuthorizedMountsOnly is inductive with HandlerInv: MountLast stores what
\* session.rs:251 checked.
LEMMA AuthStep ==
    ASSUME TypeOK, HandlerInv, AuthorizedMountsOnly, [Next]_vars
    PROVE  AuthorizedMountsOnly'
<1> DEFINE Auth(s, u, granted) ==
      /\ s.loaded = None => s.mounts = <<XdgPath[u]>>
      /\ s.loaded # None =>
            \E order \in Orders(s.loaded) :
               /\ hash(s.loaded, order) \in granted
               /\ s.mounts = MountPlan(u, s.loaded, order)
<1>1. \A u \in DOMAIN sessions : Auth(sessions[u], u, authorizations[u])
  BY DEF AuthorizedMountsOnly
<1>2. SUFFICES \A u \in DOMAIN sessions' : Auth(sessions'[u], u, authorizations'[u])
  BY DEF AuthorizedMountsOnly
<1>3. DOMAIN sessions \subseteq Users
  BY DEF TypeOK
<1>4. \A u \in DOMAIN sessions : Auth(sessions[u], u, authorizations'[u])
  BY <1>1, <1>3, AuthorizationsGrow
<1> HIDE DEF Auth
<1>5. CASE UNCHANGED sessions
  BY <1>4, <1>5
<1>6. ASSUME NEW c \in Clients, OpenAgain(c) \/ CloseOne(c)
      PROVE  \A u \in DOMAIN sessions' : Auth(sessions'[u], u, authorizations'[u])
  BY <1>4, <1>6, CountingKeepsMounts DEF Auth
<1>7. ASSUME NEW c \in Clients, CloseLast(c)
      PROVE  \A u \in DOMAIN sessions' : Auth(sessions'[u], u, authorizations'[u])
  BY <1>4, <1>7 DEF CloseLast
<1>8. CASE MountLast
  <2>1. /\ handler.step = "open_mount"
        /\ handler.mounted \in Seq(Targets)
        /\ Len(Mounted) = Len(Plan)
        /\ UNCHANGED authorizations
    BY <1>8 DEF MountLast, MountOne, TypeOK, Handler, outside
  <2>2. User \in Users \ DOMAIN sessions
    BY <2>1 DEF HandlerInv
  <2>3. /\ handler.loaded \in Configs \cup {None}
        /\ handler.order \in Seq(Targets)
    BY DEF TypeOK, Handler
  <2>4. Plan \in Seq(Targets)
    BY <2>2, <2>3, PlanIsSequence DEF Plan
  <2>5. Mounted = Plan
    <3> DEFINE k == Len(handler.mounted)
    <3>1. k \in Nat /\ DOMAIN handler.mounted = 1 .. k
      BY <2>1, LenProperties
    <3>2. \A i \in 1 .. k : handler.mounted[i] = Plan[i]
      BY <2>1, <3>1 DEF HandlerInv
    <3>3. Len(Mounted) = k + 1 /\ \A i \in 1 .. k : Mounted[i] = Plan[i]
      BY <2>1, <3>1, <3>2 DEF Mounted
    <3>4. Mounted[k + 1] = Plan[k + 1]
      BY <2>1, <3>1 DEF Mounted
    <3>5. Len(Plan) = k + 1 /\ Plan[k + 1] \in Targets
      <4>1. Len(Plan) = k + 1
        BY <2>1, <3>3
      <4>2. k + 1 \in 1 .. Len(Plan)
        BY <3>1, <4>1
      <4>3. QED
        BY <2>4, <4>1, <4>2, ElementOfSeq
    <3>6. Mounted \in Seq(Targets)
      BY <2>1, <3>5, AppendProperties DEF Mounted
    <3>7. \A i \in 1 .. k + 1 : Mounted[i] = Plan[i]
      BY <3>1, <3>3, <3>4
    <3>8. QED
      BY <2>4, <3>3, <3>5, <3>6, <3>7, SeqEqual
  <2>6. sessions'[User] = [mounts |-> Plan, count |-> 1,
                           loaded |-> handler.loaded]
    BY <1>8, <2>2, <2>5 DEF MountLast
  <2>7. handler.loaded # None =>
           /\ handler.order \in Orders(handler.loaded)
           /\ hash(handler.loaded, handler.order) \in authorizations[User]
    BY <2>1 DEF HandlerInv, Digest
  <2>8. Auth(sessions'[User], User, authorizations'[User])
    <3>1. CASE handler.loaded = None
      BY <2>6, <3>1 DEF Auth, Plan, MountPlan
    <3>2. CASE handler.loaded # None
      BY <2>1, <2>6, <2>7, <3>2 DEF Auth, Plan
    <3>3. QED
      BY <3>1, <3>2
  <2>9. /\ DOMAIN sessions' = DOMAIN sessions \cup {User}
        /\ \A u \in DOMAIN sessions : sessions'[u] = sessions[u]
    BY <1>8 DEF MountLast
  <2>10. QED
    BY <1>4, <2>8, <2>9
<1>9. CASE sessions' = NoSessions
  BY <1>9 DEF NoSessions
<1>10. QED
  BY <1>5, <1>6, <1>7, <1>8, <1>9, SessionSteps

-----------------------------------------------------------------------------
(* The theorems.                                                           *)

\* Every step of the service and of its surroundings keeps the invariant.
LEMMA IInvStep ==
    ASSUME IInv, [Next]_vars
    PROVE  IInv'
  BY TypeStep, HandlerStep, TokenStep, CountStep, AuthStep DEF IInv

\* The inductive invariant holds in every behaviour of the service.
LEMMA Invariance == Spec => []IInv
  BY InitIInv, IInvStep, PTL DEF Spec

\* The session object of session.rs:68 keeps its types through every handler,
\* fault and restart.
THEOREM TypeCorrect == Spec => []TypeOK
<1>1. IInv => TypeOK
  BY DEF IInv
<1>2. QED
  BY Invariance, <1>1, PTL

\* session.rs:215: no one-time token is accepted twice.
THEOREM TokensAcceptedOnce == Spec => []TokenAcceptedOnce
<1>1. IInv => TokenAcceptedOnce
  BY DEF IInv, TokenInv, TokenAcceptedOnce
<1>2. QED
  BY Invariance, <1>1, PTL

\* session.rs:243: every mounted configuration was authorized for its user,
\* and exactly that configuration is what mount_all mounted.
THEOREM MountsAuthorized == Spec => []AuthorizedMountsOnly
<1>1. IInv => AuthorizedMountsOnly
  BY DEF IInv
<1>2. QED
  BY Invariance, <1>1, PTL

\* session.rs:309: the count of a stored session never reaches zero.
THEOREM CountsPositive == Spec => []SessionsCounted
<1>1. IInv => SessionsCounted
  BY DEF IInv
<1>2. QED
  BY Invariance, <1>1, PTL

\* session.rs:192, 309: the mounts of a session are given up only by a close for
\* its own user that takes the count from one to none, or by the end of the process.
THEOREM MountsHeld == Spec => MountsHeldUntilLastClose
<1> DEFINE Ends(u) == /\ sessions[u].count = 1
                      /\ \E c \in Pending("close_user_session") :
                            calls[c].user = u /\ Answers(c)
           Held == \A u \in DOMAIN sessions :
              \/ u \in DOMAIN sessions' /\ sessions'[u].mounts = sessions[u].mounts
              \/ Ends(u)
              \/ service' = "Down"
<1>1. ASSUME IInv, [Next]_vars PROVE Held
  <2>1. TypeOK
    BY <1>1 DEF IInv
  <2>2. ASSUME NEW c \in Clients, OpenAgain(c) \/ CloseOne(c) PROVE Held
    BY <2>1, <2>2, CountingKeepsMounts
  <2>3. ASSUME NEW c \in Clients, CloseLast(c) PROVE Held
    <3> DEFINE u == calls[c].user
    <3>1. /\ c \in Pending("close_user_session")
          /\ u \in DOMAIN sessions
          /\ sessions[u].count - 1 = 0
          /\ sessions' = [v \in DOMAIN sessions \ {u} |-> sessions[v]]
          /\ Answer(c, "Ok")
      BY <2>3 DEF CloseLast, Dispatch
    <3>2. sessions[u].count \in Int
      BY <2>1, <3>1 DEF TypeOK, UserSession
    <3>3. Answers(c)
      BY <2>1, <3>1 DEF Answers, Answer, Pending, TypeOK
    <3>4. Ends(u)
      BY <3>1, <3>2, <3>3
    <3>5. \A v \in DOMAIN sessions \ {u} :
             v \in DOMAIN sessions' /\ sessions'[v] = sessions[v]
      BY <3>1
    <3>6. QED
      BY <3>4, <3>5
  <2>4. CASE MountLast
    BY <2>4 DEF MountLast
  <2>5. CASE UNCHANGED sessions
    BY <2>5
  <2>6. QED
    BY <1>1, <2>2, <2>3, <2>4, <2>5, SessionSteps
<1>2. QED
  BY Invariance, <1>1, PTL DEF Spec, MountsHeldUntilLastClose
=============================================================================
