---------------------------- MODULE MountProofs ----------------------------
(***************************************************************************)
(* Theorems about the mounts the session service makes and about what it   *)
(* tells its callers, on top of SessionsProofs.                            *)
(***************************************************************************)
EXTENDS SessionsProofs

-----------------------------------------------------------------------------
(* Counting guards.                                                        *)

\* The guards of Guards(t), for the sessions s.
GuardSet(s, t) ==
    UNION {{u} \X {i \in DOMAIN s[u].mounts : s[u].mounts[i] = t} : u \in DOMAIN s}

\* A vector of guards (pam/mount.rs:167) starts without any for t.
LEMMA OccurrencesEmpty ==
    ASSUME NEW t
    PROVE  Occurrences(<<>>, t) = 0
<1>1. {i \in DOMAIN <<>> : <<>>[i] = t} = {}
  OBVIOUS
<1>2. QED
  BY <1>1, FS_EmptySet DEF Occurrences

\* Pushing a guard counts for its own target and for no other.
LEMMA OccurrencesAppend ==
    ASSUME NEW S, NEW held \in Seq(S), NEW x \in S, NEW t
    PROVE  Occurrences(Append(held, x), t)
               = Occurrences(held, t) + (IF x = t THEN 1 ELSE 0)
<1> DEFINE I == {i \in DOMAIN held : held[i] = t}
           J == {i \in DOMAIN Append(held, x) : Append(held, x)[i] = t}
           n == Len(held)
<1>1. n \in Nat /\ DOMAIN held = 1 .. n /\ DOMAIN Append(held, x) = 1 .. n + 1
  BY LenProperties, AppendProperties
<1>2. /\ \A i \in 1 .. n : Append(held, x)[i] = held[i]
      /\ Append(held, x)[n + 1] = x
  BY <1>1, AppendProperties
<1>3. IsFiniteSet(I) /\ n + 1 \notin I
  <2>1. IsFiniteSet(1 .. n)
    BY <1>1, FS_Interval
  <2>2. QED
    BY <1>1, <2>1, FS_Subset
<1>4. J = IF x = t THEN I \cup {n + 1} ELSE I
  BY <1>1, <1>2
<1>5. Cardinality(I \cup {n + 1}) = Cardinality(I) + 1
  BY <1>3, FS_AddElement
<1>6. Cardinality(I) \in Nat
  BY <1>3, FS_CardinalityType
<1>7. Occurrences(held, t) = Cardinality(I)
  BY DEF Occurrences
<1>8. Occurrences(Append(held, x), t) = Cardinality(J)
  BY DEF Occurrences
<1> HIDE DEF I, J
<1>9. QED
  BY <1>4, <1>5, <1>6, <1>7, <1>8

\* The sessions s are the sessions r and one of u.
Enters(s, r, u) ==
    /\ IsFiniteSet(DOMAIN r) /\ u \notin DOMAIN r
    /\ DOMAIN s = DOMAIN r \cup {u}
    /\ s[u].mounts \in Seq(Targets)
    /\ \A v \in DOMAIN r : r[v].mounts \in Seq(Targets) /\ s[v].mounts = r[v].mounts

\* The guards of a session are there once: entering or removing the session of u
\* changes the number of guards by the ones u holds (session.rs:271, 311).
LEMMA GuardSetSplit ==
    ASSUME NEW s, NEW r, NEW u, NEW t, Enters(s, r, u)
    PROVE  /\ Cardinality(GuardSet(r, t)) \in Nat
           /\ Cardinality(GuardSet(s, t))
                  = Cardinality(GuardSet(r, t)) + Occurrences(s[u].mounts, t)
<1> DEFINE Own(f, v) == {i \in DOMAIN f[v].mounts : f[v].mounts[i] = t}
           G(v) == {v} \X Own(r, v)
           N == {u} \X Own(s, u)
<1> USE DEF Enters
<1>1. ASSUME NEW v \in DOMAIN r PROVE IsFiniteSet(G(v))
  <2>1. Own(r, v) \subseteq 1 .. Len(r[v].mounts) /\ Len(r[v].mounts) \in Nat
    BY LenProperties
  <2>2. IsFiniteSet(Own(r, v))
    BY <2>1, FS_Interval, FS_Subset
  <2>3. IsFiniteSet({v})
    BY FS_Singleton
  <2>4. QED
    BY <2>2, <2>3, FS_Product
<1>2. IsFiniteSet(GuardSet(r, t)) /\ Cardinality(GuardSet(r, t)) \in Nat
  <2> DEFINE f == [v \in DOMAIN r |-> G(v)]
  <2>1. f \in Surjection(DOMAIN r, {G(v) : v \in DOMAIN r})
    BY DEF Surjection
  <2>2. IsFiniteSet({G(v) : v \in DOMAIN r})
    BY <2>1, FS_Surjection
  <2>3. IsFiniteSet(UNION {G(v) : v \in DOMAIN r})
    BY <1>1, <2>2, FS_UNION
  <2>4. QED
    BY <2>3, FS_CardinalityType DEF GuardSet
<1>3. IsFiniteSet(N) /\ Cardinality(N) = Occurrences(s[u].mounts, t)
  <2>1. Own(s, u) \subseteq 1 .. Len(s[u].mounts) /\ Len(s[u].mounts) \in Nat
    BY LenProperties
  <2>2. IsFiniteSet(Own(s, u))
    BY <2>1, FS_Interval, FS_Subset
  <2>3. Cardinality(Own(s, u)) \in Nat
    BY <2>2, FS_CardinalityType
  <2>4. IsFiniteSet({u}) /\ Cardinality({u}) = 1
    BY FS_Singleton
  <2>5. IsFiniteSet(N) /\ Cardinality(N) = 1 * Cardinality(Own(s, u))
    BY <2>2, <2>4, FS_Product
  <2>6. QED
    BY <2>3, <2>5 DEF Occurrences
<1>4. GuardSet(s, t) = GuardSet(r, t) \cup N
  <2>1. \A v \in DOMAIN r : Own(s, v) = Own(r, v)
    OBVIOUS
  <2>2. GuardSet(s, t) = UNION {{v} \X Own(s, v) : v \in DOMAIN r \cup {u}}
    BY DEF GuardSet
  <2>3. GuardSet(r, t) = UNION {{v} \X Own(s, v) : v \in DOMAIN r}
    BY <2>1 DEF GuardSet
  <2> HIDE DEF Own
  <2>4. QED
    BY <2>2, <2>3
<1>5. GuardSet(r, t) \cap N = {}
  BY DEF GuardSet
<1>6. Cardinality(GuardSet(r, t) \cap N) = 0
  BY <1>5, FS_EmptySet
<1>7. Occurrences(s[u].mounts, t) \in Nat
  BY OccurrencesType
<1> HIDE DEF N
<1>8. Cardinality(GuardSet(r, t) \cup N)
          = Cardinality(GuardSet(r, t)) + Cardinality(N)
                - Cardinality(GuardSet(r, t) \cap N)
  BY <1>2, <1>3, FS_Union
<1>9. QED
  BY <1>2, <1>3, <1>4, <1>6, <1>7, <1>8

\* Counting opens and closes leaves the guards alone.
LEMMA GuardSetSame ==
    ASSUME NEW s, NEW r, NEW t, DOMAIN s = DOMAIN r,
           \A v \in DOMAIN r : s[v].mounts = r[v].mounts
    PROVE  GuardSet(s, t) = GuardSet(r, t)
  BY DEF GuardSet

-----------------------------------------------------------------------------
(* The mount table.                                                        *)

\* n mounts left by a process that is gone, and above them k of this one.
Stacked(stack, n, k) ==
    /\ Len(stack) = n + k
    /\ \A i \in 1 .. Len(stack) : stack[i] = Leftover <=> i <= n

\* At every target, above what an earlier process has left, there are exactly as
\* many mounts as there are guards and failed unmounts, so that a guard never
\* unmounts what was there before the service.
TableInv ==
    \A t \in Targets : \E n \in 0 .. Len(mtab[t]) :
        Stacked(mtab[t], n, Cardinality(Guards(t)) + Occurrences(handler.mounted, t)
                                + stuck[t])

\* A mount goes on top (pam/mount.rs:108).
LEMMA StackPush ==
    ASSUME NEW s \in Seq(Users \cup {Leftover}), NEW u \in Users,
           NEW n \in Nat, NEW k \in Nat, Stacked(s, n, k)
    PROVE  Stacked(Append(s, u), n, k + 1)
<1>1. /\ Len(s) \in Nat /\ Len(Append(s, u)) = Len(s) + 1
      /\ \A i \in 1 .. Len(s) : Append(s, u)[i] = s[i]
      /\ Append(s, u)[Len(s) + 1] = u
  BY LenProperties, AppendProperties
<1>2. u # Leftover
  BY SessionsAssumption
<1>3. QED
  BY <1>1, <1>2 DEF Stacked

\* Dropping guards (pam/mount.rs:140) takes that many off the top.
LEMMA StackPop ==
    ASSUME NEW s \in Seq(Users \cup {Leftover}), NEW n \in Nat, NEW k \in Nat,
           NEW j \in 0 .. k, Stacked(s, n, k)
    PROVE  Stacked(SubSeq(s, 1, Len(s) - j), n, k - j)
<1> DEFINE m == Len(s) - j
<1>1. Len(s) \in Nat /\ m = n + (k - j) /\ m \in Nat /\ m <= Len(s)
  BY LenProperties DEF Stacked
<1>2. \A i \in 1 .. m : s[i] \in Users \cup {Leftover}
  BY <1>1, ElementOfSeq
<1>3. /\ Len(SubSeq(s, 1, m)) = m
      /\ \A i \in 1 .. m : SubSeq(s, 1, m)[i] = s[i]
  BY <1>1, <1>2, SubSeqProperties
<1>4. QED
  BY <1>1, <1>3 DEF Stacked

\* The mounts of this process are counted by k.
LEMMA StackOwn ==
    ASSUME NEW s \in Seq(Users \cup {Leftover}), NEW n \in Nat, NEW k \in Nat,
           Stacked(s, n, k)
    PROVE  Cardinality({i \in DOMAIN s : s[i] # Leftover}) = k
<1>1. DOMAIN s = 1 .. n + k
  BY LenProperties DEF Stacked
<1>2. {i \in DOMAIN s : s[i] # Leftover} = n + 1 .. n + k
  BY <1>1 DEF Stacked
<1>3. Cardinality(n + 1 .. n + k) = k
  BY FS_Interval
<1>4. QED
  BY <1>2, <1>3

\* The steps that touch the mount table or the guards.
LEMMA TableSteps ==
    ASSUME TypeOK, HandlerInv, [Next]_vars
    PROVE  \/ /\ UNCHANGED kernel /\ handler'.mounted = handler.mounted
              /\ \/ UNCHANGED sessions
                 \/ \E c \in Clients : OpenAgain(c) \/ CloseOne(c)
           \/ \E c \in Clients : CloseLast(c)
           \/ MountNext \/ MountLast \/ MountFails
           \/ \E table : Stop(table) /\ \A t \in Targets :
                            \E n \in Nat : DOMAIN table[t] = 1 .. n
<1> DEFINE Quiet == /\ UNCHANGED kernel /\ handler'.mounted = handler.mounted
                    /\ \/ UNCHANGED sessions
                       \/ \E c \in Clients : OpenAgain(c) \/ CloseOne(c)
<1>1. ASSUME NEW c \in Clients, ClientStep(c) \/ CallLost(c) PROVE Quiet
  BY <1>1
     DEF ClientStep, CallInitiate, CallOpen, CallClose, CallEnabled, Call,
         CallLost, object
<1>2. ASSUME NEW c \in Clients, Handle(c), ~ CloseLast(c) PROVE Quiet
  <2>1. CASE InitiateSession(c) \/ OpenFirst(c)
    <3>1. handler.mounted = <<>> /\ handler'.mounted = <<>>
      BY <2>1 DEF InitiateSession, OpenFirst, Dispatch, HandlerInv, IdleHandler
    <3>2. QED
      BY <2>1, <3>1 DEF InitiateSession, OpenFirst
  <2>2. CASE ~ (InitiateSession(c) \/ OpenFirst(c))
    BY <1>2, <2>2
       DEF Handle, OpenUnknownUser, OpenAgain, CloseNone, CloseOne,
           IsUserPolyauthEnabled
  <2>3. QED
    BY <2>1, <2>2
<1>3. ASSUME Resume, ~ (MountNext \/ MountLast \/ MountFails) PROVE Quiet
  <2>1. ASSUME NEW r, Return(r), handler.step # "open_mount"
        PROVE  handler'.mounted = handler.mounted
    BY <2>1 DEF Return, IdleHandler, HandlerInv
  <2>2. ASSUME NEW t \in Tokens \ issued, InitiateToken(t) PROVE Quiet
    BY <2>1, <2>2 DEF InitiateToken
  <2>3. CASE InitiateEmpty \/ OpenNoKey \/ OpenBadOtp \/ OpenBadConfig \/ OpenRefused
    BY <2>1, <2>3
       DEF InitiateEmpty, OpenNoKey, OpenBadOtp, OpenBadConfig, OpenRefused
  <2>4. CASE OpenNoMounts \/ OpenLoad \/ OpenAuthorized
    BY <2>4 DEF OpenNoMounts, OpenLoad, OpenAuthorized, TypeOK, Handler
  <2>5. CASE FetchPanic
    BY <2>5 DEF FetchPanic, IdleHandler, HandlerInv
  <2>6. QED
    BY <1>3, <2>2, <2>3, <2>4, <2>5 DEF Resume
<1>4. ASSUME Surroundings
      PROVE  Quiet \/ \E table : Stop(table) /\ \A t \in Targets :
                                     \E n \in Nat : DOMAIN table[t] = 1 .. n
  <2>1. CASE Crash
    <3>1. \A t \in Targets : \E n \in Nat : DOMAIN mtab[t] = 1 .. n
      BY LenProperties DEF TypeOK
    <3>2. QED
      BY <2>1, <3>1 DEF Crash
  <2>2. CASE Sigterm
    <3> DEFINE m(t) == Len(mtab[t]) - Cardinality(Guards(t) \ HiddenGuards(t))
               table == [t \in Targets |-> SubSeq(mtab[t], 1, m(t))]
    <3>1. ASSUME NEW t \in Targets PROVE \E n \in Nat : DOMAIN table[t] = 1 .. n
      <4>1. mtab[t] \in Seq(Users \cup {Leftover})
        BY DEF TypeOK
      <4>2. Cardinality(Guards(t) \ HiddenGuards(t)) \in Nat
        BY GuardsFinite, FS_Subset, FS_CardinalityType
      <4>3. m(t) \in Int /\ m(t) <= Len(mtab[t])
        BY <4>1, <4>2, LenProperties
      <4>4. table[t] = SubSeq(mtab[t], 1, m(t))
        OBVIOUS
      <4> HIDE DEF m, table
      <4>5. \A i \in 1 .. m(t) : mtab[t][i] \in Users \cup {Leftover}
        BY <4>1, <4>3, ElementOfSeq
      <4>6. SubSeq(mtab[t], 1, m(t)) \in Seq(Users \cup {Leftover})
        BY <4>3, <4>5, SubSeqProperties
      <4>7. QED
        BY <4>4, <4>6, LenProperties
    <3>2. Stop(table)
      BY <2>2 DEF Sigterm
    <3> HIDE DEF table
    <3>3. QED
      BY <3>1, <3>2
  <2>3. CASE ~ (Crash \/ Sigterm)
    BY <1>4, <2>3
       DEF Surroundings, KeyTaskEnds, ChangeConfig, Authorize, Start, object
  <2>4. QED
    BY <2>1, <2>2, <2>3
<1>5. CASE UNCHANGED vars
  BY <1>5 DEF vars, kernel
<1> HIDE DEF Quiet
<1>6. QED
  BY <1>1, <1>2, <1>3, <1>4, <1>5 DEF Next, Quiet

\* TableInv is inductive: a failed mount_all and the last close unmount exactly
\* what was mounted (pam/mount.rs:167, session.rs:311).
LEMMA TableStep ==
    ASSUME TypeOK, HandlerInv, TableInv, [Next]_vars
    PROVE  TableInv'
<1>1. SUFFICES ASSUME NEW t \in Targets
               PROVE  \E n \in 0 .. Len(mtab'[t]) :
                         Stacked(mtab'[t], n, Cardinality(GuardSet(sessions', t))
                                                + Occurrences(handler'.mounted, t) + stuck'[t])
  BY DEF TableInv, Stacked, Guards, GuardSet, Occurrences
<1> DEFINE g == Cardinality(GuardSet(sessions, t))
           h == Occurrences(handler.mounted, t)
           z == stuck[t]
           stack == mtab[t]
<1>2. PICK n \in 0 .. Len(stack) : Stacked(stack, n, g + h + z)
  BY DEF TableInv, Guards, GuardSet
<1>3. stack \in Seq(Users \cup {Leftover}) /\ Len(stack) \in Nat
  BY LenProperties DEF TypeOK
<1>4. g \in Nat /\ h \in Nat /\ z \in Nat
  <2>1. g \in Nat
    BY GuardsFinite DEF Guards, GuardSet
  <2>2. QED
    BY <2>1, OccurrencesType DEF TypeOK, Handler
<1>5. \A v \in DOMAIN sessions : sessions[v].mounts \in Seq(Targets)
  BY DEF TypeOK, UserSession
<1>6. IsFiniteSet(DOMAIN sessions)
  BY SessionsAssumption, FS_Subset DEF TypeOK
<1>7. ASSUME NEW r, NEW k \in Nat, Stacked(r, n, k)
      PROVE  \E i \in 0 .. Len(r) : Stacked(r, i, k)
  BY <1>7 DEF Stacked
<1> HIDE DEF g, h, z, stack
<1>8. ASSUME UNCHANGED kernel, handler'.mounted = handler.mounted,
             UNCHANGED sessions \/ \E c \in Clients : OpenAgain(c) \/ CloseOne(c)
      PROVE  \E i \in 0 .. Len(mtab'[t]) :
                Stacked(mtab'[t], i, Cardinality(GuardSet(sessions', t))
                                       + Occurrences(handler'.mounted, t) + stuck'[t])
  <2>1. GuardSet(sessions', t) = GuardSet(sessions, t)
    BY <1>8, CountingKeepsMounts, GuardSetSame
  <2>2. QED
    BY <1>2, <1>4, <1>7, <1>8, <2>1 DEF g, h, z, stack, kernel
<1>9. ASSUME NEW c \in Clients, CloseLast(c)
      PROVE  \E i \in 0 .. Len(mtab'[t]) :
                Stacked(mtab'[t], i, Cardinality(GuardSet(sessions', t))
                                       + Occurrences(handler'.mounted, t) + stuck'[t])
  <2> DEFINE u == calls[c].user
             o == Occurrences(sessions[u].mounts, t)
             x == HiddenAt(sessions[u].mounts, t)
  <2>1. /\ u \in DOMAIN sessions
        /\ sessions' = [v \in DOMAIN sessions \ {u} |-> sessions[v]]
        /\ mtab'[t] = SubSeq(stack, 1, Len(stack) - (o - x))
        /\ stuck'[t] = z + x
        /\ handler' = handler
    BY <1>9 DEF CloseLast, DropGuards, Unmount, stack, z
  <2>2. IsFiniteSet(DOMAIN sessions')
    BY <1>6, <2>1, FS_Subset
  <2>3. /\ Cardinality(GuardSet(sessions', t)) \in Nat
        /\ g = Cardinality(GuardSet(sessions', t)) + o
    <3> DEFINE r == [v \in DOMAIN sessions \ {u} |-> sessions[v]]
    <3>1. /\ DOMAIN r = DOMAIN sessions \ {u}
          /\ \A v \in DOMAIN r : r[v] = sessions[v]
          /\ r = sessions'
      BY <2>1
    <3> HIDE DEF r
    <3>2. Enters(sessions, r, u)
      BY <1>5, <2>1, <2>2, <3>1 DEF Enters
    <3>3. /\ Cardinality(GuardSet(r, t)) \in Nat
          /\ Cardinality(GuardSet(sessions, t)) = Cardinality(GuardSet(r, t)) + o
      BY <3>2, GuardSetSplit
    <3>4. QED
      BY <3>1, <3>3 DEF g
  <2>4. o \in Nat /\ x \in Nat /\ x <= o
    BY <1>5, <2>1, OccurrencesType, HiddenType
  <2> HIDE DEF o, x
  <2>5. o - x \in 0 .. g + h + z
    BY <1>4, <2>3, <2>4
  <2>6. Stacked(SubSeq(stack, 1, Len(stack) - (o - x)), n, (g + h + z) - (o - x))
    <3> DEFINE k == g + h + z
               j == o - x
    <3>1. k \in Nat /\ j \in 0 .. k /\ n \in Nat /\ Stacked(stack, n, k)
      BY <1>2, <1>3, <1>4, <2>5
    <3> HIDE DEF k, j
    <3>2. Stacked(SubSeq(stack, 1, Len(stack) - j), n, k - j)
      BY <1>3, <3>1, StackPop
    <3>3. QED
      BY <3>2 DEF k, j
  <2>7. (g + h + z) - (o - x) = Cardinality(GuardSet(sessions', t)) + h + (z + x)
        /\ (g + h + z) - (o - x) \in Nat
    BY <1>4, <2>3, <2>4
  <2>8. QED
    BY <1>7, <2>1, <2>6, <2>7 DEF h
<1>10. ASSUME MountOne
       PROVE  /\ Stacked(mtab'[t], n, g + Occurrences(Mounted, t) + z)
              /\ Occurrences(Mounted, t) \in Nat
              /\ stuck'[t] = z
  <2> DEFINE x == Plan[Len(handler.mounted) + 1]
  <2>1. /\ handler.step = "open_mount" /\ mtab' = [mtab EXCEPT ![x] = Append(@, User)]
        /\ stuck'[t] = z
    BY <1>10 DEF MountOne, z
  <2>2. User \in Users /\ x \in Targets /\ handler.mounted \in Seq(Targets)
    BY <2>1, MountingFacts DEF TypeOK, Handler
  <2>3. Occurrences(Mounted, t) = h + (IF x = t THEN 1 ELSE 0)
    BY <2>2, OccurrencesAppend DEF Mounted, h
  <2>4. CASE x = t
    <3>1. mtab'[t] = Append(stack, User)
      BY <2>1, <2>2, <2>4 DEF TypeOK, stack
    <3>2. Stacked(Append(stack, User), n, (g + h + z) + 1)
      <4>1. g + h + z \in Nat
        BY <1>4
      <4>2. QED
        BY <1>2, <1>3, <2>2, <4>1, StackPush
    <3>3. (g + h + z) + 1 = g + Occurrences(Mounted, t) + z
      BY <1>4, <2>3, <2>4
    <3>4. QED
      <4>1. Stacked(mtab'[t], n, g + Occurrences(Mounted, t) + z)
        BY <3>1, <3>2, <3>3
      <4>2. Occurrences(Mounted, t) \in Nat
        BY <1>4, <2>3, <2>4
      <4>3. QED
        BY <2>1, <4>1, <4>2
  <2>5. CASE x # t
    <3>1. mtab'[t] = stack
      BY <2>1, <2>2, <2>5 DEF TypeOK, stack
    <3>2. Occurrences(Mounted, t) = h
      BY <1>4, <2>3, <2>5
    <3>3. QED
      BY <1>2, <1>4, <2>1, <3>1, <3>2
  <2>6. QED
    BY <2>4, <2>5
<1>11. CASE MountNext
  <2>1. /\ sessions' = sessions /\ handler'.mounted = Mounted /\ MountOne
    BY <1>11 DEF MountNext, TypeOK, Handler
  <2>2. QED
    BY <1>4, <1>7, <1>10, <2>1 DEF g
<1>12. CASE MountLast
  <2>1. /\ MountOne /\ handler'.mounted = <<>>
        /\ sessions' = [v \in DOMAIN sessions \cup {User} |->
                           IF v \in DOMAIN sessions THEN sessions[v]
                           ELSE [mounts |-> Mounted, count |-> 1,
                                 loaded |-> handler.loaded]]
    BY <1>12 DEF MountLast, Return, IdleHandler
  <2>2. User \notin DOMAIN sessions /\ Mounted \in Seq(Targets)
    BY <2>1, MountingFacts DEF MountOne, HandlerInv
  <2>3. Cardinality(GuardSet(sessions', t)) = g + Occurrences(Mounted, t)
    <3>1. /\ DOMAIN sessions' = DOMAIN sessions \cup {User}
          /\ sessions'[User].mounts = Mounted
          /\ \A v \in DOMAIN sessions : sessions'[v].mounts = sessions[v].mounts
      BY <2>1, <2>2
    <3>2. Enters(sessions', sessions, User)
      BY <1>5, <1>6, <2>2, <3>1 DEF Enters
    <3>3. Cardinality(GuardSet(sessions', t))
              = Cardinality(GuardSet(sessions, t)) + Occurrences(sessions'[User].mounts, t)
      BY <3>2, GuardSetSplit
    <3>4. QED
      BY <3>1, <3>3 DEF g
  <2>4. Occurrences(handler'.mounted, t) = 0
    BY <2>1, OccurrencesEmpty
  <2>5. /\ Stacked(mtab'[t], n, g + Occurrences(Mounted, t) + z)
        /\ Occurrences(Mounted, t) \in Nat /\ stuck'[t] = z
    BY <1>10, <2>1
  <2>6. g + Occurrences(Mounted, t) + z
            = Cardinality(GuardSet(sessions', t)) + Occurrences(handler'.mounted, t)
                  + stuck'[t]
    BY <1>4, <2>3, <2>4, <2>5
  <2>7. g + Occurrences(Mounted, t) + z \in Nat
    BY <1>4, <2>5
  <2>8. \E i \in 0 .. Len(mtab'[t]) :
           Stacked(mtab'[t], i, g + Occurrences(Mounted, t) + z)
    BY <1>7, <2>5, <2>7
  <2>9. QED
    BY <2>6, <2>8
<1>13. CASE MountFails
  <2> DEFINE x == HiddenAt(handler.mounted, t)
  <2>1. /\ sessions' = sessions /\ handler'.mounted = <<>>
        /\ mtab'[t] = SubSeq(stack, 1, Len(stack) - (h - x))
        /\ stuck'[t] = z + x
    BY <1>13 DEF MountFails, DropGuards, Return, IdleHandler, Unmount, stack, h, z
  <2>2. Occurrences(handler'.mounted, t) = 0
    BY <2>1, OccurrencesEmpty
  <2>3. x \in Nat /\ x <= h
    BY HiddenType DEF TypeOK, Handler, h
  <2> HIDE DEF x
  <2>4. g + h + z \in Nat /\ h - x \in 0 .. g + h + z /\ n \in Nat
    BY <1>3, <1>4, <2>3
  <2>5. Stacked(mtab'[t], n, (g + h + z) - (h - x))
    BY <1>2, <1>3, <2>1, <2>4, StackPop
  <2>6. /\ (g + h + z) - (h - x) = g + 0 + (z + x)
        /\ (g + h + z) - (h - x) \in Nat
    BY <1>4, <2>3
  <2>7. Cardinality(GuardSet(sessions', t)) = g
    BY <2>1 DEF g
  <2>8. QED
    BY <1>7, <2>1, <2>2, <2>5, <2>6, <2>7
<1>14. ASSUME NEW table, Stop(table),
              \A x \in Targets : \E k \in Nat : DOMAIN table[x] = 1 .. k
       PROVE  \E i \in 0 .. Len(mtab'[t]) :
                Stacked(mtab'[t], i, Cardinality(GuardSet(sessions', t))
                                       + Occurrences(handler'.mounted, t) + stuck'[t])
  <2>1. /\ mtab'[t] = [i \in DOMAIN table[t] |-> Leftover]
        /\ sessions' = NoSessions /\ handler'.mounted = <<>> /\ stuck'[t] = 0
    BY <1>14 DEF Stop, IdleHandler
  <2>2. Occurrences(handler'.mounted, t) = 0
    BY <2>1, OccurrencesEmpty
  <2>3. GuardSet(sessions', t) = {}
    BY <2>1 DEF GuardSet, NoSessions
  <2>4. Cardinality(GuardSet(sessions', t)) = 0
    BY <2>3, FS_EmptySet
  <2>5. PICK k \in Nat : DOMAIN table[t] = 1 .. k
    BY <1>14
  <2>6. Len(mtab'[t]) = k
    BY <2>1, <2>5
  <2>7. Stacked(mtab'[t], k, 0)
    BY <2>1, <2>5, <2>6 DEF Stacked
  <2>8. QED
    BY <2>1, <2>2, <2>4, <2>6, <2>7
<1>15. QED
  BY <1>8, <1>9, <1>11, <1>12, <1>13, <1>14, TableSteps

\* The whole of the invariant, in every behaviour of the service.
LEMMA TableInvariance == Spec => [](IInv /\ TableInv)
<1>1. Init => TableInv
  <2>1. SUFFICES ASSUME Init, NEW t \in Targets
                 PROVE  \E n \in 0 .. Len(mtab[t]) :
                           Stacked(mtab[t], n, Cardinality(GuardSet(sessions, t))
                                                 + Occurrences(handler.mounted, t)
                                                 + stuck[t])
    BY DEF TableInv, Guards, GuardSet
  <2>2. mtab[t] = <<>> /\ stuck[t] = 0 /\ GuardSet(sessions, t) = {} /\ handler.mounted = <<>>
    BY <2>1 DEF Init, GuardSet, NoSessions, IdleHandler
  <2>3. Cardinality(GuardSet(sessions, t)) = 0 /\ Occurrences(handler.mounted, t) = 0
    BY <2>2, FS_EmptySet, OccurrencesEmpty
  <2>4. QED
    BY <2>2, <2>3 DEF Stacked
<1>2. IInv /\ TableInv /\ [Next]_vars => TableInv'
  BY TableStep DEF IInv
<1>3. QED
  BY <1>1, <1>2, Invariance, PTL DEF Spec

\* pam/mount.rs:167, session.rs:311: however opens fail, closes follow one another
\* and users share directories, there are as many mounts of this process as there
\* are guards and unmounts that failed below a later mount; what an earlier process
\* left is never counted or taken away.
THEOREM MountsMatch == Spec => []MountsMatchGuards
<1>1. IInv /\ TableInv => MountsMatchGuards
  <2>1. SUFFICES ASSUME IInv, TableInv, NEW t \in Targets
                 PROVE  Cardinality({i \in DOMAIN mtab[t] : mtab[t][i] # Leftover})
                            = Cardinality(Guards(t)) + Occurrences(handler.mounted, t)
                                  + stuck[t]
    BY DEF MountsMatchGuards
  <2> DEFINE k == Cardinality(Guards(t)) + Occurrences(handler.mounted, t) + stuck[t]
  <2>2. k \in Nat
    BY <2>1, GuardsFinite, OccurrencesType DEF IInv, TypeOK, Handler
  <2>3. PICK n \in 0 .. Len(mtab[t]) : Stacked(mtab[t], n, k)
    BY <2>1 DEF TableInv
  <2>4. mtab[t] \in Seq(Users \cup {Leftover})
    BY <2>1 DEF IInv, TypeOK
  <2> HIDE DEF k
  <2>5. Cardinality({i \in DOMAIN mtab[t] : mtab[t][i] # Leftover}) = k
    BY <2>2, <2>3, <2>4, StackOwn
  <2>6. QED
    BY <2>5 DEF k
<1>2. QED
  BY <1>1, TableInvariance, PTL

-----------------------------------------------------------------------------
(* Whose mounts they are.                                                  *)

\* The directories a session of u may mount on: the two of the account and those
\* of the configurations authorized for u so far.
Dirs(u) ==
    {XdgPath[u], HomePath[u]}
        \cup UNION {DOMAIN m.mounts : m \in {k \in Configs :
                                       Hashes(k) \cap authorizations[u] # {}}}

\* The administrator has authorized no directory for two users.
OwnDirectories == \A u, v \in Users : u # v => Dirs(u) \cap Dirs(v) = {}

\* A mount of this process is on a directory of the user it was made for.
OwnerInv ==
    \A t \in Targets : \A i \in 1 .. Len(mtab[t]) :
        mtab[t][i] # Leftover => t \in Dirs(mtab[t][i])

\* mount_all (pam/mount.rs:182) mounts on directories of its user.
LEMMA PlanDirs ==
    ASSUME NEW u \in Users, NEW m \in Configs \cup {None}, NEW order,
           m # None => order \in Orders(m) /\ hash(m, order) \in authorizations[u],
           NEW i \in 1 .. Len(MountPlan(u, m, order))
    PROVE  MountPlan(u, m, order)[i] \in Dirs(u)
<1>1. CASE m = None
  BY <1>1 DEF MountPlan, Dirs
<1>2. CASE m # None
  <2>1. m \in Configs /\ order \in Seq(Targets)
    BY <1>2, OrdersAreSequences
  <2>2. \A j \in DOMAIN order : order[j] \in DOMAIN m.mounts
    BY <1>2 DEF Orders, Bijection, Injection
  <2>3. MountPlan(u, m, order) = <<XdgPath[u]>> \o order \o <<HomePath[u]>>
    BY <1>2 DEF MountPlan
  <2>4. DOMAIN order = 1 .. Len(order) /\ Len(order) \in Nat
    BY <2>1, LenProperties
  <2>5. /\ Len(MountPlan(u, m, order)) = Len(order) + 2
        /\ MountPlan(u, m, order)[1] = XdgPath[u]
        /\ MountPlan(u, m, order)[Len(order) + 2] = HomePath[u]
        /\ \A j \in 2 .. Len(order) + 1 : MountPlan(u, m, order)[j] = order[j - 1]
    BY <2>1, <2>3, <2>4, SessionsAssumption
  <2>6. CASE i \in 2 .. Len(order) + 1
    <3>1. i - 1 \in DOMAIN order
      BY <2>4, <2>6
    <3>2. Hashes(m) \cap authorizations[u] # {}
      BY <1>2 DEF Hashes
    <3>3. QED
      BY <2>1, <2>2, <2>5, <2>6, <3>1, <3>2 DEF Dirs
  <2>7. i \in 2 .. Len(order) + 1 \/ i = 1 \/ i = Len(order) + 2
    BY <2>4, <2>5
  <2>8. QED
    BY <2>5, <2>6, <2>7 DEF Dirs
<1>3. QED
  BY <1>1, <1>2

\* No authorization is withdrawn (MountAuth has no such method).
LEMMA DirsGrow ==
    ASSUME TypeOK, [Next]_vars, NEW u \in Users
    PROVE  Dirs(u) \subseteq Dirs(u)'
<1>1. authorizations[u] \subseteq authorizations'[u]
  BY AuthorizationsGrow
<1>2. QED
  BY <1>1 DEF Dirs

\* Where an entry of the mount table comes from: it was there before, it is the
\* mount made just now, or the process has ended and left it.
LEMMA TableEntries ==
    ASSUME TypeOK, HandlerInv, [Next]_vars,
           NEW t \in Targets, NEW i \in 1 .. Len(mtab'[t])
    PROVE  \/ \E j \in 1 .. Len(mtab[t]) : mtab'[t][i] = mtab[t][j]
           \/ /\ MountOne /\ t = Plan[Len(handler.mounted) + 1]
              /\ mtab'[t][i] = User
           \/ /\ \E table : Stop(table)
              /\ mtab'[t][i] = Leftover
<1> DEFINE Old == \E j \in 1 .. Len(mtab[t]) : mtab'[t][i] = mtab[t][j]
           x == Plan[Len(handler.mounted) + 1]
<1>1. mtab[t] \in Seq(Users \cup {Leftover}) /\ Len(mtab[t]) \in Nat
  BY LenProperties DEF TypeOK
<1>2. ASSUME NEW held \in Seq(Targets), mtab' = Unmount(mtab, held) PROVE Old
  <2> DEFINE m == Len(mtab[t]) - (Occurrences(held, t) - HiddenAt(held, t))
  <2>1. mtab'[t] = SubSeq(mtab[t], 1, m)
    BY <1>2 DEF Unmount
  <2>2. m \in Int /\ m <= Len(mtab[t])
    BY <1>1, OccurrencesType, HiddenType
  <2>3. \A j \in 1 .. m : mtab[t][j] \in Users \cup {Leftover}
    BY <1>1, <2>2, ElementOfSeq
  <2>4. /\ Len(SubSeq(mtab[t], 1, m)) = (IF 1 <= m THEN m ELSE 0)
        /\ \A j \in 1 .. m : SubSeq(mtab[t], 1, m)[j] = mtab[t][j]
    BY <2>2, <2>3, SubSeqProperties
  <2>5. i \in 1 .. m /\ i \in 1 .. Len(mtab[t]) /\ mtab'[t][i] = mtab[t][i]
    BY <1>1, <2>1, <2>2, <2>4
  <2>6. QED
    BY <2>5
<1>3. ASSUME NEW c \in Clients, CloseLast(c) PROVE Old
  BY <1>2, <1>3 DEF CloseLast, DropGuards, TypeOK, UserSession
<1>4. CASE MountFails
  BY <1>2, <1>4 DEF MountFails, DropGuards, TypeOK, Handler
<1>5. ASSUME MountOne PROVE Old \/ (t = x /\ mtab'[t][i] = User)
  <2>1. /\ mtab' = [mtab EXCEPT ![x] = Append(@, User)]
        /\ User \in Users /\ x \in Targets
    BY <1>5, MountingFacts DEF MountOne
  <2>2. CASE x # t
    <3>1. mtab'[t] = mtab[t]
      BY <2>1, <2>2 DEF TypeOK
    <3>2. QED
      BY <3>1
  <2>3. CASE x = t
    <3>1. mtab'[t] = Append(mtab[t], User)
      BY <2>1, <2>3 DEF TypeOK
    <3>2. /\ Len(mtab'[t]) = Len(mtab[t]) + 1
          /\ mtab'[t][Len(mtab[t]) + 1] = User
          /\ \A j \in 1 .. Len(mtab[t]) : mtab'[t][j] = mtab[t][j]
      BY <1>1, <2>1, <3>1, AppendProperties
    <3>3. i = Len(mtab[t]) + 1 \/ i \in 1 .. Len(mtab[t])
      BY <1>1, <3>2
    <3>4. QED
      BY <2>3, <3>2, <3>3
  <2>4. QED
    BY <2>2, <2>3
<1>6. ASSUME NEW table, Stop(table),
             \A y \in Targets : \E k \in Nat : DOMAIN table[y] = 1 .. k
      PROVE  mtab'[t][i] = Leftover
  <2>1. PICK k \in Nat : DOMAIN table[t] = 1 .. k
    BY <1>6
  <2>2. mtab'[t] = [j \in 1 .. k |-> Leftover]
    BY <1>6, <2>1 DEF Stop
  <2>3. QED
    BY <2>2
<1>7. CASE mtab' = mtab
  BY <1>7
<1>8. QED
  BY <1>3, <1>4, <1>5, <1>6, <1>7, TableSteps DEF MountNext, MountLast, kernel

\* OwnerInv is inductive.
LEMMA OwnerStep ==
    ASSUME TypeOK, HandlerInv, OwnerInv, [Next]_vars
    PROVE  OwnerInv'
<1>1. SUFFICES ASSUME NEW t \in Targets, NEW i \in 1 .. Len(mtab'[t]),
                      NEW v, v = mtab'[t][i], v # Leftover
               PROVE  t \in Dirs(v)'
  BY DEF OwnerInv, Dirs
<1>2. ASSUME NEW j \in 1 .. Len(mtab[t]), v = mtab[t][j]
      PROVE  v \in Users /\ t \in Dirs(v)
  <2>1. mtab[t][j] \in Users \cup {Leftover}
    BY <1>2, ElementOfSeq DEF TypeOK
  <2>2. QED
    BY <1>1, <1>2, <2>1 DEF OwnerInv
<1>3. ASSUME MountOne, t = Plan[Len(handler.mounted) + 1], v = User
      PROVE  v \in Users /\ t \in Dirs(v)
  <2>1. handler.step = "open_mount"
    BY <1>3 DEF MountOne
  <2>2. /\ User \in Users /\ Plan \in Seq(Targets)
        /\ Len(handler.mounted) + 1 \in 1 .. Len(Plan)
    BY <2>1, MountingFacts, LenProperties
  <2>3. /\ handler.loaded \in Configs \cup {None}
        /\ handler.loaded # None =>
              /\ handler.order \in Orders(handler.loaded)
              /\ hash(handler.loaded, handler.order) \in authorizations[User]
    BY <2>1 DEF HandlerInv, TypeOK, Handler, Digest
  <2>4. QED
    BY <1>3, <2>2, <2>3, PlanDirs DEF Plan
<1>4. v \in Users /\ t \in Dirs(v)
  BY <1>1, <1>2, <1>3, TableEntries
<1>5. QED
  BY <1>4, DirsGrow

\* The three invariants together.
LEMMA OwnerInvariance == Spec => [](IInv /\ TableInv /\ OwnerInv)
<1>1. Init => OwnerInv
  BY DEF Init, OwnerInv
<1>2. IInv /\ OwnerInv /\ [Next]_vars => OwnerInv'
  BY OwnerStep DEF IInv
<1>3. QED
  BY <1>1, <1>2, TableInvariance, PTL DEF Spec

\* A session holds guards for directories of its user.
LEMMA GuardedDirs ==
    ASSUME IInv, NEW u \in DOMAIN sessions, NEW j \in DOMAIN sessions[u].mounts
    PROVE  sessions[u].mounts[j] \in Dirs(u)
<1>1. /\ u \in Users /\ sessions[u].mounts \in Seq(Targets)
      /\ sessions[u].loaded \in Configs \cup {None}
  BY DEF IInv, TypeOK, UserSession
<1>2. PICK order : /\ sessions[u].loaded # None => order \in Orders(sessions[u].loaded)
                   /\ sessions[u].loaded # None =>
                         hash(sessions[u].loaded, order) \in authorizations[u]
                   /\ sessions[u].mounts = MountPlan(u, sessions[u].loaded, order)
  BY DEF IInv, AuthorizedMountsOnly, MountPlan
<1>3. j \in 1 .. Len(MountPlan(u, sessions[u].loaded, order))
  BY <1>1, <1>2, LenProperties
<1>4. QED
  BY <1>1, <1>2, <1>3, PlanDirs

\* A session has a mount of its user on each directory it holds a guard for.
LEMMA GuardedMount ==
    ASSUME OwnDirectories, IInv, TableInv, OwnerInv,
           NEW u \in DOMAIN sessions, NEW j \in DOMAIN sessions[u].mounts
    PROVE  u \in Range(mtab[sessions[u].mounts[j]])
<1> DEFINE t == sessions[u].mounts[j]
<1>1. u \in Users /\ sessions[u].mounts \in Seq(Targets) /\ t \in Targets
  <2>1. u \in Users /\ sessions[u].mounts \in Seq(Targets)
    BY DEF IInv, TypeOK, UserSession
  <2>2. QED
    BY <2>1, ElementOfSeq, LenProperties
<1>2. t \in Dirs(u)
  BY GuardedDirs
<1> HIDE DEF t
<1>3. <<u, j>> \in Guards(t)
  BY DEF Guards, t
<1>4. Cardinality(Guards(t)) \in Nat \ {0}
  <2>1. IsFiniteSet(Guards(t)) /\ Cardinality(Guards(t)) \in Nat /\ Guards(t) # {}
    BY <1>3, GuardsFinite DEF IInv
  <2>2. QED
    BY <2>1, FS_EmptySet
<1>5. Occurrences(handler.mounted, t) \in Nat /\ stuck[t] \in Nat
  BY <1>1, OccurrencesType DEF IInv, TypeOK, Handler
<1>6. PICK n \in 0 .. Len(mtab[t]) :
         Stacked(mtab[t], n, Cardinality(Guards(t)) + Occurrences(handler.mounted, t)
                                 + stuck[t])
  BY <1>1 DEF TableInv
<1> DEFINE top == Len(mtab[t])
<1>7. mtab[t] \in Seq(Users \cup {Leftover}) /\ top \in Nat /\ DOMAIN mtab[t] = 1 .. top
  BY <1>1, LenProperties DEF IInv, TypeOK
<1>8. top \in 1 .. top /\ top > n
  BY <1>4, <1>5, <1>6, <1>7 DEF Stacked
<1>9. mtab[t][top] # Leftover
  BY <1>6, <1>7, <1>8 DEF Stacked
<1>10. mtab[t][top] \in Users /\ t \in Dirs(mtab[t][top])
  BY <1>1, <1>7, <1>8, <1>9, ElementOfSeq DEF OwnerInv
<1>11. mtab[t][top] = u
  BY <1>1, <1>2, <1>10 DEF OwnDirectories
<1>12. QED
  BY <1>7, <1>8, <1>11 DEF Range, t

\* session.rs:311: as long as no directory has been authorized for two users, every
\* directory a session mounted stays mounted for its user until the session ends,
\* whatever other sessions, failed opens and earlier processes did.
THEOREM MountsPresent == Spec /\ []OwnDirectories => []SessionMountsPresent
<1>1. IInv /\ TableInv /\ OwnerInv /\ OwnDirectories => SessionMountsPresent
  BY GuardedMount DEF SessionMountsPresent, Range
<1>2. QED
  BY <1>1, OwnerInvariance, PTL

\* Where no directory lies below another one no guard is hidden, and no unmount has
\* failed.
NoneStuck == \A t \in Targets : stuck[t] = 0

LEMMA NoneStuckInvariance ==
    ASSUME Below = {}
    PROVE  Spec => []NoneStuck
<1>1. ASSUME NEW held, NEW t PROVE HiddenAt(held, t) = 0
  <2>1. Hidden(held) = {}
    BY DEF Hidden
  <2>2. {i \in Hidden(held) : held[i] = t} = {}
    BY <2>1
  <2>3. QED
    BY <2>2, FS_EmptySet DEF HiddenAt
<1>2. ASSUME NEW held, DropGuards(held), NoneStuck PROVE NoneStuck'
  BY <1>1, <1>2 DEF DropGuards, NoneStuck
<1>3. ASSUME IInv, NoneStuck, [Next]_vars PROVE NoneStuck'
  <2>1. CASE UNCHANGED kernel
    BY <1>3, <2>1 DEF kernel, NoneStuck
  <2>2. ASSUME NEW c \in Clients, CloseLast(c) PROVE NoneStuck'
    BY <1>2, <1>3, <2>2 DEF CloseLast
  <2>3. CASE MountFails
    BY <1>2, <1>3, <2>3 DEF MountFails
  <2>4. CASE MountNext \/ MountLast
    BY <1>3, <2>4 DEF MountNext, MountLast, MountOne, NoneStuck
  <2>5. ASSUME NEW table, Stop(table) PROVE NoneStuck'
    BY <2>5 DEF Stop, NoneStuck
  <2>6. QED
    BY <1>3, <2>1, <2>2, <2>3, <2>4, <2>5, TableSteps DEF IInv
<1>4. Init => NoneStuck
  BY DEF Init, NoneStuck
<1>5. QED
  BY <1>3, <1>4, Invariance, PTL DEF Spec

\* session.rs:311: where no directory lies below another one and none has been
\* authorized for two users, the end of a session leaves nothing mounted for its
\* user: no mount of an earlier session or of a failed open is left either.
THEOREM DiscardUnmounts ==
    ASSUME Below = {}
    PROVE  Spec /\ []OwnDirectories => DiscardingUnmountsAll
<1> DEFINE Gone == \A u \in DOMAIN sessions \ DOMAIN sessions' :
              service' = "Up" => \A t \in Targets : u \notin Range(mtab'[t])
           All == IInv /\ TableInv /\ OwnerInv /\ NoneStuck /\ OwnDirectories
<1>1. ASSUME All, All', [Next]_vars, NEW u \in DOMAIN sessions \ DOMAIN sessions',
             service' = "Up", NEW t \in Targets, u \in Range(mtab'[t])
      PROVE  FALSE
  <2>1. PICK c \in Clients : CloseLast(c)
    <3>1. ~ UNCHANGED sessions /\ ~ (sessions' = NoSessions /\ service' = "Down")
      BY <1>1
    <3>2. ASSUME NEW d \in Clients, OpenAgain(d) \/ CloseOne(d) PROVE FALSE
      BY <1>1, <3>2, CountingKeepsMounts DEF IInv
    <3>3. ~ MountLast
      BY <1>1 DEF MountLast
    <3>4. QED
      BY <1>1, <3>1, <3>2, <3>3, SessionSteps
  <2>2. handler'.mounted = <<>>
    BY <1>1, <2>1 DEF CloseLast, Dispatch, IInv, HandlerInv, IdleHandler
  <2>3. Occurrences(handler'.mounted, t) = 0 /\ stuck'[t] = 0
    BY <1>1, <2>2, OccurrencesEmpty DEF NoneStuck
  <2>4. mtab'[t] \in Seq(Users \cup {Leftover}) /\ u \in Users
    BY <1>1 DEF IInv, TypeOK
  <2>5. PICK i \in 1 .. Len(mtab'[t]) : mtab'[t][i] = u
    BY <1>1, <2>4, LenProperties DEF Range
  <2>6. u # Leftover
    BY <2>4, SessionsAssumption
  <2>7. t \in Dirs(u)'
    BY <1>1, <2>5, <2>6 DEF OwnerInv, Dirs
  <2>8. PICK n \in 0 .. Len(mtab'[t]) :
           Stacked(mtab'[t], n, Cardinality(GuardSet(sessions', t))
                                   + Occurrences(handler'.mounted, t) + stuck'[t])
    BY <1>1 DEF TableInv, Stacked, Guards, GuardSet, Occurrences
  <2>9. GuardSet(sessions', t) # {}
    <3>1. ASSUME GuardSet(sessions', t) = {} PROVE FALSE
      <4>1. Cardinality(GuardSet(sessions', t)) = 0
        BY <3>1, FS_EmptySet
      <4>2. Stacked(mtab'[t], n, 0)
        BY <2>3, <2>8, <4>1
      <4>3. QED
        BY <2>4, <2>5, <2>6, <4>2, LenProperties DEF Stacked
    <3>2. QED
      BY <3>1
  <2>10. PICK v \in DOMAIN sessions' :
            \E j \in DOMAIN sessions'[v].mounts : sessions'[v].mounts[j] = t
    BY <2>9 DEF GuardSet
  <2>11. v \in Users /\ v # u
    BY <1>1, <2>10 DEF IInv, TypeOK
  <2>12. t \in Dirs(v)'
    <3>1. t \in Dirs(v)
      <4>1. v \in DOMAIN sessions /\ sessions'[v] = sessions[v]
        BY <2>1, <2>10 DEF CloseLast
      <4>2. QED
        BY <1>1, <2>10, <4>1, GuardedDirs
    <3>2. QED
      BY <1>1, <2>11, <3>1, DirsGrow DEF IInv
  <2>13. QED
    BY <1>1, <2>4, <2>7, <2>11, <2>12 DEF OwnDirectories, Dirs
<1>2. All /\ All' /\ [Next]_vars => [Gone]_vars
  BY <1>1
<1>3. Spec /\ []OwnDirectories => []All
  BY OwnerInvariance, NoneStuckInvariance, PTL
<1> HIDE DEF All
<1>4. QED
  BY <1>2, <1>3, PTL DEF Spec, DiscardingUnmountsAll

-----------------------------------------------------------------------------
(* What callers are told.                                                  *)

\* An answer is given to the one call it is about.
LEMMA AnswerIsOwn ==
    ASSUME TypeOK, NEW c \in Clients, NEW d \in Clients, NEW r, Answer(d, r),
           Answers(c)
    PROVE  c = d /\ replies'[c] = r
  BY DEF TypeOK, Answer, Answers

\* The call that is answered is the one whose handler runs, or nobody is left to
\* answer it.
LEMMA AnswerSteps ==
    ASSUME TypeOK, HandlerInv, [Next]_vars, NEW c \in Clients, Answers(c)
    PROVE  \/ Handle(c)
           \/ CallLost(c)
           \/ Resume /\ handler.client = c /\ \E r : Return(r)
<1>1. ASSUME NEW d \in Clients, ClientStep(d) PROVE FALSE
  <2>1. PICK call \in Calls : Call(d, call)
    BY <1>1 DEF ClientStep, CallInitiate, CallOpen, CallClose, CallEnabled, Calls, TypeOK
  <2>2. QED
    BY <2>1, SessionsAssumption DEF Call, TypeOK, Answers
<1>2. ASSUME NEW d \in Clients, Handle(d) PROVE d = c
  <2>1. calls' = calls \/ \E r : Answer(d, r)
    BY <1>2
       DEF Handle, InitiateSession, OpenUnknownUser, OpenAgain, OpenFirst, CloseNone,
           CloseOne, CloseLast, IsUserPolyauthEnabled, clients
  <2>2. QED
    BY <2>1, AnswerIsOwn DEF Answers
<1>3. ASSUME NEW d \in Clients, CallLost(d) PROVE d = c
  BY <1>3, AnswerIsOwn DEF CallLost
<1>4. ASSUME Resume PROVE handler.client = c /\ \E r : Return(r)
  <2>1. CASE FetchPanic
    <3>1. [op |-> "panicked"] # NoCall
      BY SessionsAssumption DEF Calls
    <3>2. QED
      BY <2>1, <3>1 DEF FetchPanic, Answers, TypeOK
  <2>5. calls' = calls \/ (\E r : Return(r)) \/ FetchPanic
    BY <1>4
       DEF Resume, InitiateToken, InitiateEmpty, OpenNoKey,
           OpenBadOtp, OpenBadConfig, OpenNoMounts, OpenLoad, OpenAuthorized,
           OpenRefused, MountNext, MountLast, MountFails, clients
  <2>2. handler.step # "idle"
    BY <1>4
       DEF Resume, InitiateToken, InitiateEmpty, FetchPanic, OpenNoKey,
           OpenBadOtp, OpenBadConfig, OpenNoMounts, OpenLoad, OpenAuthorized,
           OpenRefused, MountNext, MountLast, MountFails, MountOne
  <2>3. handler.client \in Clients
    BY <2>2 DEF HandlerInv
  <2>4. QED
    BY <2>1, <2>3, <2>5, AnswerIsOwn DEF Answers, Return
<1>5. ASSUME Surroundings PROVE FALSE
  BY <1>5
     DEF Surroundings, KeyTaskEnds, ChangeConfig, Authorize, Crash, Sigterm, Stop,
         Start, clients, Answers
<1>6. CASE UNCHANGED vars
  BY <1>6 DEF vars, Answers
<1>7. QED
  BY <1>1, <1>2, <1>3, <1>4, <1>5, <1>6 DEF Next

\* What the handlers do to the counts (session.rs:194, 271, 309): an open adds one
\* to the count of its user, a close takes one away, and no other count changes.
LEMMA CountChanges ==
    ASSUME TypeOK, HandlerInv, SessionsCounted, NEW u
    PROVE  /\ Count(u) \in Nat
           /\ \A c \in Clients : OpenAgain(c) =>
                 Count(u)' = Count(u) + (IF calls[c].user = u THEN 1 ELSE 0)
           /\ MountLast => Count(u)' = Count(u) + (IF User = u THEN 1 ELSE 0)
           /\ \A c \in Clients : CloseOne(c) \/ CloseLast(c) =>
                 Count(u)' = Count(u) - (IF calls[c].user = u THEN 1 ELSE 0)
<1>1. ASSUME NEW v \in DOMAIN sessions
      PROVE  sessions[v] \in UserSession /\ sessions[v].count \in Nat \ {0}
  BY DEF TypeOK, UserSession, SessionsCounted
<1>2. Count(u) \in Nat
  BY <1>1 DEF Count
<1>3. ASSUME NEW v \in DOMAIN sessions, NEW n \in Int,
             sessions' = [sessions EXCEPT ![v] = [sessions[v] EXCEPT !.count = n]]
      PROVE  Count(u)' = IF u = v THEN n ELSE Count(u)
  <2>1. [sessions[v] EXCEPT !.count = n].count = n
    BY <1>1 DEF UserSession
  <2>2. QED
    BY <1>3, <2>1 DEF Count
<1>4. ASSUME NEW c \in Clients, OpenAgain(c)
      PROVE  Count(u)' = Count(u) + (IF calls[c].user = u THEN 1 ELSE 0)
  <2> DEFINE v == calls[c].user
             n == sessions[v].count + 1
  <2>1. /\ v \in DOMAIN sessions
        /\ sessions' = [sessions EXCEPT ![v] = [sessions[v] EXCEPT !.count = n]]
    BY <1>4 DEF OpenAgain
  <2>2. n \in Int
    BY <1>1, <2>1
  <2>3. Count(u)' = IF u = v THEN n ELSE Count(u)
    BY <1>3, <2>1, <2>2
  <2>4. QED
    BY <1>2, <2>1, <2>3 DEF Count
<1>5. ASSUME NEW c \in Clients, CloseOne(c)
      PROVE  Count(u)' = Count(u) - (IF calls[c].user = u THEN 1 ELSE 0)
  <2> DEFINE v == calls[c].user
             n == sessions[v].count - 1
  <2>1. /\ v \in DOMAIN sessions
        /\ sessions' = [sessions EXCEPT ![v] = [sessions[v] EXCEPT !.count = n]]
    BY <1>5 DEF CloseOne
  <2>2. n \in Int
    BY <1>1, <2>1
  <2>3. Count(u)' = IF u = v THEN n ELSE Count(u)
    BY <1>3, <2>1, <2>2
  <2>4. QED
    BY <1>2, <2>1, <2>3 DEF Count
<1>6. ASSUME NEW c \in Clients, CloseLast(c)
      PROVE  Count(u)' = Count(u) - (IF calls[c].user = u THEN 1 ELSE 0)
  <2> DEFINE v == calls[c].user
  <2>1. /\ v \in DOMAIN sessions /\ sessions[v].count - 1 = 0
        /\ sessions' = [w \in DOMAIN sessions \ {v} |-> sessions[w]]
    BY <1>6 DEF CloseLast
  <2>2. Count(u)' = IF u = v THEN 0 ELSE Count(u)
    BY <2>1 DEF Count
  <2>3. Count(v) = 1
    BY <1>1, <2>1 DEF Count
  <2>4. QED
    BY <1>2, <2>2, <2>3
<1>7. ASSUME MountLast
      PROVE  Count(u)' = Count(u) + (IF User = u THEN 1 ELSE 0)
  <2>1. sessions' = [w \in DOMAIN sessions \cup {User} |->
                       IF w \in DOMAIN sessions THEN sessions[w]
                       ELSE [mounts |-> Mounted, count |-> 1,
                             loaded |-> handler.loaded]]
    BY <1>7 DEF MountLast
  <2>2. User \notin DOMAIN sessions
    BY <1>7 DEF MountLast, MountOne, HandlerInv
  <2>3. Count(u)' = IF u = User THEN 1 ELSE Count(u)
    BY <2>1, <2>2 DEF Count
  <2>4. Count(User) = 0
    BY <2>2 DEF Count
  <2>5. QED
    BY <1>2, <2>3, <2>4
<1>8. QED
  BY <1>2, <1>4, <1>5, <1>6, <1>7

\* lib.rs:334: Ok from open_user_session means a session that counts the login,
\* anything else that the sessions are as before.
THEOREM OpensAnsweredTruly == Spec => OpenAnswersAreTrue
<1> DEFINE True(c, u) == \/ replies'[c] = "Ok" /\ Count(u)' = Count(u) + 1
                         \/ replies'[c] # "Ok" /\ sessions' = sessions
<1>1. ASSUME IInv, [Next]_vars, NEW c \in Clients, NEW u \in Users, Answers(c),
             calls[c].op = "open_user_session", calls[c].user = u
      PROVE  True(c, u)
  <2>1. TypeOK /\ HandlerInv /\ SessionsCounted
    BY <1>1 DEF IInv
  <2>2. ASSUME NEW r, Answer(c, r), r # "Ok", sessions' = sessions PROVE True(c, u)
    BY <1>1, <2>1, <2>2, AnswerIsOwn
  <2>3. CASE CallLost(c)
    BY <2>2, <2>3 DEF CallLost, object
  <2>4. CASE Handle(c)
    <3>1. CASE OpenAgain(c)
      <4>1. replies'[c] = "Ok"
        BY <1>1, <2>1, <3>1, AnswerIsOwn DEF OpenAgain
      <4>2. Count(u)' = Count(u) + 1
        BY <1>1, <2>1, <3>1, CountChanges
      <4>3. QED
        BY <4>1, <4>2
    <3>2. CASE InitiateSession(c) \/ OpenFirst(c)
      BY <1>1, <3>2 DEF InitiateSession, OpenFirst, clients, Answers
    <3>3. CASE OpenUnknownUser(c)
      BY <1>1, <3>3 DEF OpenUnknownUser
    <3>4. CASE CloseNone(c) \/ CloseOne(c) \/ CloseLast(c) \/ IsUserPolyauthEnabled(c)
      BY <1>1, <3>4
         DEF CloseNone, CloseOne, CloseLast, IsUserPolyauthEnabled, Dispatch, Pending
    <3>5. QED
      BY <2>4, <3>1, <3>2, <3>3, <3>4 DEF Handle
  <2>5. CASE Resume /\ handler.client = c
    <3>1. handler.step # "initiate_key"
      BY <1>1, <2>1, <2>5 DEF HandlerInv
    <3>2. CASE OpenNoKey \/ OpenBadOtp \/ OpenBadConfig \/ OpenRefused \/ MountFails
      BY <2>2, <2>5, <3>2
         DEF OpenNoKey, OpenBadOtp, OpenBadConfig, OpenRefused, MountFails, Return
    <3>3. CASE MountLast
      <4>1. replies'[c] = "Ok"
        BY <1>1, <2>1, <2>5, <3>3, AnswerIsOwn DEF MountLast, Return
      <4>2. Count(u)' = Count(u) + 1
        BY <1>1, <2>1, <2>5, <3>3, CountChanges DEF User
      <4>3. QED
        BY <4>1, <4>2
    <3>4. CASE OpenNoMounts \/ OpenLoad \/ OpenAuthorized \/ MountNext
      BY <1>1, <3>4
         DEF OpenNoMounts, OpenLoad, OpenAuthorized, MountNext, clients, Answers
    <3>5. CASE FetchPanic
      <4>1. [op |-> "panicked"] # NoCall
        BY SessionsAssumption DEF Calls
      <4>2. QED
        BY <1>1, <2>1, <3>5, <4>1 DEF FetchPanic, Answers, TypeOK
    <3>6. QED
      BY <2>5, <3>1, <3>2, <3>3, <3>4, <3>5 DEF Resume, InitiateToken, InitiateEmpty
  <2>6. QED
    BY <1>1, <2>1, <2>3, <2>4, <2>5, AnswerSteps
<1>2. IInv /\ [Next]_vars =>
         [\A c \in Clients, u \in Users :
             /\ Answers(c)
             /\ calls[c].op = "open_user_session"
             /\ calls[c].user = u
             => True(c, u)]_vars
  BY <1>1
<1>3. QED
  BY <1>2, Invariance, PTL DEF Spec, OpenAnswersAreTrue
============================================================================
