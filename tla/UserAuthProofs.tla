--------------------------- MODULE UserAuthProofs ---------------------------
(***************************************************************************)
(* Theorems about UserAuth, for every set of secrets and of salts and any  *)
(* number of methods. SecretsDiffer is assumed where the code is right     *)
(* only of secrets that bcrypt tells apart.                                *)
(***************************************************************************)
EXTENDS UserAuth, AuthDataProofs

(* The inductive invariant.                                                *)

\* Methods exist only beside a main password, and its ciphertext is the one of
\* the current main password under the current intermediate key.
DataInv ==
    /\ TypeOK
    /\ ~ has_main(data) => data.auth = <<>>
    /\ has_main(data) => Sealed(data.main)

\* Every operation on the data keeps it sealed.
LEMMA DataStep == DataInv /\ [Next]_vars => DataInv'
<1> SUFFICES ASSUME DataInv, [Next]_vars PROVE DataInv'
  OBVIOUS
<1>1. CASE UNCHANGED vars
  BY <1>1 DEF vars, DataInv, TypeOK, has_main, Sealed
<1>2. ASSUME NEW s \in Secrets, NEW ik \in Secrets, set_main(s, ik)
      PROVE  DataInv'
  <2>1. /\ data' \in UserAuthData /\ has_main(data') /\ Sealed(data'.main)
        /\ answer' = "Ok"
    BY <1>2, NewMainSealed DEF set_main, DataInv, TypeOK
  <2> QED
    BY <2>1 DEF DataInv, TypeOK, has_main, Sealed
<1>3. ASSUME NEW s \in Secrets, NEW ik \in Secrets, add_secondary_password(ik, s)
      PROVE  DataInv'
  <2>1. PICK salt \in Salts :
          data' = [data EXCEPT !.auth = Append(@, NewSecondary(ik, s, salt))]
    BY <1>3 DEF add_secondary_password, WithSecondary
  <2>2. NewSecondary(ik, s, salt) \in SecondaryPassword
    BY DEF NewSecondary, SecondaryPassword, BcryptHashes, Ciphertexts, bcrypt_hash, encrypt
  <2>3. data' \in UserAuthData /\ data'.main = data.main
    BY <2>1, <2>2 DEF DataInv, TypeOK, UserAuthData
  <2>4. has_main(data) /\ answer' = "Ok"
    BY <1>3 DEF add_secondary_password, MayAdd
  <2> QED
    BY <2>3, <2>4 DEF DataInv, TypeOK, has_main, Sealed
<1>4. ASSUME NEW s \in Secrets,
             set_main_refused(s) \/ add_refused(s) \/ check_main(s)
      PROVE  DataInv'
  BY <1>4 DEF set_main_refused, add_refused, check_main, DataInv, TypeOK, has_main, Sealed
<1>5. ASSUME NEW s \in Secrets, sm_authenticate(s)
      PROVE  DataInv'
  <2>1. data' = data
    BY <1>5 DEF sm_authenticate
  <2>2. \/ answer' \in {"USER_UNKNOWN", "AUTH_ERR"}
        \/ /\ has_main(data)
           /\ \E x \in {Empty, s} : main_by_auth(data, x) # None /\ answer' = main_by_auth(data, x)
    BY <1>5 DEF sm_authenticate
  <2>3. answer' \in Secrets \cup {"USER_UNKNOWN", "AUTH_ERR"}
    BY <2>2, MainByAuth, UserAuthAssumption DEF DataInv, TypeOK
  <2> QED
    BY <2>1, <2>3 DEF DataInv, TypeOK, has_main, Sealed
<1>6. CASE reset
  BY <1>6, AuthDataAssumption DEF reset, NewUserAuthData, DataInv, TypeOK, UserAuthData,
                              has_main
<1> QED
  BY <1>1, <1>2, <1>3, <1>4, <1>5, <1>6 DEF Next

\* The data is sealed throughout.
LEMMA DataInvariance == Spec => []DataInv
<1>1. Init => DataInv
  BY DEF Init, NewUserAuthData, DataInv, TypeOK, UserAuthData, has_main
<1> QED
  BY <1>1, DataStep, PTL DEF Spec

-----------------------------------------------------------------------------
\* The authentication data keeps its type.
THEOREM TypeCorrect == Spec => []TypeOK
<1>1. DataInv => TypeOK
  BY DEF DataInv
<1> QED
  BY DataInvariance, <1>1, PTL

\* Whatever a user authenticates with (user.rs:330) yields the current main
\* password or nothing.
THEOREM YieldsMain == ASSUME SecretsDiffer PROVE Spec => []AuthYieldsMain
<1>1. DataInv => AuthYieldsMain
  BY MainByAuth DEF DataInv, TypeOK, AuthYieldsMain
<1> QED
  BY DataInvariance, <1>1, PTL

\* A method that holds the intermediate key opens the account for good (auth.rs:52),
\* whatever is set and added after it.
THEOREM MethodsWork == ASSUME SecretsDiffer PROVE Spec => []MethodsKeepWorking
<1>1. DataInv => MethodsKeepWorking
  <2> SUFFICES ASSUME DataInv, NEW i \in DOMAIN data.auth,
                      intermediate(data.auth[i], data.auth[i].password_hash.of)
                          = IntermediateKey(data)
               PROVE  main_by_auth(data, data.auth[i].password_hash.of) = CurrentMain(data)
    BY DEF MethodsKeepWorking
  <2>1. has_main(data) /\ data \in UserAuthData
    BY DEF DataInv, TypeOK
  <2>2. data.main \in MainPassword /\ Sealed(data.main)
    BY <2>1 DEF DataInv, UserAuthData, has_main
  <2>3. data.auth[i].password_hash.of \in Secrets
    BY <2>1, MethodTyped
  <2> QED
    BY <2>1, <2>2, <2>3, MethodOpens
<1> QED
  BY DataInvariance, <1>1, PTL

\* No operation but reset changes the intermediate key or its salt (README.md:32,
\* user.rs:399).
THEOREM KeyFixed == ASSUME SecretsDiffer PROVE Spec => IntermediateKeyFixed
<1> DEFINE Fixed == has_main(data) /\ has_main(data') =>
              /\ IntermediateKey(data') = IntermediateKey(data)
              /\ data'.main.intermediate_key_salt = data.main.intermediate_key_salt
<1>1. DataInv /\ [Next]_vars => [Fixed]_vars
  <2> SUFFICES ASSUME DataInv, Next, has_main(data), has_main(data')
               PROVE  /\ IntermediateKey(data') = IntermediateKey(data)
                      /\ data'.main.intermediate_key_salt = data.main.intermediate_key_salt
    OBVIOUS
  <2>1. ASSUME NEW s \in Secrets, NEW ik \in Secrets, set_main(s, ik)
        PROVE  /\ IntermediateKey(data') = IntermediateKey(data)
               /\ data'.main.intermediate_key_salt = data.main.intermediate_key_salt
    <3>1. IntermediateKey(data) = ik
      <4>1. bcrypt_verify(ik, data.main.intermediate_key_hash)
        BY <2>1 DEF set_main, MaySetMain
      <4>2. data.main.intermediate_key_hash \in BcryptHashes
        BY DEF DataInv, TypeOK, UserAuthData, has_main, MainPassword
      <4> QED
        BY <4>1, <4>2, Verifies DEF IntermediateKey
    <3> QED
      BY <2>1, <3>1, NewMainSealed DEF set_main, DataInv, TypeOK
  <2>2. ASSUME NEW s \in Secrets, NEW ik \in Secrets, add_secondary_password(ik, s)
        PROVE  data'.main = data.main
    BY <2>2 DEF add_secondary_password, WithSecondary, DataInv, TypeOK, UserAuthData
  <2>3. ASSUME NEW s \in Secrets,
               \/ set_main_refused(s) \/ add_refused(s)
               \/ check_main(s) \/ sm_authenticate(s)
        PROVE  data' = data
    BY <2>3 DEF set_main_refused, add_refused, check_main, sm_authenticate
  <2>4. ~ reset
    BY DEF reset, NewUserAuthData, has_main
  <2> QED
    BY <2>1, <2>2, <2>3, <2>4 DEF Next, IntermediateKey
<1> QED
  BY DataInvariance, <1>1, PTL DEF Spec, IntermediateKeyFixed

\* A login succeeds only with a secret of the account, typed or empty (lib.rs:486,
\* 525).
THEOREM LoginsNeedSecret == ASSUME SecretsDiffer PROVE Spec => LoginNeedsSecret
<1> DEFINE Known == {CurrentMain(data), IntermediateKey(data)}
                       \cup {data.auth[i].password_hash.of : i \in DOMAIN data.auth}
           Needs == \A s \in Secrets :
                       sm_authenticate(s) /\ answer' \notin {"USER_UNKNOWN", "AUTH_ERR"} =>
                          /\ has_main(data)
                          /\ \E known \in Known : known \in {s, Empty}
<1>1. DataInv => Needs
  <2> SUFFICES ASSUME DataInv, NEW s \in Secrets, sm_authenticate(s),
                      answer' \notin {"USER_UNKNOWN", "AUTH_ERR"}
               PROVE  has_main(data) /\ \E known \in Known : known \in {s, Empty}
    OBVIOUS
  <2>1. /\ has_main(data)
        /\ \E x \in {Empty, s} : main_by_auth(data, x) # None
    BY DEF sm_authenticate
  <2>2. PICK x \in {Empty, s} : main_by_auth(data, x) # None
    BY <2>1
  <2>0. x \in Secrets /\ data \in UserAuthData
    BY UserAuthAssumption DEF DataInv, TypeOK
  <2>3. CASE plain(data.main, x) # None
    <3>1. data.main \in MainPassword
      BY <2>0, <2>1 DEF UserAuthData, has_main
    <3> QED
      BY <2>0, <2>1, <2>3, <3>1, PlainYields DEF CurrentMain, IntermediateKey
  <2>4. CASE Good(data, x) # {}
    <3>1. PICK i \in DOMAIN data.auth : Opens(data, i, x)
      BY <2>4 DEF Good
    <3>2. data.auth[i].password_hash \in BcryptHashes
      BY <2>0, MethodTyped
    <3>3. bcrypt_verify(x, data.auth[i].password_hash)
      BY <3>1 DEF Opens, intermediate
    <3>4. data.auth[i].password_hash.of = x
      BY <2>0, <3>2, <3>3, Verifies
    <3> QED
      BY <2>1, <3>4
  <2> QED
    BY <2>0, <2>1, <2>2, <2>3, <2>4, MainByAuth
<1> QED
  BY DataInvariance, <1>1, PTL DEF Spec, LoginNeedsSecret
=============================================================================
