------------------------------ MODULE UserAuth ------------------------------
(***************************************************************************)
(* The life of one user's authentication data (src/user.rs, src/auth.rs)   *)
(* and the PAM login on top of it (sm_authenticate in src/lib.rs).         *)
(***************************************************************************)
EXTENDS AuthData

CONSTANTS
    Empty,        \* the empty string, which sm_authenticate tries first
    MaxMethods    \* bound: number of secondary methods

ASSUME UserAuthAssumption ==
    /\ Empty \in Secrets /\ MaxMethods \in Nat
    /\ Secrets \cap {"USER_UNKNOWN", "AUTH_ERR"} = {}   \* no secret is an error code

VARIABLES
    data,      \* UserAuthData: main password and secondary methods
    answer     \* what the last operation returned

vars == <<data, answer>>

-----------------------------------------------------------------------------
Init == data = NewUserAuthData /\ answer = "none"

set_main(new_main, ik) ==
    /\ MaySetMain(data, ik)
    /\ data' \in WithMain(data, new_main, ik)
    /\ answer' = "Ok"

set_main_refused(ik) ==
    /\ ~ MaySetMain(data, ik)
    /\ answer' = "WrongIntermediateKey"
    /\ UNCHANGED data

add_secondary_password(ik, password) ==
    /\ Len(data.auth) < MaxMethods
    /\ MayAdd(data, ik)
    /\ data' \in WithSecondary(data, ik, password)
    /\ answer' = "Ok"

add_refused(ik) ==
    /\ ~ MayAdd(data, ik)
    /\ answer' = IF has_main(data) THEN "WrongIntermediateKey" ELSE "MainPasswordNotSet"
    /\ UNCHANGED data

\* UserAuthData::check_main hashes the given password anew, with a salt that
\* bcrypt draws for this hash, and compares the two hashes.
check_main(password) ==
    /\ has_main(data)
    /\ \E salt \in Salts \ {data.main.main_hash.salt} :
          answer' = IF data.main.main_hash = bcrypt_hash(password, salt)
                    THEN "true" ELSE "false"
    /\ UNCHANGED data

\* polyauthctl reset: the user's file is removed.
reset ==
    /\ has_main(data)
    /\ data' = NewUserAuthData
    /\ answer' = "Ok"

\* Mutant: the outcome for the prompted password is not tested.
sm_authenticate_untested(prompted) ==
    /\ answer' = IF has_main(data) THEN main_by_auth(data, prompted)
                 ELSE "USER_UNKNOWN"
    /\ UNCHANGED data

\* sm_authenticate: the empty password first, then the one asked for. On
\* success the main password is stored for sm_open_session.
sm_authenticate(prompted) ==
    LET good == {s \in {Empty, prompted} : main_by_auth(data, s) # None}
        tried == IF Empty \in good THEN Empty ELSE prompted
    IN  /\ answer' = CASE ~ has_main(data) -> "USER_UNKNOWN"
                       [] has_main(data) /\ good # {} -> main_by_auth(data, tried)
                       [] has_main(data) /\ good = {} -> "AUTH_ERR"
        /\ UNCHANGED data

Next ==
    \/ \E s, ik \in Secrets : set_main(s, ik) \/ add_secondary_password(ik, s)
    \/ \E s \in Secrets : \/ set_main_refused(s) \/ add_refused(s)
                          \/ check_main(s) \/ sm_authenticate(s)
    \/ reset

Spec == Init /\ [][Next]_vars

-----------------------------------------------------------------------------
(* Properties.                                                             *)

\* Every variable keeps its type.
TypeOK ==
    /\ data \in UserAuthData
    /\ answer \in Secrets \cup {"none", "Ok", "WrongIntermediateKey",
                                "MainPasswordNotSet", "true", "false",
                                "USER_UNKNOWN", "AUTH_ERR"}

\* user.rs:330: whatever a user authenticates with yields the main password as
\* it is now, also through a method that was added before the main password
\* was changed, or nothing.
AuthYieldsMain ==
    has_main(data) =>
        \A s \in Secrets : main_by_auth(data, s) \in {None, CurrentMain(data)}

\* auth.rs:52: a method that was given the intermediate key keeps opening the
\* account, however often the main password is changed and whatever methods
\* are added before or after it. (user.rs:302 accepts the main password in
\* place of the intermediate key; such a method dies with that password.)
MethodsKeepWorking ==
    \A i \in DOMAIN data.auth :
        LET password == data.auth[i].password_hash.of
        IN  intermediate(data.auth[i], password) = IntermediateKey(data) =>
                main_by_auth(data, password) = CurrentMain(data)

\* README.md:32: the intermediate key "cannot be changed unless every data
\* associated with this software is removed for the specific user".
IntermediateKeyFixed ==
    [][has_main(data) /\ has_main(data') =>
          /\ IntermediateKey(data') = IntermediateKey(data)
          /\ data'.main.intermediate_key_salt = data.main.intermediate_key_salt]_vars

\* lib.rs:486, 525: PAM is told of no success, with whatever main password, but
\* for a user who has one and who gave the main password, the intermediate key
\* or a secondary password, or registered the empty password.
LoginNeedsSecret ==
    [][\A s \in Secrets :
          sm_authenticate(s) /\ answer' \notin {"USER_UNKNOWN", "AUTH_ERR"} =>
              /\ has_main(data)
              /\ \E known \in {CurrentMain(data), IntermediateKey(data)}
                    \cup {data.auth[i].password_hash.of : i \in DOMAIN data.auth} :
                    known \in {s, Empty}]_vars
=============================================================================
