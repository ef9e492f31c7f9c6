------------------------------ MODULE AuthData ------------------------------
(***************************************************************************)
(* The authentication data of one user as a value (src/user.rs,            *)
(* src/auth.rs): the main password, encrypted under a key derived from the *)
(* intermediate key, and the secondary passwords, each of which stores the *)
(* intermediate key encrypted under a key derived from that password.      *)
(*                                                                         *)
(* Cryptography is symbolic: a hash remembers its secret and its salt, a   *)
(* ciphertext its key and its plaintext, and opens with that key alone.    *)
(* bcrypt sees no more of a secret than its first 72 bytes, the keys of    *)
(* the ciphertexts are derived from all of it.                             *)
(* is_valid_password, which the functions test first, holds of every Rust  *)
(* string: its bytes are UTF-8 already. Functions that return Result       *)
(* return None for Err; a method that changes the data is a predicate that *)
(* says when it succeeds and the set of values it may leave.               *)
(***************************************************************************)
EXTENDS Naturals, Sequences

CONSTANTS
    Secrets,      \* strings used as passwords and keys
    First72,      \* secret -> its first 72 bytes
    Salts,        \* random salts
    None          \* Rust's None, and Err of the functions below

BcryptHashes == [of : Secrets, salt : Salts]
Ciphertexts == [key : Secrets, salt : Salts, plain : Secrets]

\* struct MainPassword, struct SecondaryPassword, struct UserAuthData.
MainPassword == [main_hash : BcryptHashes, enc_main : Ciphertexts,
                 intermediate_key_salt : Salts, intermediate_key_hash : BcryptHashes]
SecondaryPassword == [enc_intermediate : Ciphertexts, password_salt : Salts,
                      password_hash : BcryptHashes]
UserAuthData == [main : MainPassword \cup {None}, auth : Seq(SecondaryPassword)]

ASSUME AuthDataAssumption == None \notin Secrets /\ None \notin MainPassword

-----------------------------------------------------------------------------
bcrypt_hash(secret, salt) == [of |-> secret, salt |-> salt]
bcrypt_verify(secret, h) == First72[h.of] = First72[secret]
encrypt(secret, salt, plain) == [key |-> secret, salt |-> salt, plain |-> plain]
decrypt(secret, salt, c) ==
    IF c.key = secret /\ c.salt = salt THEN c.plain ELSE None

\* MainPassword::new; bcrypt salts its hashes itself.
NewMain(new_main, ik, ik_salt, bcrypt_salt) ==
    [main_hash |-> bcrypt_hash(new_main, bcrypt_salt),
     enc_main |-> encrypt(ik, ik_salt, new_main),
     intermediate_key_salt |-> ik_salt,
     intermediate_key_hash |-> bcrypt_hash(ik, bcrypt_salt)]

\* Mutant: the intermediate key is returned in place of what it decrypts.
plain_key(main, ik_or_main) ==
    IF \/ bcrypt_verify(ik_or_main, main.main_hash)
       \/ bcrypt_verify(ik_or_main, main.intermediate_key_hash)
    THEN ik_or_main ELSE None

\* Mutant: what bcrypt says of the main password is not looked at.
plain_untested(main, ik_or_main) == ik_or_main

\* MainPassword::plain: the main password, from itself or from the
\* intermediate key.
plain(main, ik_or_main) ==
    LET decrypted == decrypt(ik_or_main, main.intermediate_key_salt, main.enc_main)
    IN  CASE bcrypt_verify(ik_or_main, main.main_hash) -> ik_or_main
          [] ~ bcrypt_verify(ik_or_main, main.main_hash)
             /\ bcrypt_verify(ik_or_main, main.intermediate_key_hash)
             /\ decrypted # None
             /\ bcrypt_verify(decrypted, main.main_hash) -> decrypted
          [] OTHER -> None

\* SecondaryPassword::new and ::intermediate.
NewSecondary(ik, password, salt) ==
    [enc_intermediate |-> encrypt(password, salt, ik), password_salt |-> salt,
     password_hash |-> bcrypt_hash(password, salt)]

intermediate(method, password) ==
    IF bcrypt_verify(password, method.password_hash)
    THEN decrypt(password, method.password_salt, method.enc_intermediate)
    ELSE None

\* UserAuthData::main_by_auth, for a user who has a main password: the
\* password itself, or the first secondary method that leads to the main
\* password.
Opens(data, i, password) ==
    LET ik == intermediate(data.auth[i], password)
    IN  ik # None /\ plain(data.main, ik) # None

main_by_auth(data, password) ==
    LET good == {i \in DOMAIN data.auth : Opens(data, i, password)}
        first == CHOOSE i \in good : \A j \in good : i <= j
    IN  CASE plain(data.main, password) # None -> plain(data.main, password)
          [] plain(data.main, password) = None /\ good # {} ->
                 plain(data.main, intermediate(data.auth[first], password))
          [] OTHER -> None

-----------------------------------------------------------------------------
\* UserAuthData::new and ::has_main.
NewUserAuthData == [main |-> None, auth |-> <<>>]
has_main(data) == data.main # None

\* Mutants: a later set_main does not ask for the intermediate key; it leaves
\* the old main password encrypted.
MaySetMainAny(data, ik) == TRUE

WithMainStale(data, new_main, ik) ==
    {[data EXCEPT !.main =
         IF data.main = None THEN NewMain(new_main, ik, salt, salt)
         ELSE [data.main EXCEPT !.main_hash = bcrypt_hash(new_main, salt)]]
     : salt \in Salts}

\* UserAuthData::set_main: the first one draws a salt for the intermediate
\* key, a later one must know the intermediate key and keeps its salt.
MaySetMain(data, ik) ==
    has_main(data) => bcrypt_verify(ik, data.main.intermediate_key_hash)

WithMain(data, new_main, ik) ==
    {[data EXCEPT !.main = NewMain(new_main, ik, salt, bcrypt_salt)]
     : salt \in IF has_main(data) THEN {data.main.intermediate_key_salt} ELSE Salts,
       bcrypt_salt \in Salts}

\* UserAuthData::add_secondary_password.
MayAdd(data, ik) == has_main(data) /\ plain(data.main, ik) # None

\* Mutant: the new method takes the place of the others.
WithSecondaryAlone(data, ik, password) ==
    {[data EXCEPT !.auth = <<NewSecondary(ik, password, salt)>>] : salt \in Salts}

WithSecondary(data, ik, password) ==
    {[data EXCEPT !.auth = Append(@, NewSecondary(ik, password, salt))]
     : salt \in Salts}

\* The secrets the data was made with, and the ones that give the intermediate
\* key.
CurrentMain(data) == data.main.main_hash.of
IntermediateKey(data) == data.main.intermediate_key_hash.of
GivesKey(data, s) ==
    \/ s = IntermediateKey(data)
    \/ \E i \in DOMAIN data.auth : intermediate(data.auth[i], s) = IntermediateKey(data)
=============================================================================
