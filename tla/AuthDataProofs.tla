--------------------------- MODULE AuthDataProofs ---------------------------
(***************************************************************************)
(* What the operators of AuthData return, for every set of secrets and of  *)
(* salts and any number of methods.                                        *)
(***************************************************************************)
EXTENDS AuthData, WellFoundedInduction, TLAPS

\* The first of the methods that open (user.rs:340) exists: a set of naturals has
\* a least element.
LEMMA LeastNatural ==
  ASSUME NEW S, S \subseteq Nat, S # {}
  PROVE  \E m \in S : \A k \in S : m <= k
<1> DEFINE R == OpToRel(<, Nat)
<1>1. IsWellFoundedOn(R, Nat)
  BY NatLessThanWellFounded
<1>2. PICK m \in S : \A k \in S : ~ (<<k, m>> \in R)
  <2> HIDE DEF R
  <2> QED
    BY <1>1, WFMin
<1>3. \A k \in S : ~ (k < m)
  BY <1>2 DEF OpToRel
<1> QED
  BY <1>3

\* Secrets differ in the 72 bytes that bcrypt looks at (user.rs:231, 391): it tells
\* them all apart.
SecretsDiffer == \A s, t \in Secrets : First72[s] = First72[t] => s = t

\* bcrypt accepts a secret for its own hash, and no other that it can tell apart.
LEMMA Verifies ==
  ASSUME NEW h \in BcryptHashes, NEW s \in Secrets
  PROVE  /\ h.of \in Secrets
         /\ bcrypt_verify(h.of, h)
         /\ SecretsDiffer => (bcrypt_verify(s, h) <=> h.of = s)
  BY DEF BcryptHashes, bcrypt_verify, SecretsDiffer

\* MainPassword::plain returns a password or nothing.
LEMMA PlainTyped ==
  ASSUME NEW main \in MainPassword, NEW x \in Secrets
  PROVE  plain(main, x) \in Secrets \cup {None}
<1>1. main.enc_main \in Ciphertexts
  BY DEF MainPassword
<1>2. decrypt(x, main.intermediate_key_salt, main.enc_main) \in Secrets \cup {None}
  BY <1>1 DEF decrypt, Ciphertexts
<1> QED
  BY <1>2 DEF plain

\* The hash of a method is the hash of a secret.
LEMMA MethodTyped ==
  ASSUME NEW d \in UserAuthData, NEW i \in DOMAIN d.auth
  PROVE  /\ d.auth[i] \in SecondaryPassword
         /\ d.auth[i].password_hash \in BcryptHashes
         /\ d.auth[i].password_hash.of \in Secrets
<1>1. d.auth[i] \in SecondaryPassword
  BY DEF UserAuthData
<1>2. d.auth[i].password_hash \in BcryptHashes
  BY <1>1 DEF SecondaryPassword
<1> QED
  BY <1>1, <1>2 DEF BcryptHashes

\* SecondaryPassword::intermediate returns a key or nothing.
LEMMA IntermediateTyped ==
  ASSUME NEW method \in SecondaryPassword, NEW x
  PROVE  intermediate(method, x) \in Secrets \cup {None}
<1>1. method.enc_intermediate \in Ciphertexts
  BY DEF SecondaryPassword
<1> QED
  BY <1>1 DEF intermediate, decrypt, Ciphertexts

\* MainPassword::plain returns the main password or nothing, and something only
\* for the main password or the intermediate key.
LEMMA PlainYields ==
  ASSUME SecretsDiffer, NEW main \in MainPassword, NEW x \in Secrets
  PROVE  /\ plain(main, x) \in {None, main.main_hash.of}
         /\ plain(main, x) # None => x \in {main.main_hash.of, main.intermediate_key_hash.of}
<1> DEFINE decrypted == decrypt(x, main.intermediate_key_salt, main.enc_main)
<1>1. /\ main.main_hash \in BcryptHashes /\ main.intermediate_key_hash \in BcryptHashes
      /\ main.enc_main \in Ciphertexts
  BY DEF MainPassword
<1>2. decrypted \in Secrets \cup {None}
  BY <1>1 DEF decrypt, Ciphertexts
<1> HIDE DEF decrypted
<1>3. /\ bcrypt_verify(x, main.main_hash) <=> main.main_hash.of = x
      /\ bcrypt_verify(x, main.intermediate_key_hash) <=> main.intermediate_key_hash.of = x
      /\ decrypted # None =>
            (bcrypt_verify(decrypted, main.main_hash) <=> main.main_hash.of = decrypted)
  BY <1>1, <1>2, Verifies
<1> QED
  BY <1>3 DEF plain, decrypted

\* The encrypted main password opens with the intermediate key.
Sealed(main) ==
    main.enc_main = encrypt(main.intermediate_key_hash.of, main.intermediate_key_salt,
                            main.main_hash.of)

\* MainPassword::plain gets the main password from the intermediate key.
LEMMA KeyOpens ==
  ASSUME NEW main \in MainPassword, Sealed(main)
  PROVE  /\ plain(main, main.intermediate_key_hash.of) # None
         /\ SecretsDiffer => plain(main, main.intermediate_key_hash.of) = main.main_hash.of
<1> DEFINE ik == main.intermediate_key_hash.of
           decrypted == decrypt(ik, main.intermediate_key_salt, main.enc_main)
<1>1. /\ main.main_hash \in BcryptHashes /\ main.intermediate_key_hash \in BcryptHashes
      /\ ik \in Secrets /\ main.main_hash.of \in Secrets
  BY DEF MainPassword, BcryptHashes
<1>2. decrypted = main.main_hash.of
  BY DEF Sealed, encrypt, decrypt
<1> HIDE DEF decrypted
<1>3. bcrypt_verify(ik, main.intermediate_key_hash) /\ bcrypt_verify(decrypted, main.main_hash)
  BY <1>1, <1>2, Verifies
<1>4. plain(main, ik) # None
  BY <1>1, <1>2, <1>3, AuthDataAssumption DEF plain, decrypted
<1>5. SecretsDiffer => plain(main, ik) \in {None, main.main_hash.of}
  BY <1>1, PlainYields
<1> QED
  BY <1>4, <1>5

\* The methods that open the account with a password.
Good(d, password) == {i \in DOMAIN d.auth : Opens(d, i, password)}

\* main_by_auth returns the main password as it is, for the main password, the
\* intermediate key and the password of a method that opens; else nothing.
LEMMA MainByAuth ==
  ASSUME NEW d \in UserAuthData, has_main(d), NEW s \in Secrets
  PROVE  /\ main_by_auth(d, s) \in Secrets \cup {None}
         /\ SecretsDiffer => main_by_auth(d, s) \in {None, CurrentMain(d)}
         /\ main_by_auth(d, s) # None <=>
               plain(d.main, s) # None \/ Good(d, s) # {}
<1> DEFINE first == CHOOSE i \in Good(d, s) : \A j \in Good(d, s) : i <= j
<1>1. main_by_auth(d, s) =
        CASE plain(d.main, s) # None -> plain(d.main, s)
          [] plain(d.main, s) = None /\ Good(d, s) # {} ->
                 plain(d.main, intermediate(d.auth[first], s))
          [] OTHER -> None
  BY DEF main_by_auth, Good
<1>2. Good(d, s) # {} => first \in Good(d, s)
  <2>1. Good(d, s) \subseteq Nat
    BY DEF Good, UserAuthData
  <2> QED
    BY <2>1, LeastNatural
<1>3. Good(d, s) # {} => plain(d.main, intermediate(d.auth[first], s)) # None
  BY <1>2 DEF Good, Opens
<1>4. Good(d, s) # {} => intermediate(d.auth[first], s) \in Secrets
  <2>1. Good(d, s) # {} => d.auth[first] \in SecondaryPassword
    BY <1>2 DEF Good, UserAuthData
  <2>2. Good(d, s) # {} => intermediate(d.auth[first], s) # None
    BY <1>2 DEF Good, Opens
  <2> QED
    BY <2>1, <2>2, IntermediateTyped
<1> HIDE DEF first
<1>5. d.main \in MainPassword
  BY DEF UserAuthData, has_main
<1>6. \A x \in Secrets : /\ plain(d.main, x) \in Secrets \cup {None}
                         /\ SecretsDiffer => plain(d.main, x) \in {None, CurrentMain(d)}
  BY <1>5, PlainTyped, PlainYields DEF CurrentMain
<1> QED
  BY <1>1, <1>3, <1>4, <1>6

\* UserAuthData::set_main leaves a main password that opens with the key it was given
\* (user.rs:399) and all methods.
LEMMA NewMainSealed ==
  ASSUME NEW d \in UserAuthData, NEW s \in Secrets, NEW ik \in Secrets,
         NEW e \in WithMain(d, s, ik)
  PROVE  /\ e \in UserAuthData /\ has_main(e) /\ Sealed(e.main)
         /\ CurrentMain(e) = s /\ IntermediateKey(e) = ik /\ e.auth = d.auth
         /\ has_main(d) =>
               e.main.intermediate_key_salt = d.main.intermediate_key_salt
<1>1. PICK salt \in Salts, bcrypt_salt \in Salts :
        /\ e = [d EXCEPT !.main = NewMain(s, ik, salt, bcrypt_salt)]
        /\ has_main(d) => salt = d.main.intermediate_key_salt
  BY DEF WithMain, UserAuthData, MainPassword, has_main
<1>2. NewMain(s, ik, salt, bcrypt_salt) \in MainPassword
  BY DEF NewMain, MainPassword, BcryptHashes, Ciphertexts, bcrypt_hash, encrypt
<1>3. e.main = NewMain(s, ik, salt, bcrypt_salt) /\ e.auth = d.auth /\ e \in UserAuthData
  BY <1>1, <1>2 DEF UserAuthData
<1>4. has_main(e)
  BY <1>2, <1>3, AuthDataAssumption DEF has_main
<1> QED
  BY <1>1, <1>3, <1>4
     DEF NewMain, Sealed, CurrentMain, IntermediateKey, bcrypt_hash, encrypt

\* A method that holds the intermediate key opens the account (auth.rs:52).
LEMMA MethodOpens ==
  ASSUME NEW d \in UserAuthData, has_main(d), Sealed(d.main), NEW i \in DOMAIN d.auth,
         NEW password \in Secrets, intermediate(d.auth[i], password) = IntermediateKey(d)
  PROVE  /\ main_by_auth(d, password) # None
         /\ SecretsDiffer => main_by_auth(d, password) = CurrentMain(d)
<1>1. d.main \in MainPassword
  BY DEF UserAuthData, has_main
<1>2. plain(d.main, IntermediateKey(d)) # None
  BY <1>1, KeyOpens DEF IntermediateKey
<1>3. IntermediateKey(d) \in Secrets
  BY <1>1 DEF MainPassword, BcryptHashes, IntermediateKey
<1>4. i \in Good(d, password)
  BY <1>2, <1>3, AuthDataAssumption DEF Opens, Good
<1> QED
  BY <1>4, MainByAuth

\* UserAuthData::add_secondary_password appends one method, which gives the key
\* back for its password, and changes nothing else.
LEMMA SecondaryAdded ==
  ASSUME NEW d \in UserAuthData, NEW ik \in Secrets, NEW password \in Secrets,
         NEW e \in WithSecondary(d, ik, password)
  PROVE  /\ e \in UserAuthData /\ e.main = d.main
         /\ \A i \in DOMAIN d.auth : i \in DOMAIN e.auth /\ e.auth[i] = d.auth[i]
         /\ \E n \in DOMAIN e.auth, salt \in Salts :
               /\ DOMAIN e.auth = DOMAIN d.auth \cup {n}
               /\ e.auth[n] = NewSecondary(ik, password, salt)
               /\ intermediate(e.auth[n], password) = ik
<1>1. PICK salt \in Salts :
        e = [d EXCEPT !.auth = Append(d.auth, NewSecondary(ik, password, salt))]
  BY DEF WithSecondary
<1> DEFINE method == NewSecondary(ik, password, salt)
           s == d.auth
           n == Len(s) + 1
<1>2. method \in SecondaryPassword
  BY DEF NewSecondary, SecondaryPassword, BcryptHashes, Ciphertexts, bcrypt_hash, encrypt
<1>3. intermediate(method, password) = ik
  BY DEF NewSecondary, intermediate, bcrypt_verify, bcrypt_hash, encrypt, decrypt
<1>4. s \in Seq(SecondaryPassword) /\ e.main = d.main /\ e.auth = Append(s, method)
  BY <1>1 DEF UserAuthData
<1> HIDE DEF method, s
<1>5. /\ Append(s, method) \in Seq(SecondaryPassword)
      /\ DOMAIN s = 1 .. Len(s) /\ DOMAIN Append(s, method) = 1 .. n
      /\ \A i \in 1 .. Len(s) : Append(s, method)[i] = s[i]
      /\ Append(s, method)[n] = method /\ Len(s) \in Nat
  BY <1>2, <1>4
<1>6. e \in UserAuthData
  BY <1>1, <1>4, <1>5 DEF UserAuthData, s, method
<1>7. DOMAIN e.auth = DOMAIN s \cup {n} /\ n \in DOMAIN e.auth
  BY <1>4, <1>5
<1>8. \A i \in DOMAIN s : i \in DOMAIN e.auth /\ e.auth[i] = s[i]
  BY <1>4, <1>5
<1>9. e.auth[n] = method
  BY <1>4, <1>5
<1> QED
  BY <1>3, <1>4, <1>6, <1>7, <1>8, <1>9 DEF s, method
=============================================================================
